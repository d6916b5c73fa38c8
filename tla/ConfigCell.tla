------------------------------- MODULE ConfigCell -------------------------------
(***************************************************************************)
(* What a configuration store promises the program that uses it, without   *)
(* headers, buffers or cells: one value, replaced by writing another.      *)
(*                                                                         *)
(* An atomic cell goes from the old value to the new one in one step.  A   *)
(* cell that is not atomic may lose the old value while a write is under   *)
(* way, and a power loss then leaves it without a value, or with one that  *)
(* its check cannot tell from those that were being written.  When the     *)
(* program is told that a value is in the cell, it is.                     *)
(***************************************************************************)
CONSTANTS
  Data,          \* the values
  NoValue,       \* not one of them
  Atomic,        \* whether a write is one step
  Alike(_, _),   \* value, set of values: the check may take the one for one of these
  Same(_, _)     \* two values: the check takes the one for the other

VARIABLES
  stored,    \* the value in the cell, or NoValue
  writing,   \* the value being written, or NoValue
  told,      \* the value the program was last told is in the cell, or NoValue
  known      \* the value last written to the end, and those begun since

cell == <<stored, writing, told, known>>

\* What the cell may show once the values of K were being written.
Shown(K) == {NoValue} \cup {d \in Data : Alike(d, K)}

\* A new cell shows nothing, unless its check is fooled.
Init ==
  /\ stored \in Shown({}) /\ known = {}
  /\ writing = NoValue /\ told = NoValue

Start ==
  /\ writing = NoValue
  /\ writing' \in Data
  /\ known' = known \cup {writing'}
  /\ told' = NoValue
  /\ UNCHANGED stored

\* Halfway through a write that is not atomic.
Damage ==
  /\ ~Atomic /\ writing # NoValue
  /\ stored' \in Shown(known)
  /\ UNCHANGED <<writing, told, known>>

Arrive ==
  /\ ~Atomic /\ writing # NoValue
  /\ stored' = writing /\ known' = {writing}
  /\ UNCHANGED <<writing, told>>

End ==
  /\ writing # NoValue
  /\ stored' = writing /\ known' = {writing}
  /\ writing' = NoValue
  /\ told' \in {writing, NoValue}

\* A write that fails, over the value that is there already.
FailUnneeded ==
  /\ writing # NoValue /\ stored = writing
  /\ writing' = NoValue
  /\ told' \in {writing, NoValue}
  /\ UNCHANGED <<stored, known>>

\* The program asks for a write of the value that is there.
Skip ==
  /\ writing = NoValue /\ stored # NoValue
  /\ told' \in {d \in Data : Same(stored, d)}
  /\ UNCHANGED <<stored, writing, known>>

\* A power loss, or a call that tells the program something else.
Interrupt ==
  /\ writing' = NoValue
  /\ told' = NoValue
  /\ UNCHANGED <<stored, known>>

Next == Start \/ Damage \/ Arrive \/ End \/ FailUnneeded \/ Skip \/ Interrupt
Spec == Init /\ [][Next]_cell
=============================================================================
