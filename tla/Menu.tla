---------------------------------- MODULE Menu ----------------------------------
(***************************************************************************)
(* Menu (src/src/Menu.cpp): menuApp() picks an entry of a table by the key *)
(* pressed, or by the number typed at the menu, and runs its function,     *)
(* which gets the number of the entry and may change it.  A key that       *)
(* chooses nothing leaves the number as the stack had it.                  *)
(***************************************************************************)
EXTENDS Integers, Sequences

CONSTANTS
  Entries,     \* gMenu without its END: functions and shortcut keys
  Keys,        \* what the program passes to menuApp()
  NoKey,       \* '\0': an entry without a shortcut
  MenuKey,     \* gMenuChar
  Typed,       \* the numbers typed at the menu; toInt() gives 0 for no number
  B            \* a mode counts modulo B (2^8)

\* A table whose entries countMenu() can count; the menu key is a key and no shortcut.
MenuAssumption ==
  /\ B \in Nat \ {0} /\ Len(Entries) < B /\ NoKey # MenuKey
  /\ Len(Entries) \in Nat /\ DOMAIN Entries = 1..Len(Entries)
  /\ Typed \subseteq Int
  /\ \A i \in DOMAIN Entries : Entries[i].key # MenuKey

VARIABLES
  mode,        \* what menuApp() returned
  ran,         \* the function the last menuApp() ran, or "nothing"
  lastMode,    \* lastMode of isFirstAccess()
  first,       \* what isFirstAccess() last answered
  chosen       \* history: the key and the number of the last menuApp()

vars == <<mode, ran, lastMode, first, chosen>>

Modes == 0..(B - 1)

Init == /\ mode = 0 /\ ran = "nothing" /\ lastMode = 0 /\ first = FALSE
        /\ chosen = [key |-> NoKey, number |-> 0]

\* Mutant of GetMenuNum: one further than the entry.
GetMenuNumNext(f) == CHOOSE i \in 1..Len(Entries) :
  Entries[i].function = f /\ \A j \in 1..(i - 1) : Entries[j].function # f

\* getMenuNum(): the first entry with the function.
GetMenuNum(f) == CHOOSE i \in 0..(Len(Entries) - 1) :
  Entries[i + 1].function = f /\ \A j \in 1..i : Entries[j].function # f

\* The entries with the key, in the order of the table.
WithKey(key) == {i \in DOMAIN Entries : Entries[i].key = key /\ key # NoKey}

\* getMode(): the numbers it may leave behind.  Without a choice that is what the
\* uninitialised variable of menuApp() happens to hold.
GetMode(key, number) ==
  IF key = MenuKey THEN {number % B}
  ELSE IF WithKey(key) = {} THEN Modes
  ELSE LET i == CHOOSE i \in WithKey(key) : \A j \in WithKey(key) : i <= j
       IN  {GetMenuNum(Entries[i].function)}

\* menuApp(), with exeMode(): the function leaves the number or clears it.
MenuApp(key, number) ==
  /\ \E md \in GetMode(key, number) :
       IF md < Len(Entries)
         THEN ran' = Entries[md + 1].function /\ mode' \in {md, 0}
         ELSE ran' = "nothing" /\ mode' = 0
  /\ chosen' = [key |-> key, number |-> number]
  /\ UNCHANGED <<lastMode, first>>

\* isFirstAccess(), of the mode menuApp() returned.
IsFirstAccess ==
  /\ first' = (mode # lastMode)
  /\ lastMode' = mode
  /\ UNCHANGED <<mode, ran, chosen>>

Next == IsFirstAccess \/ \E key \in Keys, number \in Typed : MenuApp(key, number)

-----------------------------------------------------------------------------
\* The type of the menu's state.
TypeOK ==
  /\ mode \in Modes /\ lastMode \in Modes /\ first \in BOOLEAN
  /\ ran \in {"nothing"} \cup {Entries[i].function : i \in DOMAIN Entries}
  /\ chosen.key \in Keys \cup {NoKey} /\ chosen.number \in Typed \cup {0}

\* A shortcut, and the number of an entry typed at the menu, run the function of
\* that entry and no other, though functions may stand in the table twice and the
\* mode is one byte.
ChoiceRuns ==
  /\ \A i \in WithKey(chosen.key) :
       (\A j \in WithKey(chosen.key) : i <= j) => ran = Entries[i].function
  /\ (chosen.key = MenuKey /\ chosen.number \in 0..(Len(Entries) - 1))
       => ran = Entries[chosen.number + 1].function
=============================================================================
