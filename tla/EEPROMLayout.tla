------------------------------ MODULE EEPROMLayout ------------------------------
(***************************************************************************)
(* EEPROMLayoutStore (src/src/EEPROMStore.h) as the example LayoutMetadata *)
(* uses it: a header at a fixed address tells the layout in which the      *)
(* configuration was written, and a program with another layout replaces   *)
(* both.  The device is updated with programs of different layouts, and    *)
(* its power may go at any step of setup().                                *)
(***************************************************************************)
EXTENDS Integers

CONSTANTS
  Layouts,     \* [version, size, address, item] of each program
  NoLayout     \* what an EEPROM holds that no program has written

\* The fields of the header in the order of their bytes, and what is put after each.
Following == [version |-> "size", size |-> "address", address |-> "item",
              item |-> "config"]
Fields == DOMAIN Following

Addresses == {l.address : l \in Layouts}

LayoutAssumption ==
  /\ NoLayout \notin Layouts
  /\ \A l \in Layouts \cup {NoLayout} : l = [f \in Fields |-> l[f]]

VARIABLES
  program,     \* the layout of the program that runs
  direct,      \* whether put() changes the cells themselves (AVR)
  step,        \* "off", "read", the field of the header to be put, "config",
               \* "commit", "done"
  memory,      \* [header, config]: what get() and put() see; the configuration at an
               \* address is known by the layout it was written in
  durable,     \* the same, as it survives a power loss
  used,        \* the layout of the configuration the program runs with
  torn         \* history: power went while the cells held a part of a header, or
               \* all of it, whose configuration had not been put yet

layoutVars == <<program, direct, step, memory, durable, used, torn>>

Init ==
  /\ program \in Layouts /\ direct \in BOOLEAN
  /\ step = "off"
  /\ durable = [header |-> NoLayout, config |-> [a \in Addresses |-> NoLayout]]
  /\ memory = durable
  /\ used = NoLayout /\ torn = FALSE

\* Mutant of IsSectionCompatible: the address is not compared.
IsSectionCompatibleAnywhere(expected, actual) == expected.size = actual.size

IsSectionCompatible(expected, actual) ==
  expected.size = actual.size /\ expected.address = actual.address

IsSameLayout(actual, expected) ==
  /\ actual.version = expected.version
  /\ IsSectionCompatible(expected, actual)
  /\ actual.item = expected.item

\* session.begin() of setup().
SessionBegin ==
  /\ step = "off" /\ step' = "read"
  /\ memory' = durable
  /\ UNCHANGED <<program, direct, durable, used, torn>>

\* layoutStore.read(), session.get(), and their comparison.
ReadHeader ==
  /\ step = "read"
  /\ IF IsSameLayout(memory.header, program)
       THEN step' = "done" /\ used' = memory.config[program.address]
       ELSE step' = "version" /\ UNCHANGED used
  /\ UNCHANGED <<program, direct, memory, durable, torn>>

Put(mem) == memory' = mem /\ durable' = IF direct THEN mem ELSE durable

\* layoutStore.write(): the fields of the header, one after the other.
WriteHeader ==
  /\ step \in Fields
  /\ Put([memory EXCEPT !.header[step] = program[step]])
  /\ step' = Following[step]
  /\ UNCHANGED <<program, direct, used, torn>>

PutConfig ==
  /\ step = "config" /\ step' = "commit"
  /\ Put([memory EXCEPT !.config[program.address] = program])
  /\ torn' = FALSE
  /\ UNCHANGED <<program, direct, used>>

\* session.commit(), which may fail behind a RAM buffer and whose answer is dropped:
\* the program runs with the defaults it has put all the same.
Commit ==
  /\ step = "commit" /\ step' = "done"
  /\ durable' = memory \/ (~direct /\ UNCHANGED durable)
  /\ used' = program
  /\ UNCHANGED <<program, direct, memory, torn>>

\* The power goes, and the device may come back with another program.
PowerLoss ==
  /\ step # "off" /\ step' = "off"
  /\ program' \in Layouts
  /\ torn' = (torn \/ (direct /\ step \in Fields \cup {"config"}))
  /\ used' = NoLayout
  /\ UNCHANGED <<direct, memory, durable>>

Next == SessionBegin \/ ReadHeader \/ WriteHeader \/ PutConfig \/ Commit \/ PowerLoss
Spec == Init /\ [][Next]_layoutVars

-----------------------------------------------------------------------------
\* The type of the device's state.
TypeOK ==
  /\ program \in Layouts /\ direct \in BOOLEAN /\ torn \in BOOLEAN
  /\ step \in {"off", "read", "config", "commit", "done"} \cup Fields
  /\ used \in Layouts \cup {NoLayout}
  /\ DOMAIN memory.header = Fields
  /\ durable.config \in [Addresses -> Layouts \cup {NoLayout}]

\* A program runs with a configuration of its own layout, whatever programs the
\* device ran before, wherever their updates were cut off and whichever commits failed,
\* behind a RAM buffer; on an AVR as long as its power was not lost between the first
\* byte of a header and the configuration, as the header that is put first may then
\* read as a program's whose configuration is not there.
RunsWithOwnLayout == step = "done" /\ ~torn => used = program
=============================================================================
