---------------------------- MODULE RandomSearch ----------------------------
(***************************************************************************)
(* search::RandomSearch (src/src/search/random.cpp): rolls an IF, LP, S at *)
(* random and then goes through all bypass schemes of it, optionally       *)
(* filtering the rolls made before.                                        *)
(*                                                                         *)
(* A roll is one step, so that the loop which repeats it until it is new   *)
(* can be seen spinning.                                                   *)
(***************************************************************************)
EXTENDS Integers, FiniteSets

CONSTANTS
  Points,   \* the IF, LP, S part of the mapspace's IDs
  DBSize    \* datatype bypass schemes

Schemes == 0 .. DBSize - 1

Ids == [point : Points, bypass : Schemes]

NoPoint == "none"

Status == {"Success", "MappingConstructionFailure", "EvalFailure"}

VARIABLES
  filter_revisits,   \* filter_revisits_
  state,             \* state_, and "Rolling" inside Next
  mapping_id,        \* mapping_id_
  sequence,          \* cur_ of the bypass generator
  covered,           \* masking_space_covered_
  visited,           \* visited_
  valid_mappings,    \* valid_mappings_
  sinceRoll          \* history: the IDs handed out since the last accepted roll

vars == <<filter_revisits, state, mapping_id, sequence, covered, visited, valid_mappings, sinceRoll>>

\* MapSpace::Size.
Size == Cardinality(Points) * DBSize

\* The constructor.
Init ==
  /\ filter_revisits \in BOOLEAN
  /\ state = IF Points = {} THEN "Terminated" ELSE "Ready"
  /\ mapping_id = [point |-> NoPoint, bypass |-> 0]
  /\ sequence = 0
  /\ covered = DBSize
  /\ visited = {}
  /\ valid_mappings = 0
  /\ sinceRoll = {}

\* SequenceGenerator128::Next: the value to hand out is the current one; the
\* generator loops round.
Following(n) == IF n = DBSize - 1 THEN 0 ELSE n + 1

HandOut(id) ==
  /\ mapping_id' = id
  /\ sequence' = Following(sequence)
  /\ state' = "WaitingForStatus"
  /\ UNCHANGED valid_mappings

\* All bypass schemes of the last roll were handed out, so Next rolls anew ...
StartRolling ==
  /\ state = "Ready"
  /\ covered = DBSize
  /\ state' = "Rolling"
  /\ UNCHANGED <<mapping_id, sequence, covered, visited, valid_mappings, sinceRoll>>

Rolled(point) == [point |-> point, bypass |-> sequence]

Filtered(id) == filter_revisits /\ id \in visited

\* ... until it has an ID that is not filtered.
RollAccepted ==
  /\ state = "Rolling"
  /\ \E point \in Points :
       /\ ~Filtered(Rolled(point))
       /\ visited' = IF filter_revisits THEN visited \cup {Rolled(point)} ELSE visited
       /\ HandOut(Rolled(point))
       /\ sinceRoll' = {Rolled(point)}
  /\ covered' = 1

\* The loop repeats; the bypass generator has moved on with the others, so
\* the next roll has another bypass scheme.
RollFiltered ==
  /\ state = "Rolling"
  /\ \E point \in Points : Filtered(Rolled(point)) /\ mapping_id' = Rolled(point)
  /\ sequence' = Following(sequence)
  /\ UNCHANGED <<state, covered, visited, valid_mappings, sinceRoll>>

\* Next hands out the following bypass scheme of the last roll.
RollBypass ==
  /\ state = "Ready"
  /\ covered # DBSize
  /\ HandOut([mapping_id EXCEPT !.bypass = sequence])
  /\ sinceRoll' = sinceRoll \cup {mapping_id'}
  /\ covered' = covered + 1
  /\ UNCHANGED visited

ValidAfter(status) == IF status = "Success" THEN valid_mappings + 1 ELSE valid_mappings

\* Report: the search ends when it has seen as many valid mappings as the
\* mapspace has IDs.
Report(status) ==
  /\ state = "WaitingForStatus"
  /\ valid_mappings' = ValidAfter(status)
  /\ state' = IF ValidAfter(status) >= Size THEN "Terminated" ELSE "Ready"
  /\ UNCHANGED <<mapping_id, sequence, covered, visited, sinceRoll>>

Done == state = "Terminated" /\ UNCHANGED vars

Next ==
  /\ \/ StartRolling \/ RollAccepted \/ RollFiltered \/ RollBypass
     \/ \E status \in Status : Report(status)
     \/ Done
  /\ UNCHANGED filter_revisits

-----------------------------------------------------------------------------
\* Properties.

\* The masking space of a roll is covered: between two accepted rolls the
\* search hands out every bypass scheme of one IF, LP, S exactly once, whatever
\* scheme the filtering left the sequence at.
SchemesInTurn ==
  sinceRoll # {} =>
    /\ covered = Cardinality(sinceRoll)
    /\ \A a, b \in sinceRoll : a.point = b.point
=============================================================================
