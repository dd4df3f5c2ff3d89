----------------------------- MODULE Archiving ------------------------------
(***************************************************************************)
(* What archiving a tenant's audit log promises (docs/deployment.md and    *)
(* the comments of packages/server/src/audit-archive.ts), whoever runs it, *)
(* however often, and however they overlap or fail.                        *)
(*                                                                         *)
(* Events are recorded one after another and leave the database oldest     *)
(* first, which is recorded too.  Once a tenant is archived, what leaves   *)
(* was copied and passed over before.  Events may be copied any number of  *)
(* times, the position only moves on, and it never skips an event that is  *)
(* not copied, but for those that had left before there was an archive.    *)
(***************************************************************************)
EXTENDS Naturals

VARIABLES
  recorded,  \* how many events there were so far
  present,   \* those in the database
  begun,     \* is the tenant archived?
  copied,    \* those in the archive
  position   \* archived up to here

avars == <<recorded, present, begun, copied, position>>

Init ==
  /\ recorded = 0 /\ present = {}
  /\ begun = FALSE /\ copied = {} /\ position = 0

Record ==
  /\ recorded' = recorded + 1
  /\ present' = present \cup {recorded + 1}
  /\ UNCHANGED <<begun, copied, position>>

LetGo(n) ==
  /\ begun => n <= position /\ {e \in present : e <= n} \subseteq copied
  /\ recorded' = recorded + 1
  /\ present' = {e \in present : e > n} \cup {recorded + 1}
  /\ UNCHANGED <<begun, copied, position>>

Begin ==
  /\ ~begun /\ begun' = TRUE
  /\ UNCHANGED <<recorded, present, copied, position>>

Copy(events) ==
  /\ begun
  /\ copied' = copied \cup events
  /\ UNCHANGED <<recorded, present, begun, position>>

\* What the position passes over for the first time may have left.
MoveTo(n) ==
  /\ n > position
  /\ \A e \in (position + 1)..n : e \in copied \/ (position = 0 /\ e \notin present)
  /\ position' = n
  /\ UNCHANGED <<recorded, present, begun, copied>>

Next ==
  \/ Record \/ Begin
  \/ \E n \in present : LetGo(n)
  \/ \E events \in SUBSET (1..recorded) : Copy(events)
  \/ \E n \in 1..recorded : MoveTo(n)

Spec == Init /\ [][Next]_avars
=============================================================================
