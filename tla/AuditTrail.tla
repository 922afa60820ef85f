----------------------------- MODULE AuditTrail -----------------------------
(***************************************************************************)
(* What the audit log promises (README, "Every login, data load, ...       *)
(* is written to an append-only log"): events under rising numbers.  A     *)
(* unit of work appends the events it recorded, all of them or none, after *)
(* everything that is already there; nothing is lost, moved or rewritten.  *)
(***************************************************************************)
EXTENDS Naturals

VARIABLE trail   \* the entries [at, event] of the log

Init == trail = {}

Append ==
  /\ trail \subseteq trail' /\ trail' # trail
  /\ \A new \in trail' \ trail : \A old \in trail : old.at < new.at
  /\ \A p, q \in trail' : p.at = q.at => p = q

Next == Append

Spec == Init /\ [][Next]_trail
=============================================================================
