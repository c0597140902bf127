--------------------------- MODULE PlaneInductive ---------------------------
(***************************************************************************)
(* The inductive invariant behind the promise of ControlPlane: what is     *)
(* true of every copy of an intent, of every point inside a call, and of   *)
(* the ledger and the bank's book, however many workers race.              *)
(***************************************************************************)
EXTENDS ControlPlane

\* A worker inside a call has an intent and an object of it; one that may confirm has a
\* caller and a token.
Held ==
  \A w \in Workers :
    /\ it[w] # None => cur[w] \in Intents
    /\ pc[w] \notin {"idle", "sweep"} => it[w] # None
    /\ dirty[w] => it[w] # None
    /\ pc[w] = "confirmed" =>
         /\ caller[w] \in Conversations
         /\ it[w].issued \in Times /\ it[w].confirmed \in Times

\* A copy of intent i, saved or held: its principal is the one that opened the trail, and
\* a seal on it was put there by an offer of the sealed action at the time it says.
Genuine(i, row) ==
  /\ row.conv = opened[i]
  /\ row.digest # None =>
       /\ row.issued \in 0 .. clock
       /\ [action |-> row.digest.action, at |-> row.issued] \in offers[i]

Copies ==
  /\ \A i \in Intents : store[i] # None => Genuine(i, store[i])
  /\ \A w \in Workers : it[w] # None => Genuine(cur[w], it[w])
  /\ \A w \in Workers : \A s \in stranded[w] : Genuine(s[1], s[2])

Timely(issued, at) == at - issued \in 0 .. TTL

Offered(i, action, at) == [action |-> action, at |-> at] \in offers[i]

\* What a worker that got to a point of propose, step_up, confirm or _execute knows.
Stage(w) ==
  /\ pc[w] = "proposed" => it[w].assurance = "medium"
  /\ pc[w] = "decide" /\ it[w].assurance = "strong" => "step_up" \in logged[cur[w]]
  /\ pc[w] = "confirmed" =>
       /\ caller[w] = opened[cur[w]]
       /\ Timely(it[w].issued, it[w].confirmed)
       /\ Offered(cur[w], it[w].action, it[w].issued)
  /\ pc[w] \in {"authorized", "submitted", "debited"} =>
       /\ it[w].action \in actions_of(consents[cur[w]])
       /\ "confirmation" \in logged[cur[w]]
  /\ pc[w] \in {"submitted", "debited"} =>
       /\ "authorization" \in logged[cur[w]]
       /\ <<"AUTHORIZED", "submit", "SUBMITTED">> \in hops[cur[w]]
  /\ pc[w] = "debited" => "execution_request" \in logged[cur[w]]

Stages == \A w \in Workers : Stage(w)

\* Offers are within the limits, consents are to offers, payments are of consents.
Chain ==
  \A i \in Intents :
    /\ \A o \in offers[i] :
         /\ o.action.amount <= HARD_LIMIT
         /\ o.action.amount > STEP_UP_ABOVE => "step_up" \in logged[i]
    /\ \A c \in consents[i] :
         /\ c.by = opened[i]
         /\ Timely(c.issued, c.at)
         /\ Offered(i, c.action, c.issued)
    /\ paid(i) => payments[i].action \in actions_of(consents[i])

\* Every conjunct of the inductive invariant at once: the consent, the seal and the
\* evidence that PaidByConsent, LargePaymentsAuthenticated and EvidenceBeforeMoney rest on.
IInv == TypeOK /\ Held /\ Copies /\ Stages /\ Chain /\ EvidenceBeforeMoney
=============================================================================
