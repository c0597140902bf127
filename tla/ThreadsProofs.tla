---------------------------- MODULE ThreadsProofs ----------------------------
(***************************************************************************)
(* ThreadsInv is inductive: each step of a request keeps it.  From it, an  *)
(* opened conversation stays its opener's, and a turn that was carried     *)
(* through is in the index, for any number of conversations, customers and *)
(* requests.                                                               *)
(***************************************************************************)
EXTENDS Threads, TLAPS

\* What record_turn writes is a record that counts at least one turn, and is the turn's
\* customer's if the record it read was.
LEMMA BumpedRecord ==
  ASSUME TypeOK, NEW r \in Requests, customer[r] \in Customers
  PROVE  /\ bumped(r) \in Record
         /\ bumped(r).turns > 0
         /\ bumped(r) # None
         /\ bumped(r).owner = IF seen[r] = None THEN customer[r] ELSE seen[r].owner
<1>1. CASE seen[r] = None
  BY <1>1, ThreadsAssumption DEF bumped, Record
<1>2. CASE seen[r] # None
  <2>1. seen[r] \in Record
    BY <1>2 DEF TypeOK
  <2>. DEFINE title == IF seen[r].title = None THEN r ELSE seen[r].title
  <2>2. bumped(r) = [seen[r] EXCEPT !.title = title, !.turns = seen[r].turns + 1]
    BY <1>2 DEF bumped
  <2>3. title \in Requests \cup {None} /\ seen[r].turns + 1 \in Nat
    BY <2>1 DEF Record
  <2>. HIDE DEF title
  <2>4. bumped(r) \in Record
    BY <2>1, <2>2, <2>3 DEF Record
  <2>5. bumped(r).turns = seen[r].turns + 1 /\ bumped(r).owner = seen[r].owner
    BY <2>1, <2>2 DEF Record
  <2>6. bumped(r).turns > 0
    BY <2>1, <2>5 DEF Record
  <2>. QED
    BY <1>2, <2>4, <2>5, <2>6, ThreadsAssumption
<1>. QED
  BY <1>1, <1>2

\* Nothing is opened, spoken or requested at the start.
LEMMA ThreadsInit == Init => ThreadsInv
BY DEF Init, ThreadsInv, TypeOK, Served, Mine, Listed, OpenedIsKept, CompletedIsListed, kept,
       Pcs, Record

\* A fresh conversation: nobody has a request on it, so nobody has spoken in it.
LEMMA StartThreadKeeps ==
  ASSUME ThreadsInv, NEW r \in Requests, NEW c \in Customers, NEW t \in Conversations,
         StartThread(r, c, t)
  PROVE  ThreadsInv'
<1>. USE DEF ThreadsInv
<1>. DEFINE fresh == [owner |-> c, title |-> None, turns |-> 0]
<1>0. /\ pc[r] = "new" /\ \A q \in Requests : on[q] # t
      /\ pc' = [pc EXCEPT ![r] = "done"]
      /\ customer' = [customer EXCEPT ![r] = c]
      /\ on' = [on EXCEPT ![r] = t]
      /\ streams' = [streams EXCEPT ![r] = FALSE]
      /\ index' = [index EXCEPT ![t] = fresh]
      /\ opener' = [opener EXCEPT ![t] = c]
      /\ UNCHANGED <<spoken, completed, deleted, seen>>
  BY DEF StartThread, Arriving, Serve, Goto
<1>1. fresh \in Record /\ fresh # None /\ fresh.owner = c /\ fresh.turns = 0 /\ c # None
  BY ThreadsAssumption DEF Record
<1>. HIDE DEF fresh
<1>2. TypeOK'
  BY <1>0, <1>1 DEF TypeOK, Pcs
<1>3. Served'
  BY <1>0, <1>1, ThreadsAssumption DEF Served, TypeOK
<1>4. spoken[t] = {}
  BY <1>0 DEF Served, TypeOK
<1>5. Mine'
  BY <1>0, <1>1 DEF Mine, Served, TypeOK, kept
<1>6. OpenedIsKept'
  BY <1>0, <1>1, <1>4 DEF OpenedIsKept, TypeOK, kept
<1>7. Listed'
  BY <1>0, <1>1 DEF Listed, Served, TypeOK, has_turns
<1>8. CompletedIsListed'
  BY <1>0, <1>1 DEF CompletedIsListed, Served, TypeOK, has_turns
<1>. QED
  BY <1>2, <1>3, <1>5, <1>6, <1>7, <1>8

\* A request that is taken up on a conversation its customer may speak in or see, and
\* changes nothing yet.
LEMMA TakenUpKeeps ==
  ASSUME ThreadsInv, NEW r \in Requests, NEW c \in Customers, NEW t \in Conversations,
         NEW label \in {"run", "read", "forget"}, NEW stream \in BOOLEAN,
         label = "run" => stream,
         pc[r] = "new", may_speak(c, t), Serve(r, c, t, stream), Goto(r, label),
         UNCHANGED <<index, spoken, history, seen>>
  PROVE  ThreadsInv'
<1>. USE DEF ThreadsInv
<1>0. /\ pc' = [pc EXCEPT ![r] = label]
      /\ customer' = [customer EXCEPT ![r] = c]
      /\ on' = [on EXCEPT ![r] = t]
      /\ streams' = [streams EXCEPT ![r] = stream]
      /\ UNCHANGED <<index, spoken, completed, opener, deleted, seen>>
  BY DEF Serve, Goto, history
<1>1. TypeOK'
  BY <1>0 DEF TypeOK, Pcs
<1>2. Served'
  BY <1>0, ThreadsAssumption DEF Served, TypeOK
<1>3. Mine'
  BY <1>0 DEF Mine, OpenedIsKept, may_speak, TypeOK, kept
<1>4. OpenedIsKept'
  BY <1>0 DEF OpenedIsKept, kept
<1>5. Listed'
  BY <1>0 DEF Listed, TypeOK, has_turns
<1>6. CompletedIsListed'
  BY <1>0 DEF CompletedIsListed, Served, TypeOK, has_turns
<1>. QED
  BY <1>1, <1>2, <1>3, <1>4, <1>5, <1>6

\* The turn's customer joins those who spoke; a buffered turn was counted before.
LEMMA RunTurnKeeps ==
  ASSUME ThreadsInv, NEW r \in Requests, RunTurn(r)
  PROVE  ThreadsInv'
<1>. USE DEF ThreadsInv
<1>0. /\ pc[r] = "run" /\ on[r] \in Conversations /\ customer[r] \in Customers
      /\ spoken' = [spoken EXCEPT ![on[r]] = @ \cup {customer[r]}]
      /\ pc' = [pc EXCEPT ![r] = IF streams[r] THEN "read" ELSE "done"]
      /\ completed' = IF streams[r] THEN completed ELSE completed \cup {r}
      /\ UNCHANGED <<index, opener, deleted, customer, on, streams, seen>>
  BY DEF RunTurn, Goto, request, Served
<1>1. TypeOK'
  BY <1>0 DEF TypeOK, Pcs
<1>2. Served'
  BY <1>0 DEF Served, TypeOK
<1>3. Mine'
  BY <1>0 DEF Mine, TypeOK, kept
<1>4. OpenedIsKept'
  BY <1>0 DEF OpenedIsKept, Mine, TypeOK, kept
<1>5. Listed'
  BY <1>0 DEF Listed, TypeOK, has_turns
<1>6. CompletedIsListed'
  BY <1>0 DEF CompletedIsListed, Listed, TypeOK, has_turns
<1>. QED
  BY <1>1, <1>2, <1>3, <1>4, <1>5, <1>6

\* Another's record is one somebody has spoken in: had it only been opened, the request
\* would have been refused.
LEMMA ReadRecordKeeps ==
  ASSUME ThreadsInv, NEW r \in Requests, ReadRecord(r)
  PROVE  ThreadsInv'
<1>. USE DEF ThreadsInv
<1>0. /\ pc[r] = "read" /\ on[r] \in Conversations /\ customer[r] \in Customers
      /\ seen' = [seen EXCEPT ![r] = index[on[r]]]
      /\ pc' = [pc EXCEPT ![r] = "write"]
      /\ UNCHANGED <<index, spoken, completed, opener, deleted, customer, on, streams>>
  BY DEF ReadRecord, Goto, request, history, Served
<1>1. TypeOK'
  BY <1>0 DEF TypeOK, Pcs
<1>2. Served'
  BY <1>0 DEF Served, TypeOK
<1>3. Mine'
  BY <1>0 DEF Mine, OpenedIsKept, TypeOK, kept
<1>4. OpenedIsKept'
  BY <1>0 DEF OpenedIsKept, kept
<1>5. on[r] \notin deleted /\ index[on[r]] # None /\ index[on[r]].owner # customer[r]
        => has_turns(on[r])
  BY <1>0 DEF Listed, Mine, OpenedIsKept, kept
<1>6. Listed'
  BY <1>0, <1>5 DEF Listed, TypeOK, has_turns
<1>7. CompletedIsListed'
  BY <1>0 DEF CompletedIsListed, TypeOK, has_turns
<1>. QED
  BY <1>1, <1>2, <1>3, <1>4, <1>6, <1>7

\* What is written counts a turn, and on an opened conversation names its opener.
LEMMA WriteRecordKeeps ==
  ASSUME ThreadsInv, NEW r \in Requests, WriteRecord(r)
  PROVE  ThreadsInv'
<1>. USE DEF ThreadsInv
<1>. DEFINE t == on[r]
            refused == seen[r] # None /\ seen[r].owner # customer[r]
<1>0. /\ pc[r] = "write" /\ t \in Conversations /\ customer[r] \in Customers
      /\ index' = IF refused THEN index ELSE [index EXCEPT ![t] = bumped(r)]
      /\ pc' = [pc EXCEPT ![r] = IF streams[r] THEN "done" ELSE "run"]
      /\ completed' = IF streams[r] THEN completed \cup {r} ELSE completed
      /\ UNCHANGED <<spoken, opener, deleted, customer, on, streams, seen>>
  BY DEF WriteRecord, Goto, request, Served
<1>1. /\ bumped(r) \in Record /\ bumped(r) # None /\ bumped(r).turns > 0
      /\ bumped(r).owner = IF seen[r] = None THEN customer[r] ELSE seen[r].owner
  BY <1>0, BumpedRecord
<1>2. t \notin deleted => index'[t] # None /\ index'[t].turns > 0
  <2>1. CASE refused
    BY <1>0, <2>1 DEF Listed, has_turns
  <2>2. CASE ~refused
    BY <1>0, <1>1, <2>2 DEF TypeOK, has_turns
  <2>. QED
    BY <2>1, <2>2
<1>3. \A u \in Conversations \ {t} : index'[u] = index[u]
  BY <1>0 DEF TypeOK
<1>4. TypeOK'
  BY <1>0, <1>1 DEF TypeOK, Pcs
<1>5. Served'
  BY <1>0 DEF Served, TypeOK
<1>6. Mine'
  BY <1>0 DEF Mine, TypeOK, kept
<1>7. OpenedIsKept'
  <2>1. kept(t) => index'[t] # None /\ index'[t].owner = opener[t]
    BY <1>0, <1>1 DEF Mine, OpenedIsKept, TypeOK
  <2>. QED
    BY <1>0, <1>3, <2>1 DEF OpenedIsKept, kept
<1>8. \A u \in Conversations \ deleted :
        has_turns(u) \/ u = t => index'[u] # None /\ index'[u].turns > 0
  BY <1>2, <1>3 DEF has_turns
<1>9. Listed'
  <2>1. \A u \in Conversations \ deleted :
           index'[u] # None /\ ~(index'[u] # None /\ index'[u].turns > 0) => opener[u] # None
    BY <1>3, <1>8 DEF Listed, has_turns
  <2>2. \A q \in Requests \ {r} : pc'[q] = pc[q]
    BY <1>0 DEF TypeOK
  <2>3. ASSUME NEW q \in Requests, pc'[q] # "new", on[q] \notin deleted,
               \/ pc'[q] = "run" /\ ~streams[q]
               \/ pc'[q] = "write" /\ seen[q] # None /\ seen[q].owner # customer[q]
        PROVE  index'[on[q]] # None /\ index'[on[q]].turns > 0
    <3>1. CASE q = r
      BY <1>0, <1>2, <2>3, <3>1
    <3>2. CASE q # r
      BY <1>8, <2>2, <2>3, <3>2 DEF Listed, Served
    <3>. QED
      BY <3>1, <3>2
  <2>. QED
    BY <1>0, <2>1, <2>3 DEF Listed, has_turns
<1>10. CompletedIsListed'
  <2>1. \A q \in completed : on[q] \notin deleted => index'[on[q]] # None /\ index'[on[q]].turns > 0
    BY <1>8 DEF CompletedIsListed, Served
  <2>. QED
    BY <1>0, <1>2, <2>1 DEF CompletedIsListed, has_turns
<1>. QED
  BY <1>4, <1>5, <1>6, <1>7, <1>9, <1>10

\* A deleted conversation is outside what the properties speak of.
LEMMA ForgetKeeps ==
  ASSUME ThreadsInv, NEW r \in Requests, Forget(r)
  PROVE  ThreadsInv'
<1>. USE DEF ThreadsInv
<1>0. /\ pc[r] = "forget" /\ on[r] \in Conversations
      /\ index' = [index EXCEPT ![on[r]] = None]
      /\ deleted' = deleted \cup {on[r]}
      /\ pc' = [pc EXCEPT ![r] = "done"]
      /\ UNCHANGED <<spoken, completed, opener, customer, on, streams, seen>>
  BY DEF Forget, Goto, request, Served
<1>1. TypeOK'
  BY <1>0 DEF TypeOK, Pcs
<1>2. Served'
  BY <1>0 DEF Served, TypeOK
<1>3. Mine'
  BY <1>0 DEF Mine, TypeOK, kept
<1>4. OpenedIsKept'
  BY <1>0 DEF OpenedIsKept, TypeOK, kept
<1>5. Listed'
  BY <1>0 DEF Listed, Served, TypeOK, has_turns
<1>6. CompletedIsListed'
  BY <1>0 DEF CompletedIsListed, Served, TypeOK, has_turns
<1>. QED
  BY <1>1, <1>2, <1>3, <1>4, <1>5, <1>6

\* A dropped request does nothing more.
LEMMA DropKeeps ==
  ASSUME ThreadsInv, NEW r \in Requests, Drop(r)
  PROVE  ThreadsInv'
<1>. USE DEF ThreadsInv
<1>0. /\ pc[r] \notin {"new", "done"}
      /\ pc' = [pc EXCEPT ![r] = "done"]
      /\ UNCHANGED <<index, spoken, completed, opener, deleted, customer, on, streams, seen>>
  BY DEF Drop, Goto, request, history
<1>1. TypeOK'
  BY <1>0 DEF TypeOK, Pcs
<1>2. Served'
  BY <1>0 DEF Served, TypeOK
<1>3. Mine'
  BY <1>0 DEF Mine, TypeOK, kept
<1>4. OpenedIsKept'
  BY <1>0 DEF OpenedIsKept, kept
<1>5. Listed'
  BY <1>0 DEF Listed, TypeOK, has_turns
<1>6. CompletedIsListed'
  BY <1>0 DEF CompletedIsListed, has_turns
<1>. QED
  BY <1>1, <1>2, <1>3, <1>4, <1>5, <1>6

\* Every step of every request keeps the invariant.
LEMMA ThreadsNext == ThreadsInv /\ [Next]_vars => ThreadsInv'
<1>. SUFFICES ASSUME ThreadsInv, [Next]_vars PROVE ThreadsInv'
  OBVIOUS
<1>1. CASE UNCHANGED vars
  BY <1>1 DEF vars, ThreadsInv, TypeOK, Served, Mine, Listed, OpenedIsKept, CompletedIsListed,
              kept, has_turns
<1>2. CASE Next
  <2>. PICK r \in Requests :
         \/ \E c \in Customers, t \in Conversations :
              \/ StartThread(r, c, t)
              \/ StreamTurn(r, c, t)
              \/ SubmitTurn(r, c, t)
              \/ DeleteThread(r, c, t)
         \/ RunTurn(r) \/ ReadRecord(r) \/ WriteRecord(r) \/ Forget(r) \/ Drop(r)
    BY <1>2 DEF Next
  <2>1. ASSUME NEW c \in Customers, NEW t \in Conversations, StartThread(r, c, t)
        PROVE  ThreadsInv'
    BY <2>1, StartThreadKeeps
  <2>2. ASSUME NEW c \in Customers, NEW t \in Conversations, StreamTurn(r, c, t)
        PROVE  ThreadsInv'
    BY <2>2, TakenUpKeeps DEF StreamTurn, Arriving
  <2>3. ASSUME NEW c \in Customers, NEW t \in Conversations, SubmitTurn(r, c, t)
        PROVE  ThreadsInv'
    BY <2>3, TakenUpKeeps DEF SubmitTurn, Arriving
  <2>4. ASSUME NEW c \in Customers, NEW t \in Conversations, DeleteThread(r, c, t)
        PROVE  ThreadsInv'
    <3>1. may_speak(c, t)
      BY <2>4 DEF DeleteThread, visible_to, may_speak
    <3>. QED
      BY <2>4, <3>1, TakenUpKeeps DEF DeleteThread, Arriving
  <2>. QED
    BY <2>1, <2>2, <2>3, <2>4, RunTurnKeeps, ReadRecordKeeps, WriteRecordKeeps, ForgetKeeps,
       DropKeeps
<1>. QED
  BY <1>1, <1>2

\* Who speaks in an opened conversation and what the index has of each, at every await.
THEOREM ThreadsInductive == Spec => []ThreadsInv
BY ThreadsInit, ThreadsNext, PTL DEF Spec

\* An opened conversation stays its opener's until it is deleted, and only its opener's
\* turns run over its checkpoint (_refuse_someone_elses_thread, record_turn).
THEOREM Kept == Spec => []OpenedIsKept
<1>1. ThreadsInv => OpenedIsKept
  BY DEF ThreadsInv
<1>. QED
  BY <1>1, ThreadsInductive, PTL

\* A turn that was carried through is in its customer's sidebar until the conversation is
\* deleted, whatever counts concurrent turns lose (record_turn).
THEOREM Listing == Spec => []CompletedIsListed
<1>1. ThreadsInv => CompletedIsListed
  BY DEF ThreadsInv
<1>. QED
  BY <1>1, ThreadsInductive, PTL
=============================================================================
