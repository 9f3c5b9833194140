------------------------ MODULE SignedInvoice_proofs ------------------------
(***************************************************************************)
(* What SignedInvoice keeps for any number of documents, change orders,    *)
(* jobs, payments and requests.  First, with requests that overlap, the    *)
(* two facts every reader of an invoice group relies on; then, with one    *)
(* request at a time, what its money, its jobs and their figures follow.   *)
(***************************************************************************)
EXTENDS SignedInvoice, TLAPS

\* A free id has no history, and a revision is of its own draft.
Histories ==
  /\ \A d \in Docs : ~Issued(d) => signed[d] = "no"
  /\ \A d, e \in Docs : d \in chain[e] => Issued(d) /\ draftOf[d] = draftOf[e]

\* A document joins an invoice exactly when its draft was raised on one.
ByDraft ==
  /\ \A d \in Docs : Issued(d) => (joins[d] # NoDoc <=> under[draftOf[d]] # NoDoc)
  /\ \A d \in Docs : ~Issued(d) => joins[d] = NoDoc
  /\ \A d \in Docs : joins[d] # NoDoc => Issued(joins[d])
  /\ \A k \in Drafts : under[k] # NoDoc => Issued(under[k]) /\ joins[under[k]] = NoDoc

IInv == TypeOK /\ Histories /\ ByDraft /\ OneLevelDeep /\ OneLiveInvoice

LEMMA IdleTyped == Idle \in Requests
  BY DEF Idle, Requests, Operations

LEMMA StartTyped ==
  ASSUME TypeOK, NEW w \in Workers, NEW op \in Operations, NEW d \in Docs \cup {NoDoc},
         NEW j \in Jobs \cup {NoJob}, NEW saw \in [Docs -> Int], Starts(w, op, d, j, saw)
  PROVE  request' \in [Workers -> Requests]
  BY DEF TypeOK, Starts, Requests

LEMMA DoneTyped ==
  ASSUME TypeOK, NEW w \in Workers, Done(w) PROVE request' \in [Workers -> Requests]
  BY IdleTyped DEF TypeOK, Done

LEMMA RequestTyped ==
  ASSUME TypeOK, NEW w \in Workers
  PROVE  /\ request[w].op \in Operations /\ request[w].doc \in Docs \cup {NoDoc}
         /\ request[w].job \in Jobs \cup {NoJob} /\ request[w].saw \in [Docs -> Int]
  BY DEF TypeOK, Requests

LEMMA FigureTyped ==
  ASSUME NEW f \in [Docs -> Int], NEW d \in Docs \cup {NoDoc}
  PROVE  /\ [f EXCEPT ![d] = @ + 1] \in [Docs -> Int] /\ [f EXCEPT ![d] = @ - 1] \in [Docs -> Int]
         /\ [f EXCEPT ![d] = 1] \in [Docs -> Int]
  <1>1. [f EXCEPT ![d] = @ + 1] \in [Docs -> Int]
    <2> DEFINE g == [f EXCEPT ![d] = @ + 1]
    <2>1. \A x \in Docs : g[x] \in Int
          OBVIOUS
    <2>2. g = [x \in Docs |-> g[x]]
          OBVIOUS
    <2> QED BY <2>1, <2>2
  <1>2. [f EXCEPT ![d] = @ - 1] \in [Docs -> Int]
    <2> DEFINE g == [f EXCEPT ![d] = @ - 1]
    <2>1. \A x \in Docs : g[x] \in Int
          OBVIOUS
    <2>2. g = [x \in Docs |-> g[x]]
          OBVIOUS
    <2> QED BY <2>1, <2>2
  <1>3. [f EXCEPT ![d] = 1] \in [Docs -> Int]
    <2> DEFINE g == [f EXCEPT ![d] = 1]
    <2>1. \A x \in Docs : g[x] \in Int
          OBVIOUS
    <2>2. g = [x \in Docs |-> g[x]]
          OBVIOUS
    <2> QED BY <2>1, <2>2
  <1> QED BY <1>1, <1>2, <1>3

LEMMA InitIInv == Init => IInv
  <1> SUFFICES ASSUME Init PROVE IInv
      OBVIOUS
  <1>1. TypeOK BY IdleTyped DEF Init, TypeOK
  <1>2. Histories /\ ByDraft /\ OneLevelDeep /\ OneLiveInvoice
        BY NamesAssumption DEF Init, Histories, ByDraft, OneLevelDeep, OneLiveInvoice, Issued, Live
  <1> QED BY <1>1, <1>2 DEF IInv

LEMMA IssueIInv ==
  ASSUME IInv, NEW k \in Drafts, NEW d \in Docs, Issue(k, d) PROVE IInv'
  <1> USE NamesAssumption DEF IInv, Issued, Live, documents, agreement, work, payments, Issue, NewDocument, Joins, RootOf, Superseded
  <1>1. TypeOK'          BY DEF TypeOK
  <1>2. Histories'       BY DEF TypeOK, Histories
  <1>3. ByDraft'         BY DEF TypeOK, ByDraft, Histories, OneLevelDeep
  <1>4. OneLevelDeep'    BY DEF TypeOK, OneLevelDeep, ByDraft, Histories
  <1>5. OneLiveInvoice'  BY DEF TypeOK, OneLiveInvoice, Histories
  <1> QED BY <1>1, <1>2, <1>3, <1>4, <1>5

LEMMA ReviseIInv ==
  ASSUME IInv, NEW d \in Docs, NEW e \in Docs, Revise(e, d) PROVE IInv'
  <1> USE NamesAssumption DEF IInv, Issued, Live, documents, agreement, work, payments, Revise, NewDocument, Joins, RootOf, Superseded
  <1>1. TypeOK'          BY DEF TypeOK
  <1>2. Histories'       BY DEF TypeOK, Histories
  <1>3. ByDraft'         BY DEF TypeOK, ByDraft, Histories, OneLevelDeep
  <1>4. OneLevelDeep'    BY DEF TypeOK, OneLevelDeep, ByDraft, Histories
  <1>5. OneLiveInvoice'  BY DEF TypeOK, OneLiveInvoice, Histories
  <1> QED BY <1>1, <1>2, <1>3, <1>4, <1>5

LEMMA RaiseIInv ==
  ASSUME IInv, NEW k \in Drafts, NEW d \in Docs, RaiseChangeOrder(d, k) PROVE IInv'
  <1> USE NamesAssumption DEF IInv, Issued, Live, documents, agreement, work, payments, RaiseChangeOrder, RootOf
  <1>1. TypeOK'          BY DEF TypeOK
  <1>2. Histories'       BY DEF TypeOK, Histories
  <1>3. ByDraft'         BY DEF TypeOK, ByDraft, Histories, OneLevelDeep
  <1>4. OneLevelDeep'    BY DEF TypeOK, OneLevelDeep, ByDraft, Histories
  <1>5. OneLiveInvoice'  BY DEF TypeOK, OneLiveInvoice, Histories
  <1> QED BY <1>1, <1>2, <1>3, <1>4, <1>5

LEMMA TermsIInv ==
  ASSUME IInv, NEW d \in Docs, Terms(d) PROVE IInv'
  <1> USE NamesAssumption DEF IInv, Issued, Live, documents, agreement, work, payments, Terms
  <1>1. TypeOK'          BY DEF TypeOK
  <1>2. Histories'       BY DEF TypeOK, Histories
  <1>3. ByDraft'         BY DEF TypeOK, ByDraft, Histories, OneLevelDeep
  <1>4. OneLevelDeep'    BY DEF TypeOK, OneLevelDeep, ByDraft, Histories
  <1>5. OneLiveInvoice'  BY DEF TypeOK, OneLiveInvoice, Histories
  <1> QED BY <1>1, <1>2, <1>3, <1>4, <1>5

LEMMA SignIInv ==
  ASSUME IInv, NEW d \in Docs, NEW how \in {"customer", "office"}, Sign(d, how) PROVE IInv'
  <1> USE NamesAssumption DEF IInv, Issued, Live, documents, agreement, work, payments, Sign, Taken
  <1>1. TypeOK'          BY DEF TypeOK, PaymentsTaken, FigureTaken, GivesJob, Donors
  <1>2. Histories'       BY DEF TypeOK, Histories
  <1>3. ByDraft'         BY DEF TypeOK, ByDraft, Histories, OneLevelDeep
  <1>4. OneLevelDeep'    BY DEF TypeOK, OneLevelDeep, ByDraft, Histories
  <1>5. ASSUME NEW x \in Docs, NEW y \in Docs, x \in chain'[y], Live(x)', Live(y)' PROVE FALSE
    <2>1. x \in chain[y] /\ x # d
          BY <1>5 DEF Superseded
    <2>2. Live(x)
          BY <1>5, <2>1 DEF TypeOK
    <2>3. CASE y = d
          BY <1>5, <2>1, <2>2, <2>3 DEF TypeOK
    <2>4. CASE y # d
          BY <1>5, <2>1, <2>2, <2>4 DEF TypeOK, OneLiveInvoice
    <2> QED BY <2>3, <2>4
  <1>6. OneLiveInvoice'  BY <1>5 DEF OneLiveInvoice
  <1> QED BY <1>1, <1>2, <1>3, <1>4, <1>6

LEMMA CreateJobReadIInv ==
  ASSUME IInv, NEW d \in Docs, NEW w \in Workers, CreateJobRead(w, d) PROVE IInv'
  <1> USE NamesAssumption DEF IInv, Issued, Live, documents, agreement, work, payments, CreateJobRead
  <1>1. TypeOK'
    <2>1. request' \in [Workers -> Requests]
          BY StartTyped, IdleTyped DEF TypeOK, Operations, Requests, Current, JobLive, Idle
    <2> QED BY <2>1 DEF TypeOK
  <1>2. Histories'       BY DEF TypeOK, Histories
  <1>3. ByDraft'         BY DEF TypeOK, ByDraft, Histories, OneLevelDeep
  <1>4. OneLevelDeep'    BY DEF TypeOK, OneLevelDeep, ByDraft, Histories
  <1>5. OneLiveInvoice'  BY DEF TypeOK, OneLiveInvoice, Histories
  <1> QED BY <1>1, <1>2, <1>3, <1>4, <1>5

LEMMA JoinJobIInv ==
  ASSUME IInv, NEW w \in Workers, JoinJob(w) PROVE IInv'
  <1> USE NamesAssumption DEF IInv, Issued, Live, documents, agreement, work, payments, JoinJob, FigureJoined
  <1>1. TypeOK'
    <2>1. request' \in [Workers -> Requests]
          BY DoneTyped
    <2>2. /\ request[w].doc \in Docs \cup {NoDoc} /\ request[w].job \in Jobs \cup {NoJob}
          /\ request[w].saw \in [Docs -> Int]
          BY RequestTyped
    <2>3. FigureJoined(w) \in [Docs -> Int]
          BY <2>2, FigureTyped
    <2>4. figure' \in [Jobs -> [Docs -> Int]]
          BY <2>3 DEF TypeOK
    <2> QED BY <2>1, <2>2, <2>4 DEF TypeOK
  <1>2. Histories'       BY DEF TypeOK, Histories
  <1>3. ByDraft'         BY DEF TypeOK, ByDraft, Histories, OneLevelDeep
  <1>4. OneLevelDeep'    BY DEF TypeOK, OneLevelDeep, ByDraft, Histories
  <1>5. OneLiveInvoice'  BY DEF TypeOK, OneLiveInvoice, Histories
  <1> QED BY <1>1, <1>2, <1>3, <1>4, <1>5

LEMMA MintJobIInv ==
  ASSUME IInv, NEW w \in Workers, NEW j \in Jobs, MintJob(w, j) PROVE IInv'
  <1> USE NamesAssumption DEF IInv, Issued, Live, documents, agreement, work, payments, MintJob
  <1>1. TypeOK'
    <2>1. request' \in [Workers -> Requests]
          BY DoneTyped
    <2>2. /\ request[w].doc \in Docs \cup {NoDoc} /\ request[w].job \in Jobs \cup {NoJob}
          /\ request[w].saw \in [Docs -> Int]
          BY RequestTyped
    <2>3. [Idle.saw EXCEPT ![request[w].doc] = 1] \in [Docs -> Int]
          BY <2>2, IdleTyped, FigureTyped DEF Requests
    <2>4. figure' \in [Jobs -> [Docs -> Int]]
          BY <2>3 DEF TypeOK
    <2> QED BY <2>1, <2>2, <2>4 DEF TypeOK
  <1>2. Histories'       BY DEF TypeOK, Histories
  <1>3. ByDraft'         BY DEF TypeOK, ByDraft, Histories, OneLevelDeep
  <1>4. OneLevelDeep'    BY DEF TypeOK, OneLevelDeep, ByDraft, Histories
  <1>5. OneLiveInvoice'  BY DEF TypeOK, OneLiveInvoice, Histories
  <1> QED BY <1>1, <1>2, <1>3, <1>4, <1>5

LEMMA EndJobIInv ==
  ASSUME IInv, NEW j \in Jobs, EndJob(j) PROVE IInv'
  <1> USE NamesAssumption DEF IInv, Issued, Live, documents, agreement, work, payments, EndJob
  <1>1. TypeOK'          BY DEF TypeOK
  <1>2. Histories'       BY DEF TypeOK, Histories
  <1>3. ByDraft'         BY DEF TypeOK, ByDraft, Histories, OneLevelDeep
  <1>4. OneLevelDeep'    BY DEF TypeOK, OneLevelDeep, ByDraft, Histories
  <1>5. OneLiveInvoice'  BY DEF TypeOK, OneLiveInvoice, Histories
  <1> QED BY <1>1, <1>2, <1>3, <1>4, <1>5

LEMMA VoidReadIInv ==
  ASSUME IInv, NEW d \in Docs, NEW w \in Workers, VoidRead(w, d) PROVE IInv'
  <1> USE NamesAssumption DEF IInv, Issued, Live, documents, agreement, work, payments, VoidRead
  <1>1. TypeOK'
    <2>1. request' \in [Workers -> Requests]
          BY StartTyped, IdleTyped DEF TypeOK, Operations, Requests, Cancels, Idle
    <2> QED BY <2>1 DEF TypeOK
  <1>2. Histories'       BY DEF TypeOK, Histories
  <1>3. ByDraft'         BY DEF TypeOK, ByDraft, Histories, OneLevelDeep
  <1>4. OneLevelDeep'    BY DEF TypeOK, OneLevelDeep, ByDraft, Histories
  <1>5. OneLiveInvoice'  BY DEF TypeOK, OneLiveInvoice, Histories
  <1> QED BY <1>1, <1>2, <1>3, <1>4, <1>5

LEMMA VoidCancelsJobIInv ==
  ASSUME IInv, NEW w \in Workers, VoidCancelsJob(w) PROVE IInv'
  <1> USE NamesAssumption DEF IInv, Issued, Live, documents, agreement, work, payments, VoidCancelsJob
  <1>1. TypeOK'
    <2>1. request' \in [Workers -> Requests]
          BY DEF TypeOK, Requests
    <2> QED BY <2>1 DEF TypeOK
  <1>2. Histories'       BY DEF TypeOK, Histories
  <1>3. ByDraft'         BY DEF TypeOK, ByDraft, Histories, OneLevelDeep
  <1>4. OneLevelDeep'    BY DEF TypeOK, OneLevelDeep, ByDraft, Histories
  <1>5. OneLiveInvoice'  BY DEF TypeOK, OneLiveInvoice, Histories
  <1> QED BY <1>1, <1>2, <1>3, <1>4, <1>5

LEMMA VoidWriteIInv ==
  ASSUME IInv, NEW w \in Workers, VoidWrite(w) PROVE IInv'
  <1> USE NamesAssumption DEF IInv, Issued, Live, documents, agreement, work, payments, VoidWrite
  <1>1. TypeOK'
    <2>1. request' \in [Workers -> Requests]
          BY DoneTyped
    <2>2. /\ request[w].doc \in Docs \cup {NoDoc} /\ request[w].job \in Jobs \cup {NoJob}
          /\ request[w].saw \in [Docs -> Int]
          BY RequestTyped
    <2> QED BY <2>1, <2>2 DEF TypeOK
  <1>2. Histories'       BY DEF TypeOK, Histories
  <1>3. ByDraft'         BY DEF TypeOK, ByDraft, Histories, OneLevelDeep
  <1>4. OneLevelDeep'    BY DEF TypeOK, OneLevelDeep, ByDraft, Histories
  <1>5. OneLiveInvoice'  BY DEF TypeOK, OneLiveInvoice, Histories
  <1> QED BY <1>1, <1>2, <1>3, <1>4, <1>5

LEMMA UndoReadIInv ==
  ASSUME IInv, NEW d \in Docs, NEW w \in Workers, UndoRead(w, d) PROVE IInv'
  <1> USE NamesAssumption DEF IInv, Issued, Live, documents, agreement, work, payments, UndoRead, MayUndo
  <1>1. TypeOK'
    <2>1. request' \in [Workers -> Requests]
          BY StartTyped, IdleTyped DEF TypeOK, Operations, Requests, Idle
    <2> QED BY <2>1 DEF TypeOK
  <1>2. Histories'       BY DEF TypeOK, Histories
  <1>3. ByDraft'         BY DEF TypeOK, ByDraft, Histories, OneLevelDeep
  <1>4. OneLevelDeep'    BY DEF TypeOK, OneLevelDeep, ByDraft, Histories
  <1>5. OneLiveInvoice'  BY DEF TypeOK, OneLiveInvoice, Histories
  <1> QED BY <1>1, <1>2, <1>3, <1>4, <1>5

LEMMA UndoWriteIInv ==
  ASSUME IInv, NEW w \in Workers, UndoWrite(w) PROVE IInv'
  <1> USE NamesAssumption DEF IInv, Issued, Live, documents, agreement, work, payments, UndoWrite
  <1>1. TypeOK'
    <2>1. request' \in [Workers -> Requests]
          BY DoneTyped
    <2>2. /\ request[w].doc \in Docs \cup {NoDoc} /\ request[w].job \in Jobs \cup {NoJob}
          /\ request[w].saw \in [Docs -> Int]
          BY RequestTyped
    <2>3. [request[w].saw EXCEPT ![request[w].doc] = @ - 1] \in [Docs -> Int]
          BY <2>2, FigureTyped
    <2>4. figure' \in [Jobs -> [Docs -> Int]]
          BY <2>3 DEF TypeOK
    <2> QED BY <2>1, <2>2, <2>4 DEF TypeOK
  <1>2. Histories'       BY DEF TypeOK, Histories
  <1>3. ByDraft'         BY DEF TypeOK, ByDraft, Histories, OneLevelDeep
  <1>4. OneLevelDeep'    BY DEF TypeOK, OneLevelDeep, ByDraft, Histories
  <1>5. OneLiveInvoice'  BY DEF TypeOK, OneLiveInvoice, Histories
  <1> QED BY <1>1, <1>2, <1>3, <1>4, <1>5

LEMMA PayReadIInv ==
  ASSUME IInv, NEW d \in Docs, NEW w \in Workers, PayRead(w, d) PROVE IInv'
  <1> USE NamesAssumption DEF IInv, Issued, Live, documents, agreement, work, payments, PayRead
  <1>1. TypeOK'
    <2>1. request' \in [Workers -> Requests]
          BY StartTyped, IdleTyped DEF TypeOK, Operations, Requests, Root, Up, Newer, Idle
    <2> QED BY <2>1 DEF TypeOK
  <1>2. Histories'       BY DEF TypeOK, Histories
  <1>3. ByDraft'         BY DEF TypeOK, ByDraft, Histories, OneLevelDeep
  <1>4. OneLevelDeep'    BY DEF TypeOK, OneLevelDeep, ByDraft, Histories
  <1>5. OneLiveInvoice'  BY DEF TypeOK, OneLiveInvoice, Histories
  <1> QED BY <1>1, <1>2, <1>3, <1>4, <1>5

LEMMA PayWriteIInv ==
  ASSUME IInv, NEW w \in Workers, NEW p \in Payments, PayWrite(w, p) PROVE IInv'
  <1> USE NamesAssumption DEF IInv, Issued, Live, documents, agreement, work, payments, PayWrite
  <1>1. TypeOK'
    <2>1. request' \in [Workers -> Requests]
          BY DoneTyped
    <2>2. /\ request[w].doc \in Docs \cup {NoDoc} /\ request[w].job \in Jobs \cup {NoJob}
          /\ request[w].saw \in [Docs -> Int]
          BY RequestTyped
    <2> QED BY <2>1, <2>2 DEF TypeOK
  <1>2. Histories'       BY DEF TypeOK, Histories
  <1>3. ByDraft'         BY DEF TypeOK, ByDraft, Histories, OneLevelDeep
  <1>4. OneLevelDeep'    BY DEF TypeOK, OneLevelDeep, ByDraft, Histories
  <1>5. OneLiveInvoice'  BY DEF TypeOK, OneLiveInvoice, Histories
  <1> QED BY <1>1, <1>2, <1>3, <1>4, <1>5

LEMMA VoidPaymentIInv ==
  ASSUME IInv, NEW p \in Payments, VoidPayment(p) PROVE IInv'
  <1> USE NamesAssumption DEF IInv, Issued, Live, documents, agreement, work, payments, VoidPayment
  <1>1. TypeOK'          BY DEF TypeOK
  <1>2. Histories'       BY DEF TypeOK, Histories
  <1>3. ByDraft'         BY DEF TypeOK, ByDraft, Histories, OneLevelDeep
  <1>4. OneLevelDeep'    BY DEF TypeOK, OneLevelDeep, ByDraft, Histories
  <1>5. OneLiveInvoice'  BY DEF TypeOK, OneLiveInvoice, Histories
  <1> QED BY <1>1, <1>2, <1>3, <1>4, <1>5

LEMMA CrashIInv ==
  ASSUME IInv, NEW w \in Workers, Crash(w) PROVE IInv'
  <1> USE NamesAssumption DEF IInv, Issued, Live, documents, agreement, work, payments, Crash
  <1>1. TypeOK'
    <2>1. request' \in [Workers -> Requests]
          BY DoneTyped
    <2>2. /\ request[w].doc \in Docs \cup {NoDoc} /\ request[w].job \in Jobs \cup {NoJob}
          /\ request[w].saw \in [Docs -> Int]
          BY RequestTyped
    <2> QED BY <2>1, <2>2 DEF TypeOK
  <1>2. Histories'       BY DEF TypeOK, Histories
  <1>3. ByDraft'         BY DEF TypeOK, ByDraft, Histories, OneLevelDeep
  <1>4. OneLevelDeep'    BY DEF TypeOK, OneLevelDeep, ByDraft, Histories
  <1>5. OneLiveInvoice'  BY DEF TypeOK, OneLiveInvoice, Histories
  <1> QED BY <1>1, <1>2, <1>3, <1>4, <1>5

LEMMA StepIInv == IInv /\ [Next]_vars => IInv'
  <1> SUFFICES ASSUME IInv, [Next]_vars PROVE IInv'
      OBVIOUS
  <1>1. ASSUME NEW k \in Drafts, NEW d \in Docs, Issue(k, d) \/ RaiseChangeOrder(d, k) PROVE IInv'
        BY <1>1, IssueIInv, RaiseIInv
  <1>2. ASSUME NEW d \in Docs, NEW e \in Docs, Revise(e, d) PROVE IInv'
        BY <1>2, ReviseIInv
  <1>3. ASSUME NEW d \in Docs, Terms(d) \/ Sign(d, "customer") \/ Sign(d, "office") PROVE IInv'
        BY <1>3, TermsIInv, SignIInv
  <1>4. ASSUME NEW d \in Docs, NEW w \in Workers,
               CreateJobRead(w, d) \/ VoidRead(w, d) \/ UndoRead(w, d) \/ PayRead(w, d) PROVE IInv'
        BY <1>4, CreateJobReadIInv, VoidReadIInv, UndoReadIInv, PayReadIInv
  <1>5. ASSUME NEW j \in Jobs, EndJob(j) PROVE IInv'
        BY <1>5, EndJobIInv
  <1>6. ASSUME NEW j \in Jobs, NEW w \in Workers, MintJob(w, j) PROVE IInv'
        BY <1>6, MintJobIInv
  <1>7. ASSUME NEW w \in Workers,
               JoinJob(w) \/ VoidCancelsJob(w) \/ VoidWrite(w) \/ UndoWrite(w) \/ Crash(w) PROVE IInv'
        BY <1>7, JoinJobIInv, VoidCancelsJobIInv, VoidWriteIInv, UndoWriteIInv, CrashIInv
  <1>8. ASSUME NEW w \in Workers, NEW p \in Payments, PayWrite(w, p) PROVE IInv'
        BY <1>8, PayWriteIInv
  <1>9. ASSUME NEW p \in Payments, VoidPayment(p) PROVE IInv'
        BY <1>9, VoidPaymentIInv
  <1>10. CASE UNCHANGED vars
        BY <1>10 DEF vars, documents, agreement, work, payments, IInv, TypeOK, Histories, ByDraft,
           OneLevelDeep, OneLiveInvoice, Issued, Live
  <1> QED BY <1>1, <1>2, <1>3, <1>4, <1>5, <1>6, <1>7, <1>8, <1>9, <1>10 DEF Next

LEMMA Invariance == Spec => []IInv
  BY InitIInv, StepIInv, PTL DEF Spec

-----------------------------------------------------------------------------
(* Every variable keeps its type, with requests overlapping.               *)
THEOREM TypeCorrect == Spec => []TypeOK
  <1>1. IInv => TypeOK BY DEF IInv
  <1> QED BY <1>1, Invariance, PTL

(* Of an estimate's revisions one at most is a live agreement: the take-   *)
(* over in the signature's transaction needs no other guard, whatever the  *)
(* void, undo and job requests read before it.                             *)
THEOREM OneInvoice == Spec => []OneLiveInvoice
  <1>1. IInv => OneLiveInvoice BY DEF IInv
  <1> QED BY <1>1, Invariance, PTL

(* What a change order joins is never a change order: the flattening where *)
(* a change order is raised and where its draft is issued, and the take-   *)
(* over, keep money groups one level deep.                                 *)
THEOREM GroupsFlat == Spec => []OneLevelDeep
  <1>1. IInv => OneLevelDeep BY DEF IInv
  <1> QED BY <1>1, Invariance, PTL

-----------------------------------------------------------------------------
(* Money, jobs and figures, when a request is over before the next one     *)
(* starts and no job is created on a void document; a request may still    *)
(* die between its read and its write.                                     *)

OneAtATime == "overlap" \notin Doors /\ "late" \notin Doors

\* Revisions make chains: what an estimate replaced is in order of issue.
Chains ==
  /\ \A d \in Docs : d \notin chain[d]
  /\ \A d, e \in Docs : e \in chain[d] => chain[e] \subseteq chain[d]
  /\ \A d, e, f \in Docs : e \in chain[d] /\ f \in chain[d] => e = f \/ e \in chain[f] \/ f \in chain[e]

\* A document is not live once a newer one has been signed, and one that was
\* taken over has an heir that stays signed.
Retired ==
  /\ \A d, e \in Docs : d \in chain[e] /\ signed[e] # "no" => ~Live(d)
  /\ \A d \in replaced : voided[d] /\ \E e \in heirs : d \in chain[e]
  /\ \A d \in heirs : signed[d] # "no"

\* A change order that left the invoice it was raised on left a void one, and
\* a revision of a change order is on the invoice of the older one, or on a
\* void one.
Moved ==
  /\ \A d \in Docs : joins[d] # NoDoc => under[draftOf[d]] = joins[d] \/ voided[under[draftOf[d]]]
  /\ \A d, e \in Docs : d \in chain[e] /\ joins[d] # NoDoc => joins[e] = joins[d] \/ voided[joins[e]]

\* A document an invoice can be read at: of no invoice, or of a void one.
Apart(d) == Issued(d) /\ (joins[d] = NoDoc \/ voided[joins[d]])

\* Money is on such a document, and on none that was taken over.
Kept == \A p \in Payments : money[p] # "none" => on[p] \in Docs \ replaced /\ Apart(on[p])

To(j) == jobs[j] = "contracted"

Assigned ==
  /\ \A d \in Docs : signed[d] = "no" => jobOf[d] = NoJob
  /\ \A d \in Docs : jobOf[d] # NoJob => jobs[jobOf[d]] # "none"

\* What a request has read is still so.
HoldsJoin(r) == /\ r.op = "join" /\ Live(r.doc) /\ jobOf[r.doc] = NoJob
                /\ r.job \in Jobs /\ To(r.job) /\ r.saw = figure[r.job]
HoldsMint(r) == r.op = "mint" /\ Live(r.doc) /\ jobOf[r.doc] = NoJob
HoldsVoid(r) ==
  /\ r.op = "void" /\ Live(r.doc)
  /\ r.job # NoJob => r.job = jobOf[r.doc] /\ OnJob(r.job) \ {r.doc} = {}
  /\ r.job = NoJob /\ jobOf[r.doc] # NoJob /\ To(jobOf[r.doc]) => OnJob(jobOf[r.doc]) \ {r.doc} # {}
HoldsUndo(r) ==
  /\ r.op = "undo" /\ Live(r.doc) /\ r.doc \notin heirs
  /\ r.job # NoJob => r.job = jobOf[r.doc] /\ OnJob(r.job) \ {r.doc} = {}
  /\ r.job = NoJob => jobOf[r.doc] = NoJob \/ ~To(jobOf[r.doc])
HoldsShare(r) ==
  /\ r.op = "share" /\ Live(r.doc) /\ r.doc \notin heirs
  /\ r.job \in Jobs /\ r.job = jobOf[r.doc] /\ To(r.job)
  /\ OnJob(r.job) \ {r.doc} # {} /\ r.saw = figure[r.job]
HoldsPay(r) == r.op = "pay" /\ r.doc \notin replaced /\ Apart(r.doc)

Holds(r) == r.doc \in Docs /\ (\/ HoldsJoin(r) \/ HoldsMint(r) \/ HoldsVoid(r)
                               \/ HoldsUndo(r) \/ HoldsShare(r) \/ HoldsPay(r))

Reads ==
  /\ \A w \in Workers : request[w] = Idle \/ Holds(request[w])
  /\ \A v, w \in Workers : v = w \/ request[v] = Idle \/ request[w] = Idle

Work == Assigned /\ ContractedFigure /\ JobServesLiveWork
Paper == Chains /\ Retired /\ Moved /\ Kept
Serial == IInv /\ Paper /\ Work /\ Reads

LEMMA InitSerial == Init => Serial
  <1> SUFFICES ASSUME Init PROVE Serial
      OBVIOUS
  <1>1. Paper BY DEF Init, Paper, Chains, Retired, Moved, Kept
  <1>2. Work BY DEF Init, Work, Assigned, ContractedFigure, JobServesLiveWork
  <1>3. Reads BY DEF Init, Reads
  <1> QED BY <1>1, <1>2, <1>3, InitIInv DEF Serial

-----------------------------------------------------------------------------
(* Reading and writing one at a time.                                      *)

\* Between requests, whatever is done leaves none in the air.
LEMMA ReadsIdle ==
  ASSUME \A w \in Workers : request'[w] = Idle
  PROVE  Reads'
  BY DEF Reads

LEMMA QuietIdle ==
  ASSUME OneAtATime, Quiet, request' = request
  PROVE  Reads'
  BY ReadsIdle DEF OneAtATime, Quiet

LEMMA DoneIdle ==
  ASSUME IInv, Reads, NEW w \in Workers, request[w] # Idle, Done(w)
  PROVE  Reads'
  <1>1. \A v \in Workers : request'[v] = Idle
        BY DEF IInv, TypeOK, Done, Reads
  <1> QED BY <1>1, ReadsIdle

\* A request starts: it is the only one, and holds what it read.
LEMMA StartHolds ==
  ASSUME OneAtATime, IInv, NEW w \in Workers, NEW op, NEW d \in Docs, NEW j, NEW saw,
         Free(w), Starts(w, op, d, j, saw),
         UNCHANGED <<documents, agreement, work, payments>>,
         Holds([op |-> op, doc |-> d, job |-> j, saw |-> saw])
  PROVE  Reads'
  <1> DEFINE r == [op |-> op, doc |-> d, job |-> j, saw |-> saw]
  <1>1. \A v \in Workers : v # w => request'[v] = Idle
        BY DEF Free, Quiet, OneAtATime, IInv, TypeOK, Starts
  <1>2. request'[w] = r
        BY DEF IInv, TypeOK, Starts
  <1>3. PICK q : q = r
        OBVIOUS
  <1>4. Holds(q)
        BY <1>3
  <1>5. Holds(q)'
        <2> HIDE DEF r
        <2> QED
            BY <1>4 DEF Holds, HoldsJoin, HoldsMint, HoldsVoid, HoldsUndo, HoldsShare, HoldsPay,
               Live, To, OnJob, Apart, Issued, documents, agreement, work, payments
  <1>6. request'[w] = q
        BY <1>2, <1>3
  <1> QED BY <1>1, <1>5, <1>6 DEF Reads

LEMMA SamePaper ==
  ASSUME Paper, UNCHANGED <<documents, agreement, payments>>
  PROVE  Paper'
  BY DEF Paper, Chains, Retired, Moved, Kept, Live, Apart, Issued, documents, agreement, payments

LEMMA SameWork ==
  ASSUME Work, UNCHANGED <<agreement, work>>
  PROVE  Work'
  BY DEF Work, Assigned, ContractedFigure, JobServesLiveWork, OnJob, Live, agreement, work

-----------------------------------------------------------------------------
(* Documents.                                                              *)

LEMMA NewPaper ==
  ASSUME IInv, Paper, NEW k \in Drafts, NEW d \in Docs, NEW earlier \in SUBSET Docs, NEW add,
         NewDocument(k, d, earlier, add),
         \A e \in earlier : Issued(e) /\ draftOf[e] = k /\ chain[e] \subseteq earlier,
         \A e, f \in earlier : e = f \/ e \in chain[f] \/ f \in chain[e]
  PROVE  Paper'
  <1>1. /\ chain' = [chain EXCEPT ![d] = earlier] /\ joins' = [joins EXCEPT ![d] = Joins(k)]
        /\ draftOf' = [draftOf EXCEPT ![d] = k]
        /\ UNCHANGED <<under, agreement, payments>> /\ ~Issued(d) /\ d \notin earlier
        BY DEF NewDocument, Issued
  <1>2. signed[d] = "no" /\ \A e \in Docs : d \notin chain[e]
        BY <1>1 DEF IInv, Histories
  <1>3. Joins(k) = under[k]
        BY NamesAssumption DEF Joins, RootOf, IInv, ByDraft, TypeOK
  <1> USE DEF IInv, TypeOK, Paper
  <1>4. Chains'
        BY <1>1, <1>2 DEF Chains
  <1>5. Retired'
        BY <1>1, <1>2 DEF Retired, Live, agreement
  <1>6. Moved'
    <2>1. ASSUME NEW x \in Docs, joins'[x] # NoDoc
          PROVE  under'[draftOf'[x]] = joins'[x] \/ voided'[under'[draftOf'[x]]]
          BY <1>1, <1>3, <2>1 DEF Moved, agreement
    <2>2. ASSUME NEW x \in Docs, NEW y \in Docs, x \in chain'[y], joins'[x] # NoDoc
          PROVE  joins'[y] = joins'[x] \/ voided'[joins'[y]]
      <3>1. CASE y = d
        <4>1. x \in earlier /\ x # d /\ draftOf[x] = k /\ joins'[x] = joins[x] /\ joins'[d] = under[k]
              BY <1>1, <1>3, <2>2, <3>1
        <4>2. under[k] = joins[x] \/ voided[under[k]]
              BY <2>2, <4>1 DEF Moved
        <4> QED BY <1>1, <3>1, <4>1, <4>2 DEF agreement
      <3>2. CASE y # d
            BY <1>1, <1>2, <2>2, <3>2 DEF Moved, agreement
      <3> QED BY <3>1, <3>2
    <2> QED BY <2>1, <2>2 DEF Moved
  <1>7. Kept'
        BY <1>1, NamesAssumption DEF Kept, Apart, Issued, agreement, payments
  <1> QED BY <1>4, <1>5, <1>6, <1>7

LEMMA DocumentSerial ==
  ASSUME OneAtATime, Serial, NEW d \in Docs, NEW e \in Docs, NEW k \in Drafts,
         Issue(k, d) \/ Revise(e, d)
  PROVE  Serial'
  <1> USE DEF Serial
  <1>1. PICK c \in Drafts, earlier \in SUBSET Docs, add \in BOOLEAN :
          /\ NewDocument(c, d, earlier, add)
          /\ \A x \in earlier : Issued(x) /\ draftOf[x] = c /\ chain[x] \subseteq earlier
          /\ \A x, y \in earlier : x = y \/ x \in chain[y] \/ y \in chain[x]
    <2>1. CASE Issue(k, d)
      <3>1. PICK add \in BOOLEAN : add = (under[k] # NoDoc /\ JobLive(jobOf[under[k]]))
            OBVIOUS
      <3>2. NewDocument(k, d, {}, add)
            BY <2>1, <3>1 DEF Issue
      <3> QED BY <3>2
    <2>2. CASE Revise(e, d)
      <3>1. chain[e] \cup {e} \in SUBSET Docs /\ draftOf[e] \in Drafts /\ adds[e] \in BOOLEAN
            BY <2>2 DEF Revise, IInv, TypeOK, Issued
      <3>2. \A x \in chain[e] \cup {e} : Issued(x) /\ draftOf[x] = draftOf[e] /\ chain[x] \subseteq chain[e] \cup {e}
            BY <2>2, <3>1 DEF Revise, IInv, Histories, Paper, Chains
      <3>3. \A x, y \in chain[e] \cup {e} : x = y \/ x \in chain[y] \/ y \in chain[x]
            BY <3>1 DEF Paper, Chains
      <3> QED BY <2>2, <3>1, <3>2, <3>3 DEF Revise
    <2> QED BY <2>1, <2>2
  <1>2. Paper' BY <1>1, NewPaper
  <1>3. Work' BY <1>1, SameWork DEF NewDocument
  <1>4. Reads' BY <1>1, QuietIdle DEF NewDocument
  <1>5. IInv' BY IssueIInv, ReviseIInv
  <1> QED BY <1>2, <1>3, <1>4, <1>5

LEMMA RaiseSerial ==
  ASSUME OneAtATime, Serial, NEW d \in Docs, NEW k \in Drafts, RaiseChangeOrder(d, k)
  PROVE  Serial'
  <1> USE DEF Serial
  <1>1. Moved'
        BY DEF RaiseChangeOrder, IInv, TypeOK, ByDraft, Issued, Paper, Moved, agreement
  <1>2. Chains' /\ Retired' /\ Kept'
        BY DEF RaiseChangeOrder, Paper, Chains, Retired, Kept, Live, Apart, Issued, agreement, payments
  <1>3. Work' BY SameWork DEF RaiseChangeOrder
  <1>4. Reads' BY QuietIdle DEF RaiseChangeOrder
  <1> QED BY <1>1, <1>2, <1>3, <1>4, RaiseIInv DEF Paper

LEMMA TermsSerial ==
  ASSUME OneAtATime, Serial, NEW d \in Docs, Terms(d)
  PROVE  Serial'
  <1> USE DEF Serial
  <1>1. Paper'
        BY DEF Terms, Paper, Chains, Retired, Moved, Kept, Live, Apart, Issued, agreement, payments
  <1>2. Work' BY SameWork DEF Terms
  <1>3. Reads' BY QuietIdle DEF Terms
  <1> QED BY <1>1, <1>2, <1>3, TermsIInv

-----------------------------------------------------------------------------
(* The signature: the take-over moves the change orders, the payments and  *)
(* the job together.                                                       *)

\* Of what a document replaces only one can be live, so whatever gives its
\* job up is the one document that has a job still to be done.
LEMMA OneGiver ==
  ASSUME Serial, NEW d \in Docs, NEW x \in Taken(d), jobOf[x] # NoJob, To(jobOf[x])
  PROVE  GivesJob(d) = {x}
  <1> USE DEF Serial, IInv, TypeOK
  <1>1. \A e, f \in Taken(d) : e = f
        BY DEF Taken, Paper, Chains, OneLiveInvoice
  <1>2. x \in Donors(d)
        BY <1>1 DEF Donors
  <1>3. JobLive(jobOf[x])
        BY DEF JobLive, To
  <1> QED BY <1>1, <1>2, <1>3 DEF GivesJob, Donors

LEMMA GiverLive ==
  ASSUME Serial, NEW d \in Docs, NEW e \in GivesJob(d)
  PROVE  /\ e \in Docs /\ e \in Taken(d) /\ jobOf[e] \in Jobs /\ To(jobOf[e]) /\ GivesJob(d) = {e}
  <1>1. e \in Docs /\ e \in Taken(d) /\ JobLive(jobOf[e])
        BY DEF Serial, IInv, TypeOK, GivesJob, Donors, Taken
  <1>2. jobOf[e] \in Jobs /\ To(jobOf[e])
        BY <1>1 DEF Serial, IInv, TypeOK, JobLive, To, Work, Assigned
  <1> QED BY <1>1, <1>2, OneGiver DEF JobLive

LEMMA SignPaper ==
  ASSUME Serial, NEW d \in Docs, NEW how \in {"customer", "office"}, Sign(d, how)
  PROVE  Paper'
  <1> USE DEF Serial, IInv, TypeOK, Paper
  <1>1. /\ signed' = [signed EXCEPT ![d] = how] /\ signed[d] = "no" /\ ~voided[d]
        /\ \A y \in Docs : d \notin chain[y]
        /\ joins' = [c \in Docs |-> IF joins[c] \in Taken(d) THEN d ELSE joins[c]]
        /\ on' = [p \in Payments |-> IF on[p] \in Taken(d) THEN d ELSE on[p]]
        /\ voided' = [e \in Docs |-> voided[e] \/ e \in Taken(d)]
        /\ replaced' = replaced \cup Taken(d)
        /\ heirs' = IF Taken(d) = {} THEN heirs ELSE heirs \cup {d}
        /\ UNCHANGED <<draftOf, chain, under, money>> /\ Issued(d)
        BY DEF Sign, PaymentsTaken, Superseded
  <1>2. \A x : x \in Taken(d) <=> x \in chain[d] /\ Live(x)
        BY DEF Taken
  <1>3. Taken(d) \subseteq Docs /\ d \notin Taken(d) /\ NoDoc \notin Taken(d)
        BY <1>1, NamesAssumption DEF Taken, Live
  <1>4. \A x \in Docs : Live(x)' => Live(x) \/ x = d
        BY <1>1 DEF Live
  <1>5. Chains'
        BY <1>1 DEF Chains
  <1>6. Retired'
    <2>1. ASSUME NEW x \in Docs, NEW y \in Docs, x \in chain[y], signed'[y] # "no", Live(x)'
          PROVE  FALSE
      <3>1. x # d /\ Live(x)
            BY <1>1, <1>4, <2>1
      <3>2. y = d
            BY <1>1, <2>1, <3>1 DEF Retired
      <3> QED BY <1>1, <1>2, <2>1, <3>1, <3>2 DEF Live
    <2>2. ASSUME NEW x \in replaced' PROVE voided'[x] /\ \E e \in heirs' : x \in chain[e]
      <3>1. CASE x \in replaced
            BY <1>1, <3>1 DEF Retired
      <3>2. CASE x \in Taken(d)
            BY <1>1, <1>2, <1>3, <3>2
      <3> QED BY <1>1, <3>1, <3>2
    <2>3. \A x \in heirs' : signed'[x] # "no"
          BY <1>1 DEF Retired
    <2> QED BY <1>1, <2>1, <2>2, <2>3 DEF Retired
  <1>7. Moved'
    <2>1. ASSUME NEW x \in Docs, joins'[x] # NoDoc
          PROVE  under[draftOf[x]] = joins'[x] \/ voided'[under[draftOf[x]]]
      <3>1. joins[x] # NoDoc
            BY <1>1, <1>3, <2>1
      <3>2. under[draftOf[x]] \in Docs
            BY <3>1, NamesAssumption DEF ByDraft, Issued
      <3>3. under[draftOf[x]] = joins[x] \/ voided[under[draftOf[x]]]
            BY <3>1 DEF Moved
      <3>4. voided[under[draftOf[x]]] => voided'[under[draftOf[x]]]
            BY <1>1, <3>2
      <3>5. CASE joins[x] \in Taken(d)
            BY <1>1, <1>3, <3>3, <3>4, <3>5
      <3>6. CASE joins[x] \notin Taken(d)
            BY <1>1, <3>3, <3>4, <3>6
      <3> QED BY <3>5, <3>6
    <2>2. ASSUME NEW x \in Docs, NEW y \in Docs, x \in chain[y], joins'[x] # NoDoc
          PROVE  joins'[y] = joins'[x] \/ voided'[joins'[y]]
      <3>1. joins[x] # NoDoc
            BY <1>1, <1>3, <2>2
      <3>2. joins[y] = joins[x] \/ voided[joins[y]]
            BY <2>2, <3>1 DEF Moved
      <3>3. CASE joins[y] = joins[x]
            BY <1>1, <3>3
      <3>4. CASE voided[joins[y]] /\ joins[y] # joins[x]
        <4>1. joins[y] \notin Taken(d) /\ joins'[y] = joins[y]
              BY <1>1, <1>2, <3>4 DEF Live
        <4>2. joins[y] \in Docs
              BY <2>2, <3>1 DEF ByDraft, Histories, Issued
        <4> QED BY <1>1, <3>4, <4>1, <4>2
      <3> QED BY <3>2, <3>3, <3>4
    <2> QED BY <1>1, <2>1, <2>2 DEF Moved
  <1>8. ASSUME NEW x \in Docs, Apart(x) PROVE Apart(x)'
    <2>1. CASE joins[x] = NoDoc
          BY <1>1, <1>3, <1>8, <2>1 DEF Apart, Issued
    <2>2. CASE joins[x] # NoDoc
      <3>1. voided[joins[x]] /\ joins[x] \in Docs
            BY <1>8, <2>2 DEF Apart
      <3>2. joins'[x] = joins[x]
            BY <1>1, <1>2, <3>1 DEF Live
      <3> QED BY <1>1, <1>8, <3>1, <3>2 DEF Apart, Issued
    <2> QED BY <2>1, <2>2
  <1>9. ASSUME NEW x \in Taken(d), Apart(x) PROVE Apart(d)
    <2>1. x \in Docs /\ x \in chain[d] /\ draftOf[x] = draftOf[d] /\ Issued(x)
          BY <1>2, <1>3 DEF Histories
    <2>2. CASE joins[x] = NoDoc
          BY <1>1, <2>1, <2>2 DEF ByDraft, Apart
    <2>3. CASE joins[x] # NoDoc
          BY <1>1, <1>9, <2>1, <2>3 DEF Moved, Apart
    <2> QED BY <2>2, <2>3
  <1>10. ASSUME NEW p \in Payments, money[p] # "none"
         PROVE  (on[p] \in Docs \ replaced /\ Apart(on[p]))'
    <2>1. on[p] \in Docs \ replaced /\ Apart(on[p])
          BY <1>10 DEF Kept
    <2>2. PICK x : x = on'[p]
          OBVIOUS
    <2>3. x \in Docs /\ x \notin replaced' /\ Apart(x)'
      <3>1. CASE on[p] \in Taken(d)
        <4>1. x = d /\ d \notin replaced
              BY <1>1, <2>2, <3>1 DEF Retired
        <4> QED BY <1>1, <1>3, <1>8, <1>9, <2>1, <3>1, <4>1
      <3>2. CASE on[p] \notin Taken(d)
            BY <1>1, <1>8, <2>1, <2>2, <3>2
      <3> QED BY <3>1, <3>2
    <2> QED BY <2>2, <2>3 DEF Apart, Issued
  <1>11. Kept'
         BY <1>1, <1>10 DEF Kept
  <1> QED BY <1>5, <1>6, <1>7, <1>11

LEMMA SignWork ==
  ASSUME Serial, NEW d \in Docs, NEW how \in {"customer", "office"}, Sign(d, how)
  PROVE  Work'
  <1> USE DEF Serial, IInv, TypeOK
  <1>1. /\ signed' = [signed EXCEPT ![d] = how] /\ signed[d] = "no" /\ ~voided[d]
        /\ voided' = [e \in Docs |-> voided[e] \/ e \in Taken(d)]
        /\ replaced' = replaced \cup Taken(d) /\ UNCHANGED jobs
        /\ figure' = FigureTaken(d)
        /\ jobOf' = [jobOf EXCEPT ![d] = IF GivesJob(d) = {} THEN @ ELSE jobOf[CHOOSE e \in GivesJob(d) : TRUE]]
        BY DEF Sign
  <1>2. Taken(d) \subseteq Docs /\ d \notin Taken(d) /\ d \notin replaced /\ jobOf[d] = NoJob
        BY <1>1 DEF Taken, Live, Paper, Retired, Work, Assigned
  <1>3. \A x \in Docs \ {d} : signed'[x] = signed[x] /\ jobOf'[x] = jobOf[x]
                              /\ (voided'[x] <=> voided[x] \/ x \in Taken(d))
        BY <1>1
  <1>4. \A x \in Taken(d), j \in Jobs : jobOf[x] = j /\ To(j) => GivesJob(d) = {x}
        BY OneGiver, NamesAssumption
  <1>5. CASE GivesJob(d) = {}
    <2>1. jobOf' = jobOf
          BY <1>1, <1>5
    <2>2. \A j \in Jobs : figure'[j] = figure[j]
          BY <1>1, <1>5 DEF FigureTaken
    <2>3. \A x \in Taken(d), j \in Jobs : To(j) => jobOf[x] # j
          BY <1>4, <1>5
    <2>4. Assigned'
          BY <1>1, <2>1 DEF Work, Assigned
    <2>5. ContractedFigure'
          BY <1>1, <1>2, <1>3, <2>1, <2>2, <2>3, NamesAssumption DEF Work, ContractedFigure, To
    <2>6. JobServesLiveWork'
      <3> SUFFICES ASSUME NEW j \in Jobs, jobs[j] = "contracted"
                   PROVE  \E x \in Docs : jobOf'[x] = j /\ Live(x)'
          BY <1>1 DEF JobServesLiveWork, OnJob
      <3>1. PICK x \in Docs : jobOf[x] = j /\ Live(x)
            BY DEF Work, JobServesLiveWork, OnJob
      <3> QED BY <1>1, <1>2, <1>3, <2>1, <2>3, <3>1 DEF Live, To
    <2> QED BY <2>4, <2>5, <2>6 DEF Work
  <1>6. CASE GivesJob(d) # {}
    <2>1. PICK e \in Docs : e \in GivesJob(d) /\ GivesJob(d) = {e} /\ e \in Taken(d)
                            /\ jobOf[e] \in Jobs /\ To(jobOf[e])
          BY <1>6, GiverLive
    <2>2. PICK i \in Jobs : i = jobOf[e] /\ To(i)
          BY <2>1
    <2>3. jobOf'[d] = i /\ e # d
      <3>1. (CHOOSE x \in GivesJob(d) : TRUE) = e
            BY <2>1
      <3> QED BY <1>1, <1>2, <2>1, <2>2, <3>1
    <2>4. \A x \in Taken(d), j \in Jobs : jobOf[x] = j /\ To(j) => x = e /\ j = i
          BY <1>4, <2>1, <2>2
    <2>5. \A j \in Jobs \ {i} : figure'[j] = figure[j]
          BY <1>1, <2>1, <2>2 DEF FigureTaken
    <2>6. figure'[i] = [x \in Docs |-> figure[i][x] + (IF x = d THEN 1 ELSE 0) - (IF x = e THEN 1 ELSE 0)]
          BY <1>1, <2>1, <2>2 DEF FigureTaken
    <2>7. Assigned'
          BY <1>1, <1>3, <2>2, <2>3 DEF Work, Assigned, To
    <2>8. ASSUME NEW j \in Jobs, jobs[j] = "contracted", NEW x \in Docs
          PROVE  figure'[j][x] = (IF jobOf'[x] = j /\ signed'[x] # "no" /\ x \notin replaced' THEN 1 ELSE 0)
      <3>1. figure[j][x] = (IF jobOf[x] = j /\ signed[x] # "no" /\ x \notin replaced THEN 1 ELSE 0)
            BY <2>8 DEF Work, ContractedFigure
      <3>2. CASE x = d
        <4>1. figure[j][d] = 0
              BY <1>1, <3>1, <3>2
        <4>2. CASE j = i
              BY <1>1, <1>2, <2>3, <2>6, <3>2, <4>1, <4>2
        <4>3. CASE j # i
              BY <2>3, <2>5, <3>2, <4>1, <4>3
        <4> QED BY <4>2, <4>3
      <3>3. CASE x = e
        <4>1. signed[e] # "no" /\ e \notin replaced
              BY <2>1 DEF Taken, Live, Paper, Retired
        <4>2. CASE j = i
              BY <1>1, <1>3, <2>1, <2>2, <2>3, <2>6, <3>1, <3>3, <4>1, <4>2
        <4>3. CASE j # i
              BY <1>1, <1>3, <2>2, <2>3, <2>5, <3>1, <3>3, <4>3
        <4> QED BY <4>2, <4>3
      <3>4. CASE x # d /\ x # e
        <4>1. jobOf[x] = j => x \notin Taken(d)
              BY <2>4, <2>8, <3>4 DEF To
        <4>2. figure'[j][x] = figure[j][x]
              BY <2>5, <2>6, <3>1, <3>4
        <4> QED BY <1>1, <1>3, <3>1, <3>4, <4>1, <4>2
      <3> QED BY <3>2, <3>3, <3>4
    <2>9. ContractedFigure'
          BY <1>1, <2>8 DEF ContractedFigure
    <2>10. JobServesLiveWork'
      <3> SUFFICES ASSUME NEW j \in Jobs, jobs[j] = "contracted"
                   PROVE  \E x \in Docs : jobOf'[x] = j /\ Live(x)'
          BY <1>1 DEF JobServesLiveWork, OnJob
      <3>1. CASE j = i
            BY <1>1, <1>2, <2>3, <3>1 DEF Live
      <3>2. CASE j # i
        <4>1. PICK x \in Docs : jobOf[x] = j /\ Live(x)
              BY DEF Work, JobServesLiveWork, OnJob
        <4> QED BY <1>1, <1>2, <1>3, <2>4, <3>2, <4>1 DEF Live, To
      <3> QED BY <3>1, <3>2
    <2> QED BY <2>7, <2>9, <2>10 DEF Work
  <1> QED BY <1>5, <1>6

LEMMA SignSerial ==
  ASSUME OneAtATime, Serial, NEW d \in Docs, NEW how \in {"customer", "office"}, Sign(d, how)
  PROVE  Serial'
  <1>1. Reads' BY QuietIdle DEF Sign
  <1> QED BY <1>1, SignPaper, SignWork, SignIInv DEF Serial

-----------------------------------------------------------------------------
(* Requests read.                                                          *)

LEMMA ReadSerial ==
  ASSUME Serial, Reads', IInv', UNCHANGED <<documents, agreement, work, payments>>
  PROVE  Serial'
  BY SamePaper, SameWork DEF Serial

LEMMA LiveIsTo ==
  ASSUME Serial, NEW d \in Docs, JobLive(jobOf[d])
  PROVE  jobOf[d] \in Jobs /\ To(jobOf[d])
  BY DEF Serial, IInv, TypeOK, Work, Assigned, JobLive, To

LEMMA CreateJobReadSerial ==
  ASSUME OneAtATime, Serial, NEW w \in Workers, NEW d \in Docs, CreateJobRead(w, d)
  PROVE  Serial'
  <1> USE DEF Serial
  <1>1. Live(d) /\ jobOf[d] = NoJob /\ Free(w) /\ UNCHANGED <<documents, agreement, work, payments>>
        BY DEF CreateJobRead, OneAtATime, Live
  <1>2. CASE JobLive(Current(d))
    <2>1. Starts(w, "join", d, Current(d), figure[Current(d)])
          BY <1>2 DEF CreateJobRead
    <2>2. Current(d) \in Jobs /\ To(Current(d))
          BY <1>2, LiveIsTo, NamesAssumption DEF Current, JobLive, IInv, TypeOK
    <2>3. Holds([op |-> "join", doc |-> d, job |-> Current(d), saw |-> figure[Current(d)]])
          BY <1>1, <2>2 DEF Holds, HoldsJoin
    <2> QED BY <1>1, <2>1, <2>3, StartHolds, ReadSerial, CreateJobReadIInv
  <1>3. CASE ~JobLive(Current(d))
    <2>1. Starts(w, "mint", d, NoJob, Idle.saw)
          BY <1>3 DEF CreateJobRead
    <2>2. Holds([op |-> "mint", doc |-> d, job |-> NoJob, saw |-> Idle.saw])
          BY <1>1 DEF Holds, HoldsMint
    <2> QED BY <1>1, <2>1, <2>2, StartHolds, ReadSerial, CreateJobReadIInv
  <1> QED BY <1>2, <1>3

LEMMA VoidReadSerial ==
  ASSUME OneAtATime, Serial, NEW w \in Workers, NEW d \in Docs, VoidRead(w, d)
  PROVE  Serial'
  <1> USE DEF Serial
  <1>1. /\ Live(d) /\ Free(w) /\ UNCHANGED <<documents, agreement, work, payments>>
        /\ Starts(w, "void", d, Cancels(d), Idle.saw)
        BY DEF VoidRead
  <1>2. Holds([op |-> "void", doc |-> d, job |-> Cancels(d), saw |-> Idle.saw])
        BY <1>1, NamesAssumption DEF Holds, HoldsVoid, Cancels, JobLive, To, IInv, TypeOK
  <1> QED BY <1>1, <1>2, StartHolds, ReadSerial, VoidReadIInv

LEMMA UndoReadSerial ==
  ASSUME OneAtATime, Serial, NEW w \in Workers, NEW d \in Docs, UndoRead(w, d)
  PROVE  Serial'
  <1> USE DEF Serial
  <1>1. /\ Live(d) /\ d \notin heirs /\ Free(w) /\ UNCHANGED <<documents, agreement, work, payments>>
        BY DEF UndoRead, MayUndo
  <1>2. CASE jobOf[d] = NoJob \/ jobs[jobOf[d]] # "contracted"
    <2>1. Starts(w, "undo", d, NoJob, Idle.saw)
          BY <1>2 DEF UndoRead
    <2>2. Holds([op |-> "undo", doc |-> d, job |-> NoJob, saw |-> Idle.saw])
          BY <1>1, <1>2 DEF Holds, HoldsUndo, To
    <2> QED BY <1>1, <2>1, <2>2, StartHolds, ReadSerial, UndoReadIInv
  <1>3. CASE ~(jobOf[d] = NoJob \/ jobs[jobOf[d]] # "contracted") /\ OnJob(jobOf[d]) \ {d} = {}
    <2>1. Starts(w, "undo", d, jobOf[d], Idle.saw)
          BY <1>3 DEF UndoRead
    <2>2. Holds([op |-> "undo", doc |-> d, job |-> jobOf[d], saw |-> Idle.saw])
          BY <1>1, <1>3 DEF Holds, HoldsUndo
    <2> QED BY <1>1, <2>1, <2>2, StartHolds, ReadSerial, UndoReadIInv
  <1>4. CASE ~(jobOf[d] = NoJob \/ jobs[jobOf[d]] # "contracted") /\ OnJob(jobOf[d]) \ {d} # {}
    <2>1. Starts(w, "share", d, jobOf[d], figure[jobOf[d]])
          BY <1>4 DEF UndoRead
    <2>2. Holds([op |-> "share", doc |-> d, job |-> jobOf[d], saw |-> figure[jobOf[d]]])
          BY <1>1, <1>4 DEF Holds, HoldsShare, To, IInv, TypeOK
    <2> QED BY <1>1, <2>1, <2>2, StartHolds, ReadSerial, UndoReadIInv
  <1> QED BY <1>2, <1>3, <1>4

\* The document an invoice is read at was not taken over, and is of no
\* invoice or of a void one.
LEMMA RootApart ==
  ASSUME Serial, NEW d \in Docs, signed[d] # "no", NEW root \in Root(d)
  PROVE  root \in Docs \ replaced /\ Apart(root)
  <1> USE DEF Serial, IInv, TypeOK, Paper
  <1>1. PICK u \in Docs : u = Up(d) /\ Issued(u) /\ Apart(u)
    <2>1. Issued(d)
          BY DEF Histories
    <2>2. CASE joins[d] # NoDoc /\ ~voided[joins[d]]
          BY <2>2 DEF Up, ByDraft, OneLevelDeep, Apart
    <2>3. CASE ~(joins[d] # NoDoc /\ ~voided[joins[d]])
          BY <2>1, <2>3 DEF Up, Apart
    <2> QED BY <2>2, <2>3
  <1>2. CASE Newer(u) = {}
    <2>1. root = u
          BY <1>1, <1>2 DEF Root
    <2>2. u \notin replaced
          BY <1>2 DEF Newer, Retired
    <2> QED BY <1>1, <2>1, <2>2
  <1>3. CASE Newer(u) # {}
    <2>1. root \in Docs /\ u \in chain[root] /\ signed[root] # "no" /\ Newer(u) \subseteq chain[root] \cup {root}
          BY <1>1, <1>3 DEF Root, Newer
    <2>2. root \notin replaced
      <3> SUFFICES ASSUME root \in replaced PROVE FALSE
          OBVIOUS
      <3>1. PICK e \in Docs : root \in chain[e] /\ signed[e] # "no"
            BY DEF Retired
      <3>2. e \in Newer(u)
            BY <2>1, <3>1 DEF Newer, Chains
      <3>3. e \in chain[root] \/ e = root
            BY <2>1, <3>2
      <3> QED BY <2>1, <3>1, <3>3 DEF Chains
    <2>3. Issued(root) /\ draftOf[u] = draftOf[root]
          BY <2>1 DEF Histories
    <2>4. CASE joins[u] = NoDoc
          BY <1>1, <2>1, <2>2, <2>3, <2>4 DEF ByDraft, Apart
    <2>5. CASE joins[u] # NoDoc
          BY <1>1, <2>1, <2>2, <2>3, <2>5 DEF Moved, Apart
    <2> QED BY <2>4, <2>5
  <1> QED BY <1>2, <1>3

LEMMA PayReadSerial ==
  ASSUME OneAtATime, Serial, NEW w \in Workers, NEW d \in Docs, PayRead(w, d)
  PROVE  Serial'
  <1> USE DEF Serial
  <1>1. PICK root \in Root(d) : Starts(w, "pay", root, NoJob, Idle.saw)
        BY DEF PayRead
  <1>2. Free(w) /\ UNCHANGED <<documents, agreement, work, payments>> /\ signed[d] # "no"
        BY DEF PayRead
  <1>3. root \in Docs /\ root \notin replaced /\ Apart(root)
        BY <1>2, RootApart
  <1>4. Holds([op |-> "pay", doc |-> root, job |-> NoJob, saw |-> Idle.saw])
        BY <1>3 DEF Holds, HoldsPay
  <1> QED BY <1>1, <1>2, <1>3, <1>4, StartHolds, ReadSerial, PayReadIInv

-----------------------------------------------------------------------------
(* Requests write.                                                         *)

\* What a busy request holds, by its operation.
LEMMA BusyHolds ==
  ASSUME Serial, NEW w \in Workers, NEW op \in {"join", "mint", "void", "undo", "share", "pay"}, Doing(w, op)
  PROVE  /\ request[w] # Idle /\ Holds(request[w]) /\ request[w].doc \in Docs
         /\ op = "join" => HoldsJoin(request[w])
         /\ op = "mint" => HoldsMint(request[w])
         /\ op = "void" => HoldsVoid(request[w])
         /\ op = "undo" => HoldsUndo(request[w])
         /\ op = "share" => HoldsShare(request[w])
         /\ op = "pay" => HoldsPay(request[w])
  <1>1. request[w] # Idle
        BY DEF Doing, Idle
  <1>2. Holds(request[w])
        BY <1>1 DEF Serial, Reads
  <1> QED BY <1>1, <1>2 DEF Doing, Holds, HoldsJoin, HoldsMint, HoldsVoid, HoldsUndo, HoldsShare, HoldsPay

LEMMA JoinSerial ==
  ASSUME Serial, NEW w \in Workers, JoinJob(w)
  PROVE  Serial'
  <1> USE DEF Serial, IInv, TypeOK
  <1>1. PICK d \in Docs, j \in Jobs : d = request[w].doc /\ j = request[w].job
        BY BusyHolds DEF JoinJob, HoldsJoin
  <1>2. /\ request[w] # Idle /\ Live(d) /\ jobOf[d] = NoJob /\ To(j) /\ request[w].saw = figure[j]
        BY <1>1, BusyHolds DEF JoinJob, HoldsJoin
  <1>3. /\ jobOf' = [jobOf EXCEPT ![d] = j] /\ figure' = [figure EXCEPT ![j] = [figure[j] EXCEPT ![d] = @ + 1]]
        /\ UNCHANGED <<documents, agreement, jobs, payments>>
        BY <1>1, <1>2 DEF JoinJob, FigureJoined
  <1>4. Assigned'
        BY <1>2, <1>3 DEF Work, Assigned, To, Live, agreement
  <1>5. ContractedFigure'
    <2>1. d \notin replaced /\ signed[d] # "no" /\ j # NoJob
          BY <1>2, NamesAssumption DEF Live, Paper, Retired
    <2>2. \A i \in Jobs : figure'[i] = IF i = j THEN [figure[j] EXCEPT ![d] = @ + 1] ELSE figure[i]
          BY <1>3
    <2>3. \A x \in Docs : jobOf'[x] = IF x = d THEN j ELSE jobOf[x]
          BY <1>3
    <2>4. ASSUME NEW i \in Jobs, jobs[i] = "contracted", NEW x \in Docs
          PROVE  figure'[i][x] = (IF jobOf'[x] = i /\ signed[x] # "no" /\ x \notin replaced THEN 1 ELSE 0)
      <3>1. figure[i][x] = (IF jobOf[x] = i /\ signed[x] # "no" /\ x \notin replaced THEN 1 ELSE 0)
            BY <2>4 DEF Work, ContractedFigure
      <3>2. CASE i = j /\ x = d
            BY <1>2, <2>1, <2>2, <2>3, <3>1, <3>2
      <3>3. CASE i # j \/ x # d
        <4>1. figure'[i][x] = figure[i][x]
              BY <2>2, <3>3
        <4>2. jobOf'[x] = i <=> jobOf[x] = i
              BY <1>2, <2>1, <2>3, <3>3, NamesAssumption
        <4> QED BY <3>1, <4>1, <4>2
      <3> QED BY <3>2, <3>3
    <2> QED BY <1>3, <2>4 DEF ContractedFigure, agreement
  <1>6. JobServesLiveWork'
        BY <1>2, <1>3, NamesAssumption DEF Work, JobServesLiveWork, OnJob, Live, agreement
  <1>7. Paper' BY <1>3, SamePaper
  <1>8. Reads' BY <1>2, DoneIdle DEF JoinJob
  <1> QED BY <1>4, <1>5, <1>6, <1>7, <1>8, JoinJobIInv DEF Work

LEMMA MintSerial ==
  ASSUME Serial, NEW w \in Workers, NEW j \in Jobs, MintJob(w, j)
  PROVE  Serial'
  <1> USE DEF Serial, IInv, TypeOK
  <1>1. PICK d \in Docs : d = request[w].doc
        BY BusyHolds DEF MintJob
  <1>2. request[w] # Idle /\ Live(d) /\ jobOf[d] = NoJob
        BY <1>1, BusyHolds DEF MintJob, HoldsMint
  <1>3. /\ jobOf' = [jobOf EXCEPT ![d] = j] /\ figure' = [figure EXCEPT ![j] = [Idle.saw EXCEPT ![d] = 1]]
        /\ jobs' = [jobs EXCEPT ![j] = "contracted"] /\ jobs[j] = "none"
        /\ UNCHANGED <<documents, agreement, payments>>
        BY <1>1 DEF MintJob
  <1>4. \A x \in Docs : jobOf[x] # j
        BY <1>3, NamesAssumption DEF Work, Assigned
  <1>5. Assigned'
        BY <1>2, <1>3 DEF Work, Assigned, Live, agreement
  <1>6. ContractedFigure'
    <2>1. d \notin replaced /\ signed[d] # "no"
          BY <1>2 DEF Live, Paper, Retired
    <2>2. \A x \in Docs : figure'[j][x] = IF x = d THEN 1 ELSE 0
      <3>1. Idle.saw = [x \in Docs |-> 0]
            BY DEF Idle
      <3> QED BY <1>3, <3>1
    <2>3. \A i \in Jobs \ {j} : figure'[i] = figure[i] /\ jobs'[i] = jobs[i]
          BY <1>3
    <2>4. \A x \in Docs : jobOf'[x] = IF x = d THEN j ELSE jobOf[x]
          BY <1>3
    <2>5. ASSUME NEW i \in Jobs, jobs'[i] = "contracted", NEW x \in Docs
          PROVE  figure'[i][x] = (IF jobOf'[x] = i /\ signed[x] # "no" /\ x \notin replaced THEN 1 ELSE 0)
      <3>1. CASE i = j
            BY <1>4, <2>1, <2>2, <2>4, <3>1
      <3>2. CASE i # j
        <4>1. figure[i][x] = (IF jobOf[x] = i /\ signed[x] # "no" /\ x \notin replaced THEN 1 ELSE 0)
              BY <2>3, <2>5, <3>2 DEF Work, ContractedFigure
        <4>2. jobOf'[x] = i <=> jobOf[x] = i
              BY <1>2, <2>4, <3>2, NamesAssumption
        <4> QED BY <2>3, <3>2, <4>1, <4>2
      <3> QED BY <3>1, <3>2
    <2> QED BY <1>3, <2>5 DEF ContractedFigure, agreement
  <1>7. JobServesLiveWork'
    <2> SUFFICES ASSUME NEW i \in Jobs, jobs'[i] = "contracted"
                 PROVE  \E x \in Docs : jobOf'[x] = i /\ Live(x)'
        BY DEF JobServesLiveWork, OnJob
    <2>1. \A x \in Docs : Live(x)' <=> Live(x)
          BY <1>3 DEF Live, agreement
    <2>2. CASE i = j
          BY <1>2, <1>3, <2>1, <2>2
    <2>3. CASE i # j
      <3>1. PICK x \in Docs : jobOf[x] = i /\ Live(x)
            BY <1>3, <2>3 DEF Work, JobServesLiveWork, OnJob
      <3> QED BY <1>2, <1>3, <2>1, <3>1, NamesAssumption
    <2> QED BY <2>2, <2>3
  <1>8. Paper' BY <1>3, SamePaper
  <1>9. Reads' BY <1>2, DoneIdle DEF MintJob
  <1> QED BY <1>5, <1>6, <1>7, <1>8, <1>9, MintJobIInv DEF Work

LEMMA EndJobSerial ==
  ASSUME OneAtATime, Serial, NEW j \in Jobs, EndJob(j)
  PROVE  Serial'
  <1> USE DEF Serial, IInv, TypeOK
  <1>1. PICK s \in {"completed", "cancelled"} : jobs' = [jobs EXCEPT ![j] = s]
        BY DEF EndJob
  <1>2. UNCHANGED <<documents, agreement, jobOf, figure, payments, request>> /\ Quiet
        BY DEF EndJob
  <1>3. \A i \in Jobs : jobs'[i] = "contracted" => jobs[i] = "contracted"
        BY <1>1
  <1>4. Assigned' BY <1>1, <1>2 DEF Work, Assigned, agreement
  <1>5. ContractedFigure' BY <1>2, <1>3 DEF Work, ContractedFigure, agreement
  <1>6. JobServesLiveWork' BY <1>2, <1>3 DEF Work, JobServesLiveWork, OnJob, Live, agreement
  <1>7. Paper' BY <1>2, SamePaper
  <1>8. Reads' BY <1>2, QuietIdle
  <1> QED BY <1>4, <1>5, <1>6, <1>7, <1>8, EndJobIInv DEF Work

LEMMA VoidCancelsSerial ==
  ASSUME Serial, NEW w \in Workers, VoidCancelsJob(w)
  PROVE  Serial'
  <1> USE DEF Serial, IInv, TypeOK
  <1>1. PICK d \in Docs, j \in Jobs : d = request[w].doc /\ j = request[w].job
        BY BusyHolds, RequestTyped DEF VoidCancelsJob
  <1>2. /\ request[w] # Idle /\ Live(d) /\ jobOf[d] = j /\ request[w].op = "void"
        BY <1>1, BusyHolds DEF VoidCancelsJob, HoldsVoid
  <1>3. /\ jobs' = [jobs EXCEPT ![j] = "cancelled"]
        /\ request' = [request EXCEPT ![w].job = NoJob]
        /\ UNCHANGED <<documents, agreement, jobOf, figure, payments>>
        BY <1>1 DEF VoidCancelsJob
  <1>4. \A i \in Jobs : jobs'[i] = "contracted" => jobs[i] = "contracted"
        BY <1>3
  <1>5. Assigned' BY <1>3 DEF Work, Assigned, agreement
  <1>6. ContractedFigure' BY <1>3, <1>4 DEF Work, ContractedFigure, agreement
  <1>7. JobServesLiveWork' BY <1>3, <1>4 DEF Work, JobServesLiveWork, OnJob, Live, agreement
  <1>8. Paper' BY <1>3, SamePaper
  <1>9. Reads'
    <2>1. \A v \in Workers : v # w => request'[v] = request[v] /\ request[v] = Idle
          BY <1>2, <1>3 DEF Reads
    <2>2. PICK q : q = request'[w]
          OBVIOUS
    <2>3. q.op = "void" /\ q.doc = d /\ q.job = NoJob
          BY <1>1, <1>2, <1>3, <2>2 DEF Requests
    <2>4. HoldsVoid(q)'
          BY <1>2, <1>3, <2>3 DEF HoldsVoid, To, Live, agreement
    <2>5. Holds(q)'
          BY <2>3, <2>4 DEF Holds
    <2>6. \A v \in Workers : request'[v] = Idle \/ v = w
          BY <2>1
    <2> QED BY <2>2, <2>5, <2>6 DEF Reads
  <1> QED BY <1>5, <1>6, <1>7, <1>8, <1>9, VoidCancelsJobIInv DEF Work

LEMMA VoidWriteSerial ==
  ASSUME Serial, NEW w \in Workers, VoidWrite(w)
  PROVE  Serial'
  <1> USE DEF Serial, IInv, TypeOK
  <1>1. PICK d \in Docs : d = request[w].doc
        BY BusyHolds DEF VoidWrite
  <1>2. /\ request[w] # Idle /\ Live(d)
        /\ jobOf[d] # NoJob /\ To(jobOf[d]) => OnJob(jobOf[d]) \ {d} # {}
        BY <1>1, BusyHolds DEF VoidWrite, HoldsVoid
  <1>3. /\ voided' = [voided EXCEPT ![d] = TRUE]
        /\ UNCHANGED <<documents, signed, replaced, heirs, work, payments>>
        BY <1>1 DEF VoidWrite
  <1>4. \A x \in Docs : voided[x] => voided'[x]
        BY <1>3
  <1>5. Paper'
    <2>1. Chains' BY <1>3 DEF Paper, Chains, documents
    <2>2. Retired' BY <1>3, <1>4 DEF Paper, Retired, Live, documents
    <2>3. Moved'
      <3>1. \A x \in Docs : joins[x] # NoDoc => joins[x] \in Docs /\ under[draftOf[x]] \in Docs
            BY NamesAssumption DEF ByDraft, Issued
      <3>2. \A x, y \in Docs : x \in chain[y] /\ joins[x] # NoDoc => joins[y] \in Docs
            BY DEF ByDraft, Histories, Issued
      <3> QED BY <1>3, <1>4, <3>1, <3>2 DEF Paper, Moved, documents
    <2>4. Kept' BY <1>3, <1>4 DEF Paper, Kept, Apart, Issued, documents, payments
    <2> QED BY <2>1, <2>2, <2>3, <2>4 DEF Paper
  <1>6. Assigned' /\ ContractedFigure'
        BY <1>3 DEF Work, Assigned, ContractedFigure, work
  <1>7. JobServesLiveWork'
    <2> SUFFICES ASSUME NEW j \in Jobs, jobs[j] = "contracted"
                 PROVE  \E x \in Docs : jobOf[x] = j /\ Live(x)'
        BY <1>3 DEF JobServesLiveWork, OnJob, work
    <2>1. PICK x \in Docs : jobOf[x] = j /\ Live(x)
          BY DEF Work, JobServesLiveWork, OnJob
    <2>2. CASE jobOf[d] = j
      <3>1. PICK y \in Docs \ {d} : jobOf[y] = j /\ Live(y)
            BY <1>2, <2>2, NamesAssumption DEF To, OnJob
      <3> QED BY <1>3, <3>1 DEF Live
    <2>3. CASE jobOf[d] # j
          BY <1>3, <2>1, <2>3 DEF Live
    <2> QED BY <2>2, <2>3
  <1>8. Reads' BY <1>2, DoneIdle DEF VoidWrite
  <1> QED BY <1>5, <1>6, <1>7, <1>8, VoidWriteIInv DEF Work

LEMMA PayWriteSerial ==
  ASSUME Serial, NEW w \in Workers, NEW p \in Payments, PayWrite(w, p)
  PROVE  Serial'
  <1> USE DEF Serial, IInv, TypeOK
  <1>1. PICK d \in Docs : d = request[w].doc
        BY BusyHolds DEF PayWrite
  <1>2. request[w] # Idle /\ d \notin replaced /\ Apart(d)
        BY <1>1, BusyHolds DEF PayWrite, HoldsPay
  <1>3. /\ money' = [money EXCEPT ![p] = "paid"] /\ on' = [on EXCEPT ![p] = d]
        /\ UNCHANGED <<documents, agreement, work>>
        BY <1>1 DEF PayWrite
  <1>4. Kept'
        BY <1>2, <1>3 DEF Paper, Kept, Apart, Issued, documents, agreement
  <1>5. Chains' /\ Retired' /\ Moved'
        BY <1>3 DEF Paper, Chains, Retired, Moved, Live, documents, agreement
  <1>6. Reads' BY <1>2, DoneIdle DEF PayWrite
  <1> QED BY <1>3, <1>4, <1>5, <1>6, SameWork, PayWriteIInv DEF Paper

LEMMA VoidPaymentSerial ==
  ASSUME OneAtATime, Serial, NEW p \in Payments, VoidPayment(p)
  PROVE  Serial'
  <1> USE DEF Serial, IInv, TypeOK
  <1>1. /\ \A q \in Payments : money'[q] # "none" => money[q] # "none"
        /\ UNCHANGED <<documents, agreement, work, on, request>> /\ Quiet
        BY DEF VoidPayment
  <1>2. Kept'
        BY <1>1 DEF Paper, Kept, Apart, Issued, documents, agreement
  <1>3. Chains' /\ Retired' /\ Moved'
        BY <1>1 DEF Paper, Chains, Retired, Moved, Live, documents, agreement
  <1> QED BY <1>1, <1>2, <1>3, QuietIdle, SameWork, VoidPaymentIInv DEF Paper

LEMMA CrashSerial ==
  ASSUME Serial, NEW w \in Workers, Crash(w)
  PROVE  Serial'
  BY DoneIdle, ReadSerial, CrashIInv DEF Crash, Serial

LEMMA UndoSerial ==
  ASSUME Serial, NEW w \in Workers, UndoWrite(w)
  PROVE  Serial'
  <1> USE DEF Serial, IInv, TypeOK
  <1>1. PICK d \in Docs : d = request[w].doc
        BY BusyHolds DEF UndoWrite, Doing
  <1>2. HoldsUndo(request[w]) \/ HoldsShare(request[w])
        BY BusyHolds DEF UndoWrite, Doing
  <1>3. /\ request[w] # Idle /\ Live(d) /\ d \notin heirs /\ d \notin replaced /\ signed[d] # "no"
        BY <1>1, <1>2 DEF HoldsUndo, HoldsShare, Idle, Paper, Retired, Live
  <1>4. /\ signed' = [signed EXCEPT ![d] = "no"] /\ jobOf' = [jobOf EXCEPT ![d] = NoJob]
        /\ UNCHANGED <<documents, voided, replaced, heirs, payments>>
        BY <1>1 DEF UndoWrite
  <1>5. \A x \in Docs : (Live(x)' <=> x # d /\ Live(x)) /\ jobOf'[x] = IF x = d THEN NoJob ELSE jobOf[x]
        BY <1>4 DEF Live
  <1>6. Paper'
    <2>1. Retired'
      <3>1. \A x, y \in Docs : x \in chain'[y] /\ signed'[y] # "no" => ~Live(x)'
            BY <1>4, <1>5 DEF Paper, Retired, documents
      <3>2. \A x \in replaced' : voided'[x] /\ \E e \in heirs' : x \in chain'[e]
            BY <1>4 DEF Paper, Retired, documents
      <3>3. \A x \in heirs' : signed'[x] # "no"
            BY <1>3, <1>4 DEF Paper, Retired
      <3> QED BY <3>1, <3>2, <3>3 DEF Retired
    <2>2. Chains' /\ Moved' /\ Kept'
          BY <1>4 DEF Paper, Chains, Moved, Kept, Apart, Issued, documents, payments
    <2> QED BY <2>1, <2>2 DEF Paper
  <1>7. Reads' BY <1>3, DoneIdle DEF UndoWrite
  <1>8. Work'
    <2>1. CASE HoldsShare(request[w])
      <3>1. PICK j \in Jobs : j = request[w].job /\ j = jobOf[d] /\ To(j) /\ request[w].saw = figure[j]
                              /\ OnJob(j) \ {d} # {} /\ request[w].op = "share"
            BY <1>1, <2>1 DEF HoldsShare
      <3>2. jobs' = jobs /\ figure' = [figure EXCEPT ![j] = [figure[j] EXCEPT ![d] = @ - 1]]
            BY <1>1, <3>1 DEF UndoWrite
      <3>3. Assigned'
            BY <1>4, <1>5, <3>2 DEF Work, Assigned
      <3>4. ContractedFigure'
        <4>1. ASSUME NEW i \in Jobs, jobs[i] = "contracted", NEW x \in Docs
              PROVE  figure'[i][x] = (IF jobOf'[x] = i /\ signed'[x] # "no" /\ x \notin replaced THEN 1 ELSE 0)
          <5>1. figure[i][x] = (IF jobOf[x] = i /\ signed[x] # "no" /\ x \notin replaced THEN 1 ELSE 0)
                BY <4>1 DEF Work, ContractedFigure
          <5>2. figure'[i] = IF i = j THEN [figure[j] EXCEPT ![d] = @ - 1] ELSE figure[i]
                BY <3>2
          <5>3. CASE x = d
            <6>1. signed'[x] = "no"
                  BY <1>4, <5>3
            <6>2. figure'[i][x] = 0
                  BY <1>3, <3>1, <5>1, <5>2, <5>3
            <6> QED BY <6>1, <6>2
          <5>4. CASE x # d
            <6>1. figure'[i][x] = figure[i][x] /\ signed'[x] = signed[x] /\ jobOf'[x] = jobOf[x]
                  BY <1>4, <1>5, <5>2, <5>4
            <6> QED BY <5>1, <6>1
          <5> QED BY <5>3, <5>4
        <4> QED BY <1>4, <3>2, <4>1 DEF ContractedFigure
      <3>5. JobServesLiveWork'
        <4> SUFFICES ASSUME NEW i \in Jobs, jobs[i] = "contracted"
                     PROVE  \E x \in Docs : jobOf'[x] = i /\ Live(x)'
            BY <3>2 DEF JobServesLiveWork, OnJob
        <4>1. CASE i = j
              BY <1>5, <3>1, <4>1 DEF OnJob
        <4>2. CASE i # j
          <5>1. PICK x \in Docs : jobOf[x] = i /\ Live(x)
                BY DEF Work, JobServesLiveWork, OnJob
          <5> QED BY <1>5, <3>1, <4>2, <5>1
        <4> QED BY <4>1, <4>2
      <3> QED BY <3>3, <3>4, <3>5 DEF Work
    <2>2. CASE HoldsUndo(request[w])
      <3>1. /\ figure' = figure
            /\ jobs' = IF request[w].job # NoJob THEN [jobs EXCEPT ![request[w].job] = "cancelled"] ELSE jobs
            BY <2>2 DEF UndoWrite, HoldsUndo
      <3>2. \A i \in Jobs : jobs'[i] = "contracted" => jobs[i] = "contracted" /\ jobOf[d] # i
        <4>1. CASE request[w].job # NoJob
              BY <1>1, <2>2, <3>1, <4>1 DEF HoldsUndo
        <4>2. CASE request[w].job = NoJob
              BY <1>1, <2>2, <3>1, <4>2, NamesAssumption DEF HoldsUndo, To
        <4> QED BY <4>1, <4>2
      <3>3. Assigned'
            BY <1>4, <1>5, <3>1 DEF Work, Assigned
      <3>4. ContractedFigure'
        <4>1. ASSUME NEW i \in Jobs, jobs'[i] = "contracted", NEW x \in Docs
              PROVE  figure'[i][x] = (IF jobOf'[x] = i /\ signed'[x] # "no" /\ x \notin replaced THEN 1 ELSE 0)
          <5>1. figure[i][x] = (IF jobOf[x] = i /\ signed[x] # "no" /\ x \notin replaced THEN 1 ELSE 0)
                BY <3>2, <4>1 DEF Work, ContractedFigure
          <5>2. jobOf'[x] = i /\ signed'[x] # "no" <=> jobOf[x] = i /\ signed[x] # "no"
                BY <1>4, <1>5, <3>2, <4>1, NamesAssumption
          <5> QED BY <3>1, <5>1, <5>2
        <4> QED BY <1>4, <4>1 DEF ContractedFigure
      <3>5. JobServesLiveWork'
        <4> SUFFICES ASSUME NEW i \in Jobs, jobs'[i] = "contracted"
                     PROVE  \E x \in Docs : jobOf'[x] = i /\ Live(x)'
            BY DEF JobServesLiveWork, OnJob
        <4>1. PICK x \in Docs : jobOf[x] = i /\ Live(x)
              BY <3>2 DEF Work, JobServesLiveWork, OnJob
        <4> QED BY <1>5, <3>2, <4>1
      <3> QED BY <3>3, <3>4, <3>5 DEF Work
    <2> QED BY <1>2, <2>1, <2>2
  <1>9. IInv' BY UndoWriteIInv
  <1> QED BY <1>6, <1>7, <1>8, <1>9

LEMMA StepSerial == OneAtATime /\ Serial /\ [Next]_vars => Serial'
  <1> SUFFICES ASSUME OneAtATime, Serial, [Next]_vars PROVE Serial'
      OBVIOUS
  <1>1. ASSUME NEW k \in Drafts, NEW d \in Docs, Issue(k, d) \/ RaiseChangeOrder(d, k) PROVE Serial'
        BY <1>1, DocumentSerial, RaiseSerial
  <1>2. ASSUME NEW d \in Docs, NEW e \in Docs, Revise(e, d) PROVE Serial'
    <2>1. draftOf[e] \in Drafts
          BY <1>2 DEF Revise, Issued, Serial, IInv, TypeOK
    <2> QED BY <1>2, <2>1, DocumentSerial
  <1>3. ASSUME NEW d \in Docs, Terms(d) \/ Sign(d, "customer") \/ Sign(d, "office") PROVE Serial'
        BY <1>3, TermsSerial, SignSerial
  <1>4. ASSUME NEW d \in Docs, NEW w \in Workers,
               CreateJobRead(w, d) \/ VoidRead(w, d) \/ UndoRead(w, d) \/ PayRead(w, d) PROVE Serial'
        BY <1>4, CreateJobReadSerial, VoidReadSerial, UndoReadSerial, PayReadSerial
  <1>5. ASSUME NEW j \in Jobs, EndJob(j) PROVE Serial'
        BY <1>5, EndJobSerial
  <1>6. ASSUME NEW j \in Jobs, NEW w \in Workers, MintJob(w, j) PROVE Serial'
        BY <1>6, MintSerial
  <1>7. ASSUME NEW w \in Workers,
               JoinJob(w) \/ VoidCancelsJob(w) \/ VoidWrite(w) \/ UndoWrite(w) \/ Crash(w) PROVE Serial'
        BY <1>7, JoinSerial, VoidCancelsSerial, VoidWriteSerial, UndoSerial, CrashSerial
  <1>8. ASSUME NEW w \in Workers, NEW p \in Payments, PayWrite(w, p) PROVE Serial'
        BY <1>8, PayWriteSerial
  <1>9. ASSUME NEW p \in Payments, VoidPayment(p) PROVE Serial'
        BY <1>9, VoidPaymentSerial
  <1>10. CASE UNCHANGED vars
    <2>1. UNCHANGED <<documents, agreement, work, payments, request>>
          BY <1>10 DEF vars
    <2>2. Reads'
          BY <2>1 DEF Serial, Reads, Holds, HoldsJoin, HoldsMint, HoldsVoid, HoldsUndo, HoldsShare, HoldsPay,
             Live, To, OnJob, Apart, Issued, documents, agreement, work, payments
    <2> QED BY <1>10, <2>1, <2>2, ReadSerial, StepIInv DEF Serial
  <1> QED BY <1>1, <1>2, <1>3, <1>4, <1>5, <1>6, <1>7, <1>8, <1>9, <1>10 DEF Next

LEMMA SerialInvariance == ASSUME OneAtATime PROVE Spec => []Serial
  BY InitSerial, StepSerial, PTL DEF Spec

(* Money that was not taken back is on the document its invoice is read    *)
(* at, after any number of revisions, take-overs, voids and undone         *)
(* acceptances: it is never on a document that was taken over, and only on *)
(* a change order when that stands alone.                                  *)
THEOREM MoneyFound == ASSUME OneAtATime PROVE Spec => []MoneyFollowsInvoice
  <1>1. Serial => MoneyFollowsInvoice
    <2> SUFFICES ASSUME Serial, NEW p \in Payments, money[p] = "paid", signed[on[p]] # "no",
                        voided[on[p]] => on[p] \in replaced
                 PROVE  \E root \in Root(on[p]) : on[p] \in {root} \cup Counted(root)
        BY DEF MoneyFollowsInvoice
    <2>1. PICK x \in Docs : x = on[p] /\ x \notin replaced /\ Apart(x)
          BY DEF Serial, Paper, Kept
    <2>2. Live(x)
          BY <2>1 DEF Live
    <2>3. Up(x) = x
          BY <2>1 DEF Up, Apart
    <2>4. Newer(x) = {}
          BY <2>2 DEF Newer, Serial, Paper, Retired
    <2>5. Root(x) = {x}
          BY <2>3, <2>4 DEF Root
    <2> QED BY <2>1, <2>5
  <1> QED BY <1>1, SerialInvariance, PTL

(* The figure a job is contracted for is the sum of the signed documents   *)
(* it serves, each once, wherever a request died.                          *)
THEOREM FigureAgrees == ASSUME OneAtATime PROVE Spec => []ContractedFigure
  <1>1. Serial => ContractedFigure BY DEF Serial, Work
  <1> QED BY <1>1, SerialInvariance, PTL

(* A job still to be done serves somebody's live agreement: what is void   *)
(* or taken back does not keep a job, and what gives a job up has an heir. *)
THEOREM JobsServe == ASSUME OneAtATime PROVE Spec => []JobServesLiveWork
  <1>1. Serial => JobServesLiveWork BY DEF Serial, Work
  <1> QED BY <1>1, SerialInvariance, PTL
=============================================================================
