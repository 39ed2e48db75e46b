------------------------ MODULE AlertReview_proofs ------------------------
(* Proofs about AlertReview: its types, that a row always names the one    *)
(* who reviewed it, and that reviews are orderly as long as none of them   *)
(* overwrites another unseen.                                              *)
EXTENDS AlertReview, TLAPS

(* A session that gives back its lock holds none, and the other sessions   *)
(* keep theirs.                                                            *)
LEMMA ReleasedTyped ==
    ASSUME TypeOK, NEW s \in Sessions
    PROVE  /\ Released(s) \in [Alerts -> Sessions \cup {None}]
           /\ \A a \in Alerts : Released(s)[a] # s
           /\ \A t \in Sessions, a \in Alerts :
                 t # s => (Released(s)[a] = t <=> rowLock[a] = t)
  BY NoneAssumption DEF TypeOK, Released

(* The rows a session can leave: well-formed, reviewed, and with the       *)
(* status asked for.                                                       *)
LEMMA UpdatedTyped ==
    ASSUME TypeOK, NEW s \in Sessions, pc[s] # "idle",
           row[req[s].alert] # None, seen[s] # None
    PROVE  /\ req[s].alert \in Alerts
           /\ req[s].by \in Users
           /\ req[s].status \in Reviewable
           /\ Updated(s) \in Row
           /\ Updated(s).status = req[s].status
           /\ Updated(s).by =
                 IF req[s].by = seen[s].by THEN row[req[s].alert].by ELSE req[s].by
  <1>1. req[s] \in Review
    BY DEF TypeOK
  <1>2. req[s].alert \in Alerts /\ req[s].by \in Users /\ req[s].status \in Reviewable
    BY <1>1 DEF Review
  <1>3. row[req[s].alert] \in Row
    BY <1>2 DEF TypeOK
  <1>4. row[req[s].alert].by \in Users \cup {System, None}
    BY <1>3 DEF Row
  <1>5. Reviewable \subseteq Statuses
    BY DEF Reviewable, Statuses
  <1> QED
    BY <1>2, <1>4, <1>5 DEF Updated, Row

(* What a session in the middle of a review may rely on: the row it has    *)
(* read is still there, and a reviewed row has stayed reviewed.  Past the  *)
(* UPDATE, the transition was allowed for the row it has read.             *)
Reads(s) ==
    seen[s] # None =>
        /\ row[req[s].alert] # None
        /\ seen[s].by # None => row[req[s].alert].by # None

SessionsSound ==
    \A s \in Sessions :
        /\ pc[s] # "idle" => Reads(s)
        /\ pc[s] \in Writing => CanReview(s)

IInv == TypeOK /\ RecordComplete /\ SessionsSound /\ AuditUnlessStale

LEMMA WriteTyped ==
    ASSUME IInv, NEW s \in Sessions, pc[s] \in Writing, Write(s)
    PROVE  /\ row' \in [Alerts -> Row \cup {None}]
           /\ author' \in [Alerts -> Users \cup {System, None}]
           /\ stale' \in [Alerts -> BOOLEAN]
           /\ req[s].alert \in Alerts
           /\ row'[req[s].alert] # None
           /\ row'[req[s].alert].by # None
           /\ row'[req[s].alert].status = req[s].status
           /\ req[s].status # "pending"
           /\ \A a \in Alerts : a # req[s].alert =>
                 /\ row'[a] = row[a]
                 /\ author'[a] = author[a]
                 /\ stale'[a] = stale[a]
           /\ ~stale'[req[s].alert] =>
                 /\ seen[s] = row[req[s].alert]
                 /\ row'[req[s].alert].by = author'[req[s].alert]
  <1> DEFINE al == req[s].alert
  <1>1. pc[s] # "idle"
    BY DEF Writing
  <1>2. CanReview(s) /\ Reads(s) /\ TypeOK
    BY <1>1 DEF IInv, SessionsSound
  <1>3. seen[s] # None /\ row[al] # None
    BY <1>2 DEF CanReview, Reads
  <1>4. /\ al \in Alerts /\ req[s].by \in Users /\ req[s].status \in Reviewable
        /\ Updated(s) \in Row
        /\ Updated(s).status = req[s].status
        /\ Updated(s).by = IF req[s].by = seen[s].by THEN row[al].by ELSE req[s].by
    BY <1>1, <1>2, <1>3, UpdatedTyped
  <1>5. /\ row' = [row EXCEPT ![al] = Updated(s)]
        /\ author' = [author EXCEPT ![al] = req[s].by]
        /\ stale' = [stale EXCEPT ![al] = stale[al] \/ seen[s] # row[al]]
    BY DEF Write
  <1>6. /\ row \in [Alerts -> Row \cup {None}]
        /\ author \in [Alerts -> Users \cup {System, None}]
        /\ stale \in [Alerts -> BOOLEAN]
    BY <1>2 DEF TypeOK
  <1>7. row'[al] = Updated(s) /\ author'[al] = req[s].by
        /\ (stale'[al] <=> stale[al] \/ seen[s] # row[al])
    BY <1>4, <1>5, <1>6
  <1>8. Updated(s) # None
    <2>1. Row = [status : {"pending", "escalated", "confirmed", "dismissed"},
                 by : Users \cup {System, None}]
      BY DEF Row, Statuses
    <2> QED
      BY <1>4, <2>1, NoneAssumption
  <1>9. Updated(s).by # None
    BY <1>2, <1>3, <1>4, NoneAssumption DEF Reads
  <1>10. ~stale'[al] => seen[s] = row[al] /\ row'[al].by = author'[al]
    BY <1>4, <1>7
  <1>11. req[s].status # "pending"
    BY <1>4 DEF Reviewable
  <1>12. \A a \in Alerts : a # al =>
            row'[a] = row[a] /\ author'[a] = author[a] /\ stale'[a] = stale[a]
    BY <1>5, <1>6
  <1>13. /\ row' \in [Alerts -> Row \cup {None}]
         /\ author' \in [Alerts -> Users \cup {System, None}]
         /\ stale' \in [Alerts -> BOOLEAN]
    BY <1>4, <1>5, <1>6
  <1> QED
    BY <1>4, <1>7, <1>8, <1>9, <1>10, <1>11, <1>12, <1>13

(* A session that ends: the others keep what they had.                     *)
LEMMA FinishTyped ==
    ASSUME TypeOK, NEW s \in Sessions, Finish(s)
    PROVE  /\ pc' \in [Sessions -> {"idle", "review"} \cup Writing]
           /\ req' \in [Sessions -> Review \cup {None}]
           /\ seen' \in [Sessions -> Row \cup {None}]
           /\ pc'[s] = "idle"
           /\ \A t \in Sessions : t # s =>
                 pc'[t] = pc[t] /\ req'[t] = req[t] /\ seen'[t] = seen[t]
  BY DEF TypeOK, Finish, Goto

(* A session ends and gives its lock back: types and locks survive.        *)
LEMMA EndLocks ==
    ASSUME TypeOK, NEW s \in Sessions, Finish(s), rowLock' = Released(s)
    PROVE  /\ rowLock' \in [Alerts -> Sessions \cup {None}]
           /\ \A t \in Sessions : pc'[t] # "idle" => req'[t] \in Review
           /\ \A t \in Sessions, a \in Alerts :
                 rowLock'[a] = t <=> pc'[t] \in Writing /\ req'[t].alert = a
  <1>1. /\ rowLock' \in [Alerts -> Sessions \cup {None}]
        /\ \A a \in Alerts : rowLock'[a] # s
        /\ \A t \in Sessions, a \in Alerts :
              t # s => (rowLock'[a] = t <=> rowLock[a] = t)
    BY ReleasedTyped
  <1>2. /\ pc'[s] = "idle"
        /\ \A t \in Sessions : t # s => pc'[t] = pc[t] /\ req'[t] = req[t]
    BY FinishTyped
  <1>3. /\ \A t \in Sessions : pc[t] # "idle" => req[t] \in Review
        /\ \A t \in Sessions, a \in Alerts :
              rowLock[a] = t <=> pc[t] \in Writing /\ req[t].alert = a
    BY DEF TypeOK
  <1>4. pc'[s] \notin Writing
    BY <1>2 DEF Writing
  <1> QED
    BY <1>1, <1>2, <1>3, <1>4

LEMMA InitInv == Init => IInv
  <1> SUFFICES ASSUME Init PROVE IInv
    OBVIOUS
  <1>1. TypeOK
    BY NoneAssumption, FaultsAssumption DEF Init, TypeOK, Writing
  <1> QED
    BY <1>1 DEF Init, IInv, RecordComplete, SessionsSound, AuditUnlessStale, Writing

(* The rows a review may be written to are untouched, sessions may move:   *)
(* enough for the parts of the invariant that are about rows.              *)
LEMMA RowsKept ==
    ASSUME IInv, UNCHANGED <<row, author, stale>>
    PROVE  RecordComplete' /\ AuditUnlessStale'
  BY DEF IInv, RecordComplete, AuditUnlessStale

(* A session that ends without having written.                             *)
LEMMA EndUnwritten ==
    ASSUME IInv, NEW s \in Sessions, Finish(s), rowLock' = Released(s),
           UNCHANGED <<row, author, stale>>, faults' \in Nat
    PROVE  IInv'
  <1>1. TypeOK
    BY DEF IInv
  <1>2. TypeOK'
    <2>1. /\ row' \in [Alerts -> Row \cup {None}]
          /\ author' \in [Alerts -> Users \cup {System, None}]
          /\ stale' \in [Alerts -> BOOLEAN]
      BY <1>1 DEF TypeOK
    <2> QED
      BY <1>1, <2>1, FinishTyped, EndLocks DEF TypeOK
  <1>3. SessionsSound'
    <2> SUFFICES ASSUME NEW t \in Sessions
                 PROVE  /\ pc'[t] # "idle" => Reads(t)'
                        /\ pc'[t] \in Writing => CanReview(t)'
      BY DEF SessionsSound
    <2>1. CASE t = s
      BY <1>1, <2>1, FinishTyped DEF Writing
    <2>2. CASE t # s
      <3>1. pc'[t] = pc[t] /\ req'[t] = req[t] /\ seen'[t] = seen[t]
        BY <1>1, <2>2, FinishTyped
      <3> QED
        BY <3>1 DEF IInv, SessionsSound, Reads, CanReview
    <2> QED
      BY <2>1, <2>2
  <1> QED
    BY <1>2, <1>3, RowsKept DEF IInv

(* A session that ends with its review committed.                          *)
LEMMA EndWritten ==
    ASSUME IInv, NEW s \in Sessions, pc[s] = "commit", Write(s), Finish(s),
           rowLock' = Released(s), faults' \in Nat
    PROVE  IInv'
  <1> DEFINE al == req[s].alert
  <1>1. TypeOK /\ pc[s] \in Writing
    BY DEF IInv, Writing
  <1>2. /\ row' \in [Alerts -> Row \cup {None}]
        /\ author' \in [Alerts -> Users \cup {System, None}]
        /\ stale' \in [Alerts -> BOOLEAN]
        /\ al \in Alerts
        /\ row'[al] # None
        /\ row'[al].by # None
        /\ row'[al].status = req[s].status
        /\ req[s].status # "pending"
        /\ \A a \in Alerts : a # al =>
              row'[a] = row[a] /\ author'[a] = author[a] /\ stale'[a] = stale[a]
        /\ ~stale'[al] => seen[s] = row[al] /\ row'[al].by = author'[al]
    BY <1>1, WriteTyped
  <1>3. TypeOK'
    BY <1>1, <1>2, FinishTyped, EndLocks DEF TypeOK
  <1>4. RecordComplete'
    <2> SUFFICES ASSUME NEW a \in Alerts, row'[a] # None
                 PROVE  row'[a].status = "pending" <=> row'[a].by = None
      BY DEF RecordComplete
    <2>1. CASE a = al
      BY <1>2, <2>1
    <2>2. CASE a # al
      BY <1>2, <2>2 DEF IInv, RecordComplete
    <2> QED
      BY <2>1, <2>2
  <1>5. AuditUnlessStale'
    <2> SUFFICES ASSUME NEW a \in Alerts, row'[a] # None, ~stale'[a]
                 PROVE  row'[a].by = author'[a]
      BY DEF AuditUnlessStale
    <2>1. CASE a = al
      BY <1>2, <2>1
    <2>2. CASE a # al
      BY <1>2, <2>2 DEF IInv, AuditUnlessStale
    <2> QED
      BY <2>1, <2>2
  <1>6. SessionsSound'
    <2> SUFFICES ASSUME NEW t \in Sessions
                 PROVE  /\ pc'[t] # "idle" => Reads(t)'
                        /\ pc'[t] \in Writing => CanReview(t)'
      BY DEF SessionsSound
    <2>1. CASE t = s
      BY <1>1, <2>1, FinishTyped DEF Writing
    <2>2. CASE t # s
      <3>1. pc'[t] = pc[t] /\ req'[t] = req[t] /\ seen'[t] = seen[t]
        BY <1>1, <2>2, FinishTyped
      <3>2. pc'[t] \in Writing => CanReview(t)'
        BY <3>1 DEF IInv, SessionsSound, CanReview
      <3>3. ASSUME pc'[t] # "idle" PROVE Reads(t)'
        <4>1. req[t].alert \in Alerts
          BY <1>1, <3>1, <3>3 DEF TypeOK, Review
        <4>2. Reads(t)
          BY <3>1, <3>3 DEF IInv, SessionsSound
        <4>3. CASE req[t].alert = al
          BY <1>2, <3>1, <4>3 DEF Reads
        <4>4. CASE req[t].alert # al
          BY <1>2, <3>1, <4>1, <4>2, <4>4 DEF Reads
        <4> QED
          BY <4>3, <4>4
      <3> QED
        BY <3>2, <3>3
    <2> QED
      BY <2>1, <2>2
  <1> QED
    BY <1>3, <1>4, <1>5, <1>6 DEF IInv

(* An evaluation creates an alert that no session can have seen.           *)
LEMMA CreateInv ==
    ASSUME IInv, NEW al \in Alerts, CreateAlert(al)
    PROVE  IInv'
  <1>1. TypeOK
    BY DEF IInv
  <1>2. /\ row[al] = None
        /\ UNCHANGED <<rowLock, pc, req, seen, stale, faults>>
    BY DEF CreateAlert
  <1>3. PICK r \in Created :
           /\ row' = [row EXCEPT ![al] = r]
           /\ author' = [author EXCEPT ![al] = r.by]
    BY DEF CreateAlert
  <1>4. r \in Row /\ (r.status = "pending" <=> r.by = None)
    BY <1>3, NoneAssumption DEF Created, Row, Statuses
  <1>5. /\ row' \in [Alerts -> Row \cup {None}]
        /\ author' \in [Alerts -> Users \cup {System, None}]
        /\ row'[al] = r /\ author'[al] = r.by
        /\ \A a \in Alerts : a # al => row'[a] = row[a] /\ author'[a] = author[a]
    BY <1>1, <1>3, <1>4 DEF TypeOK, Row
  <1>6. TypeOK'
    BY <1>1, <1>2, <1>5 DEF TypeOK
  <1>7. RecordComplete'
    BY <1>4, <1>5 DEF IInv, RecordComplete
  <1>8. AuditUnlessStale'
    BY <1>2, <1>5 DEF IInv, AuditUnlessStale
  <1>9. SessionsSound'
    <2> SUFFICES ASSUME NEW s \in Sessions
                 PROVE  /\ pc'[s] # "idle" => Reads(s)'
                        /\ pc'[s] \in Writing => CanReview(s)'
      BY DEF SessionsSound
    <2>1. pc'[s] \in Writing => CanReview(s)'
      BY <1>2 DEF IInv, SessionsSound, CanReview
    <2>2. ASSUME pc'[s] # "idle" PROVE Reads(s)'
      <3>1. Reads(s) /\ req[s].alert \in Alerts
        BY <1>1, <1>2, <2>2 DEF IInv, SessionsSound, TypeOK, Review
      <3> QED
        BY <1>2, <1>5, <3>1 DEF Reads
    <2> QED
      BY <2>1, <2>2
  <1> QED
    BY <1>6, <1>7, <1>8, <1>9 DEF IInv

LEMMA ReadInv ==
    ASSUME IInv, NEW s \in Sessions, ReadAlert(s)
    PROVE  IInv'
  <1>1. TypeOK
    BY DEF IInv
  <1>2. /\ pc[s] = "idle"
        /\ pc' = [pc EXCEPT ![s] = "review"]
        /\ UNCHANGED <<row, rowLock, author, stale, faults>>
    BY DEF ReadAlert, Goto
  <1>3. PICK r \in Review :
           /\ req' = [req EXCEPT ![s] = r]
           /\ seen' = [seen EXCEPT ![s] = row[r.alert]]
    BY DEF ReadAlert
  <1>4. r.alert \in Alerts /\ row[r.alert] \in Row \cup {None}
    BY <1>1, <1>3 DEF Review, TypeOK
  <1>5. /\ pc' \in [Sessions -> {"idle", "review"} \cup Writing]
        /\ req' \in [Sessions -> Review \cup {None}]
        /\ seen' \in [Sessions -> Row \cup {None}]
        /\ pc'[s] = "review" /\ req'[s] = r /\ seen'[s] = row[r.alert]
        /\ \A t \in Sessions : t # s =>
              pc'[t] = pc[t] /\ req'[t] = req[t] /\ seen'[t] = seen[t]
    BY <1>1, <1>2, <1>3, <1>4 DEF TypeOK
  <1>6. TypeOK'
    <2>1. \A t \in Sessions : pc'[t] # "idle" => req'[t] \in Review
      BY <1>1, <1>5 DEF TypeOK
    <2>2. \A t \in Sessions, a \in Alerts :
             rowLock'[a] = t <=> pc'[t] \in Writing /\ req'[t].alert = a
      BY <1>1, <1>2, <1>5 DEF TypeOK, Writing
    <2> QED
      BY <1>1, <1>2, <1>5, <2>1, <2>2 DEF TypeOK
  <1>7. SessionsSound'
    <2> SUFFICES ASSUME NEW t \in Sessions
                 PROVE  /\ pc'[t] # "idle" => Reads(t)'
                        /\ pc'[t] \in Writing => CanReview(t)'
      BY DEF SessionsSound
    <2>1. CASE t = s
      BY <1>2, <1>5, <2>1 DEF Reads, Writing
    <2>2. CASE t # s
      BY <1>2, <1>5, <2>2 DEF IInv, SessionsSound, Reads, CanReview
    <2> QED
      BY <2>1, <2>2
  <1> QED
    BY <1>2, <1>6, <1>7, RowsKept DEF IInv

LEMMA UpdateInv ==
    ASSUME IInv, NEW s \in Sessions, Update(s)
    PROVE  IInv'
  <1> DEFINE al == req[s].alert
  <1>1. TypeOK
    BY DEF IInv
  <1>2. /\ pc[s] = "review" /\ CanReview(s) /\ rowLock[al] = None
        /\ pc' = [pc EXCEPT ![s] = "answer"]
        /\ rowLock' = [rowLock EXCEPT ![al] = s]
        /\ UNCHANGED <<row, req, seen, author, stale, faults>>
    BY DEF Update, Goto
  <1>3. al \in Alerts
    BY <1>1, <1>2 DEF TypeOK, Review
  <1>4. /\ pc' \in [Sessions -> {"idle", "review"} \cup Writing]
        /\ rowLock' \in [Alerts -> Sessions \cup {None}]
        /\ pc'[s] = "answer" /\ rowLock'[al] = s
        /\ \A t \in Sessions : t # s => pc'[t] = pc[t]
        /\ \A a \in Alerts : a # al => rowLock'[a] = rowLock[a]
    BY <1>1, <1>2, <1>3 DEF TypeOK, Writing
  <1>5. TypeOK'
    <2>1. ASSUME NEW t \in Sessions, NEW a \in Alerts
          PROVE  rowLock'[a] = t <=> pc'[t] \in Writing /\ req'[t].alert = a
      <3>1. rowLock[a] = t <=> pc[t] \in Writing /\ req[t].alert = a
        BY <1>1 DEF TypeOK
      <3>2. pc[s] \notin Writing /\ pc'[s] \in Writing
        BY <1>2, <1>4 DEF Writing
      <3>3. CASE t = s
        <4>1. rowLock[a] # s
          BY <1>1, <3>2 DEF TypeOK
        <4> QED
          BY <1>2, <1>3, <1>4, <3>2, <3>3, <4>1
      <3>4. CASE t # s /\ a = al
        <4>1. rowLock[a] # t
          BY <1>2, <3>4, NoneAssumption
        <4> QED
          BY <1>2, <1>4, <3>1, <3>4, <4>1
      <3>5. CASE t # s /\ a # al
        BY <1>2, <1>4, <3>1, <3>5
      <3> QED
        BY <3>3, <3>4, <3>5
    <2>2. \A t \in Sessions : pc'[t] # "idle" => req'[t] \in Review
      BY <1>1, <1>2, <1>4 DEF TypeOK
    <2> QED
      BY <1>1, <1>2, <1>4, <2>1, <2>2 DEF TypeOK
  <1>6. SessionsSound'
    <2> SUFFICES ASSUME NEW t \in Sessions
                 PROVE  /\ pc'[t] # "idle" => Reads(t)'
                        /\ pc'[t] \in Writing => CanReview(t)'
      BY DEF SessionsSound
    <2>1. CASE t = s
      BY <1>2, <1>4, <2>1 DEF IInv, SessionsSound, Reads, CanReview
    <2>2. CASE t # s
      BY <1>2, <1>4, <2>2 DEF IInv, SessionsSound, Reads, CanReview
    <2> QED
      BY <2>1, <2>2
  <1> QED
    BY <1>2, <1>5, <1>6, RowsKept DEF IInv

LEMMA AnswerInv ==
    ASSUME IInv, NEW s \in Sessions, Answer(s)
    PROVE  IInv'
  <1>1. TypeOK
    BY DEF IInv
  <1>2. /\ pc[s] = "answer"
        /\ pc' = [pc EXCEPT ![s] = "commit"]
        /\ UNCHANGED <<row, rowLock, req, seen, author, stale, faults>>
    BY DEF Answer, Goto
  <1>3. /\ pc' \in [Sessions -> {"idle", "review"} \cup Writing]
        /\ pc'[s] \in Writing /\ pc[s] \in Writing
        /\ pc[s] # "idle"
        /\ \A t \in Sessions : t # s => pc'[t] = pc[t]
    BY <1>1, <1>2 DEF TypeOK, Writing
  <1>4. TypeOK'
    BY <1>1, <1>2, <1>3 DEF TypeOK
  <1>5. SessionsSound'
    BY <1>2, <1>3 DEF IInv, SessionsSound, Reads, CanReview
  <1> QED
    BY <1>2, <1>4, <1>5, RowsKept DEF IInv

LEMMA NextInv == IInv /\ [Next]_vars => IInv'
  <1> SUFFICES ASSUME IInv, [Next]_vars PROVE IInv'
    OBVIOUS
  <1>0. TypeOK
    BY DEF IInv
  <1>1. ASSUME NEW a \in Alerts, CreateAlert(a) PROVE IInv'
    BY <1>1, CreateInv
  <1>2. ASSUME NEW s \in Sessions, ReadAlert(s) PROVE IInv'
    BY <1>2, ReadInv
  <1>3. ASSUME NEW s \in Sessions, Refuse(s) PROVE IInv'
    <2>1. pc[s] \notin Writing
      BY <1>3 DEF Refuse, Writing
    <2>2. rowLock = Released(s)
      BY <1>0, <2>1 DEF TypeOK, Released
    <2>3. faults' \in Nat
      BY <1>0, <1>3 DEF TypeOK, Refuse
    <2> QED
      BY <1>3, <2>2, <2>3, EndUnwritten DEF Refuse
  <1>4. ASSUME NEW s \in Sessions, Update(s) PROVE IInv'
    BY <1>4, UpdateInv
  <1>5. ASSUME NEW s \in Sessions, Answer(s) PROVE IInv'
    BY <1>5, AnswerInv
  <1>6. ASSUME NEW s \in Sessions, Commit(s) PROVE IInv'
    <2>1. faults' \in Nat
      BY <1>0, <1>6 DEF TypeOK, Commit
    <2> QED
      BY <1>6, <2>1, EndWritten DEF Commit
  <1>7. ASSUME NEW s \in Sessions, Abort(s) PROVE IInv'
    <2>1. faults' \in Nat
      BY <1>0, <1>7 DEF TypeOK, Abort, Fault
    <2> QED
      BY <1>7, <2>1, EndUnwritten DEF Abort
  <1>8. ASSUME NEW s \in Sessions, CommitError(s) PROVE IInv'
    <2>1. faults' \in Nat
      BY <1>0, <1>8 DEF TypeOK, CommitError, Fault
    <2> QED
      BY <1>8, <2>1, EndWritten, EndUnwritten DEF CommitError
  <1>9. CASE UNCHANGED vars
    BY <1>9 DEF vars, IInv, TypeOK, RecordComplete, SessionsSound, Reads,
                CanReview, AuditUnlessStale, Writing
  <1> QED
    BY <1>1, <1>2, <1>3, <1>4, <1>5, <1>6, <1>7, <1>8, <1>9 DEF Next, Turn

LEMMA Inductive == Spec => []IInv
  BY InitInv, NextInv, PTL DEF Spec

-----------------------------------------------------------------------------
(* The types of AlertReview, and that a row is locked exactly by the       *)
(* session between its UPDATE and the end of its transaction.              *)
THEOREM ReviewTypes == Spec => []TypeOK
  BY Inductive, PTL DEF IInv

(* However reviews race and fail, a row has a reviewer exactly when it is  *)
(* no longer pending (alert_repository.py:107-113).                        *)
THEOREM ReviewsComplete == Spec => []RecordComplete
  BY Inductive, PTL DEF IInv

(* Without overwriting an unseen review, the row names the person who gave *)
(* it its status (alert_service.py:71-84).                                 *)
THEOREM AuditSound == Spec => []AuditUnlessStale
  BY Inductive, PTL DEF IInv

(* A committed review that has not overwritten an unseen one has moved its *)
(* alert forward.                                                          *)
LEMMA WriteForward ==
    ASSUME IInv, NEW s \in Sessions, pc[s] = "commit", Write(s),
           NEW a \in Alerts, row[a] # None, row'[a] # row[a], ~stale'[a]
    PROVE  Rank[row[a].status] < Rank[row'[a].status]
  <1> DEFINE al == req[s].alert
  <1>1. pc[s] \in Writing /\ TypeOK
    BY DEF Writing, IInv
  <1>2. /\ al \in Alerts
        /\ row'[al].status = req[s].status
        /\ \A b \in Alerts : b # al => row'[b] = row[b]
        /\ ~stale'[al] => seen[s] = row[al]
    BY <1>1, WriteTyped
  <1>3. a = al /\ seen[s] = row[a]
    BY <1>2
  <1>4. CanReview(s)
    BY <1>1 DEF IInv, SessionsSound
  <1>5. row[a].status \in Statuses
    BY <1>1 DEF TypeOK, Row
  <1>6. req[s].status \in Allowed[row[a].status]
    BY <1>3, <1>4 DEF CanReview
  <1>7. \A old \in Statuses : \A new \in Allowed[old] : Rank[old] < Rank[new]
    BY DEF Statuses, Allowed, Reviewable, Rank
  <1> QED
    BY <1>2, <1>3, <1>5, <1>6, <1>7

(* Only a review that overwrites one its author has not seen can move an   *)
(* alert back or decide it again (alert_state.py:69-116).                  *)
THEOREM ReviewsMoveForward == Spec => ForwardUnlessStale
  <1> DEFINE A == \A a \in Alerts :
                     row[a] # None /\ row'[a] # row[a] /\ ~stale'[a] =>
                         Rank[row[a].status] < Rank[row'[a].status]
  <1>1. IInv /\ [Next]_vars => [A]_vars
    <2> SUFFICES ASSUME IInv, Next,
                        NEW a \in Alerts, row[a] # None, row'[a] # row[a], ~stale'[a]
                 PROVE  Rank[row[a].status] < Rank[row'[a].status]
      OBVIOUS
    <2>1. ASSUME NEW b \in Alerts, CreateAlert(b) PROVE FALSE
      BY <2>1 DEF CreateAlert, IInv, TypeOK
    <2>2. ASSUME NEW s \in Sessions,
                 ReadAlert(s) \/ Refuse(s) \/ Update(s) \/ Answer(s) \/ Abort(s)
          PROVE  FALSE
      BY <2>2 DEF ReadAlert, Refuse, Update, Answer, Abort
    <2>3. ASSUME NEW s \in Sessions, Commit(s) \/ CommitError(s)
          PROVE  Rank[row[a].status] < Rank[row'[a].status]
      <3>1. pc[s] = "commit" /\ Write(s)
        BY <2>3 DEF Commit, CommitError
      <3> QED
        BY <3>1, WriteForward
    <2> QED
      BY <2>1, <2>2, <2>3 DEF Next, Turn
  <1> QED
    BY <1>1, Inductive, PTL DEF Spec, ForwardUnlessStale

=============================================================================
