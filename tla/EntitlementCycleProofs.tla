------------------------ MODULE EntitlementCycleProofs -------------------------
(***************************************************************************)
(* What the cycles of the worker keep true, for every set of entitlements, *)
(* users and requests at once and any number of levels and confirmations.  *)
(*                                                                         *)
(* The first part lists what each step of a coroutine does to it and to    *)
(* the tables; the invariants follow, from those about who is at work to   *)
(* those about requests, the inventory, the state file and MidPoint.       *)
(***************************************************************************)
EXTENDS EntitlementProofs

-----------------------------------------------------------------------------
(* What the steps of a coroutine do *)

Over == {"idle", "done", "failed"}

Alone1(h)   == \A g \in Handlers : g # h => co'[g] = co[g]
SameJob(h)  == co'[h].job = co[h].job /\ co'[h].caller = co[h].caller
SameTask(h) == SameJob(h) /\ co'[h].items = co[h].items /\ co'[h].quiet = co[h].quiet
\* The call is answered, with success if ok.
Ends(h, ok) ==
    /\ co'[h].job = "none" /\ co'[h].caller = co[h].caller
    /\ co'[h].pc = IF co[h].caller = "people" THEN "idle" ELSE IF ok THEN "done" ELSE "failed"

\* A step writes no more than the token, the level and the status of rows in
\* use, and makes no request pending.
KeptRows ==
    \A r \in Requests : /\ req'[r].key = req[r].key
                        /\ req'[r].status = "NONE" <=> req[r].status = "NONE"
                        /\ req'[r].status = "PENDING" => req[r].status = "PENDING"
OtherRows(r) == \A q \in Requests : q # r => req'[q] = req[q]

LEMMA AnswerEnds ==
    ASSUME CoTyped, NEW h \in Handlers, NEW ok \in BOOLEAN, Answer(h, ok)
    PROVE  Ends(h, ok) /\ Alone1(h)
<1>1. co[h] \in Coroutines /\ co \in [Handlers -> Coroutines]
  BY DEF CoTyped
<1>2. co'[h] = Reply(co[h], ok) /\ Alone1(h)
  BY <1>1 DEF Answer, Becomes, Alone1
<1>3. co[h].caller \in Callers
  BY <1>1 DEF Coroutines
<1>4. \A p \in {"done", "failed"}, w \in Callers :
          LET d == [Idle EXCEPT !.caller = w, !.pc = p] IN
          d.job = "none" /\ d.caller = w /\ d.pc = p
  BY DEF Idle
<1>5. Idle.job = "none" /\ Idle.pc = "idle" /\ Idle.caller = "people"
  BY DEF Idle
<1> QED
  BY <1>2, <1>3, <1>4, <1>5 DEF Reply, Ends

LEMMA GotoDoes ==
    ASSUME CoTyped, NEW h \in Handlers, NEW p \in Steps, Goto(h, p)
    PROVE  /\ co'[h].pc = p /\ SameTask(h) /\ Alone1(h)
           /\ co'[h].r = co[h].r /\ co'[h].k = co[h].k /\ co'[h].todo = co[h].todo
           /\ co'[h].users = co[h].users /\ co'[h].affected = co[h].affected
           /\ co'[h].level = co[h].level /\ co'[h].yes = co[h].yes
<1>1. co[h] \in Coroutines /\ co \in [Handlers -> Coroutines]
  BY DEF CoTyped
<1>2. co'[h] = [co[h] EXCEPT !.pc = p] /\ Alone1(h)
  BY <1>1 DEF Goto, Becomes, Alone1
<1> QED
  BY <1>1, <1>2 DEF Coroutines, SameTask, SameJob

\* Where a coroutine is, and what it holds there.
LEMMA CoHas ==
    ASSUME ApiTyped, NEW h \in Handlers
    PROVE  /\ co[h] \in Coroutines /\ StepTyped(co[h])
           /\ co[h].job \in Jobs /\ co[h].pc \in Steps /\ co[h].caller \in Callers
           /\ co[h].pc \in {"exclude", "forget", "items", "cancel", "missing"} => co[h].job = "reconcile"
           /\ co[h].pc = "create" => co[h].job \in {"reconcile", "legacy"}
           /\ co[h].pc = "migrate" => co[h].job = "legacy"
           /\ co[h].pc \in {"clear", "record"} => co[h].job = "decide"
           /\ co[h].pc \in OwnSteps => co[h].job \in {"decide", "renew", "reconcile", "legacy"}
           /\ co[h].pc \in {"list", "unassign", "dropRole"} => co[h].job \in {"reconcile", "execute"}
           /\ co[h].pc \in {"pick", "orphans", "askDelete", "shadows", "complete", "fail"}
                 => co[h].job = "execute"
           /\ co[h].pc \in Over => co[h].job = "none"
           /\ co[h].job = "none" => co[h].pc \in Over
           /\ co[h].job \in {"reconcile", "legacy"} => co[h].todo \subseteq Keys
           /\ co[h].job = "execute" => co[h].todo \subseteq Requests
<1>1. co[h] \in Coroutines /\ StepTyped(co[h])
  BY CoOf DEF ApiTyped
<1>2. co[h].job \in Jobs /\ co[h].pc \in Steps /\ co[h].caller \in Callers
  BY <1>1 DEF Coroutines
<1> QED
  BY <1>1, <1>2 DEF StepTyped, Jobs, OwnSteps, Over

LEMMA ClearLinkDoes ==
    ASSUME ApiTyped, NEW h \in Handlers, ClearLink(h)
    PROVE  /\ co[h].pc = "clear" /\ co'[h].pc = "record" /\ SameTask(h) /\ Alone1(h)
           /\ co'[h].r = co[h].r /\ co[h].r \in Requests
           /\ KeptRows /\ OtherRows(co[h].r)
           /\ req'[co[h].r].status = req[co[h].r].status /\ req'[co[h].r].token = 0
           /\ UNCHANGED <<inventory, link, midpoint, deletions, world, history>>
<1>1. co[h].pc = "clear" /\ co[h].r \in Requests
  BY RequestOf DEF ClearLink, At, ApiTyped, OwnSteps
<1>2. req' = [req EXCEPT ![co[h].r].token = 0] /\ 0 \in 0..MaxLinks
  BY RemovalAssumption DEF ClearLink
<1>3. req \in [Requests -> RequestRows]
  BY DEF ApiTyped, RowsTyped
<1>4. \A q \in Requests : q # co[h].r => req'[q] = req[q]
  BY <1>2, <1>3
<1>5. req'[co[h].r] = [req[co[h].r] EXCEPT !.token = 0] /\ req[co[h].r] \in RequestRows
  BY <1>1, <1>2, <1>3
<1>6. /\ req'[co[h].r].status = req[co[h].r].status /\ req'[co[h].r].token = 0
      /\ req'[co[h].r].key = req[co[h].r].key
  BY <1>5 DEF RequestRows
<1>7. /\ co'[h].pc = "record" /\ SameTask(h) /\ Alone1(h) /\ co'[h].r = co[h].r
  BY GotoDoes DEF ClearLink, ApiTyped, Steps
<1> QED
  BY <1>1, <1>4, <1>6, <1>7 DEF ClearLink, KeptRows, OtherRows

LEMMA StatusWrite ==
    ASSUME ApiTyped, NEW r \in Requests, NEW s, req' = [req EXCEPT ![r].status = s]
    PROVE  /\ req'[r].status = s /\ req'[r].token = req[r].token /\ req'[r].key = req[r].key
           /\ OtherRows(r)
<1>1. req \in [Requests -> RequestRows] /\ req[r] \in RequestRows
  BY DEF ApiTyped, RowsTyped
<1>2. req'[r] = [req[r] EXCEPT !.status = s]
  BY <1>1
<1>3. OtherRows(r)
  BY <1>1 DEF OtherRows
<1> QED
  BY <1>1, <1>2, <1>3 DEF RequestRows

LEMMA CancelWrite ==
    ASSUME ApiTyped, NEW r \in Requests,
           req' = [req EXCEPT ![r].status = "CANCELLED", ![r].token = 0]
    PROVE  /\ req'[r].status = "CANCELLED" /\ req'[r].token = 0 /\ req'[r].key = req[r].key
           /\ OtherRows(r)
<1>1. req \in [Requests -> RequestRows] /\ req[r] \in RequestRows
  BY DEF ApiTyped, RowsTyped
<1>2. req'[r] = [req[r] EXCEPT !.status = "CANCELLED", !.token = 0]
  BY <1>1
<1>3. OtherRows(r)
  BY <1>1 DEF OtherRows
<1> QED
  BY <1>1, <1>2, <1>3 DEF RequestRows

\* A step that writes one row in use, and does not make it pending.
LEMMA OneRow ==
    ASSUME NEW r \in Requests, OtherRows(r), req'[r].key = req[r].key,
           req'[r].status = "NONE" <=> req[r].status = "NONE",
           req'[r].status = "PENDING" => req[r].status = "PENDING"
    PROVE  KeptRows
  BY DEF KeptRows, OtherRows

LEMMA RecordDoes ==
    ASSUME ApiTyped, NEW h \in Handlers, Record(h), req[co[h].r].status # "NONE"
    PROVE  /\ co[h].pc = "record" /\ co[h].job = "decide" /\ co[h].r \in Requests
           /\ Alone1(h) /\ KeptRows /\ OtherRows(co[h].r)
           /\ req'[co[h].r].token = req[co[h].r].token
           /\ \/ Ends(h, TRUE) /\ req'[co[h].r].status \in {"KEPT", "APPROVED"}
              \/ /\ co'[h].pc = "sendRead" /\ SameTask(h) /\ co'[h].r = co[h].r
                 /\ req'[co[h].r].status = req[co[h].r].status
           /\ UNCHANGED <<inventory, link, midpoint, deletions, world, history>>
<1>1. co[h].pc = "record" /\ co[h].r \in Requests /\ co[h].job = "decide"
  BY RequestOf, CoHas DEF Record, At, ApiTyped, OwnSteps
<1>2. UNCHANGED <<inventory, link, midpoint, deletions, world, history>>
  BY DEF Record
<1>3. CASE req' = [req EXCEPT ![co[h].r].level = co[h].level + 1] /\ Goto(h, "sendRead")
  <2>2. req \in [Requests -> RequestRows] /\ req[co[h].r] \in RequestRows
    BY <1>1 DEF ApiTyped, RowsTyped
  <2>3. OtherRows(co[h].r)
    BY <1>3, <2>2 DEF OtherRows
  <2>4. req'[co[h].r] = [req[co[h].r] EXCEPT !.level = co[h].level + 1]
    BY <1>1, <1>3, <2>2
  <2>5. /\ req'[co[h].r].status = req[co[h].r].status /\ req'[co[h].r].key = req[co[h].r].key
        /\ req'[co[h].r].token = req[co[h].r].token
    BY <2>2, <2>4 DEF RequestRows
  <2>6. co'[h].pc = "sendRead" /\ SameTask(h) /\ Alone1(h) /\ co'[h].r = co[h].r
    BY <1>3, GotoDoes DEF ApiTyped, Steps
  <2> QED
    BY <1>1, <1>2, <2>3, <2>5, <2>6, OneRow
<1>4. CASE \E s \in {"KEPT", "APPROVED"} :
               req' = [req EXCEPT ![co[h].r].status = s] /\ Answer(h, TRUE)
  <2>1. PICK s \in {"KEPT", "APPROVED"} :
            req' = [req EXCEPT ![co[h].r].status = s] /\ Answer(h, TRUE)
    BY <1>4
  <2>2. Ends(h, TRUE) /\ Alone1(h)
    BY <2>1, AnswerEnds DEF ApiTyped
  <2>3. /\ req'[co[h].r].status = s /\ req'[co[h].r].token = req[co[h].r].token
        /\ req'[co[h].r].key = req[co[h].r].key /\ OtherRows(co[h].r)
    BY <1>1, <2>1, StatusWrite
  <2>4. KeptRows
    BY <1>1, <2>3, OneRow
  <2> QED
    BY <1>1, <1>2, <2>2, <2>3, <2>4
<1> QED
  BY <1>3, <1>4 DEF Record

LEMMA SendReadDoes ==
    ASSUME ApiTyped, NEW h \in Handlers, SendRead(h)
    PROVE  /\ co[h].pc = "sendRead" /\ co[h].r \in Requests
           /\ Alone1(h) /\ UNCHANGED <<tables, midpoint, deletions, world, history>>
           /\ \/ /\ req[co[h].r].status = "PENDING"
                 /\ co'[h].pc = "sendWrite" /\ SameTask(h) /\ co'[h].r = co[h].r
                 /\ co'[h].todo = co[h].todo
              \/ req[co[h].r].status # "PENDING" /\ Ends(h, FALSE)
<1>1. co[h].pc = "sendRead" /\ co[h].r \in Requests /\ co[h] \in Coroutines
  BY RequestOf, CoOf DEF SendRead, At, ApiTyped, OwnSteps
<1>2. CASE req[co[h].r].status = "PENDING"
  <2>1. Becomes(h, [co[h] EXCEPT !.pc = "sendWrite", !.level = req[co[h].r].level])
    BY <1>2 DEF SendRead
  <2> QED
    BY <1>1, <1>2, <2>1 DEF SendRead, ApiTyped, CoTyped, Becomes, Coroutines, SameTask, SameJob, Alone1
<1>3. CASE req[co[h].r].status # "PENDING"
  BY <1>1, <1>3, AnswerEnds DEF SendRead, Raise, ApiTyped
<1> QED
  BY <1>2, <1>3

LEMMA SendWriteDoes ==
    ASSUME ApiTyped, NEW h \in Handlers, SendWrite(h)
    PROVE  /\ co[h].pc = "sendWrite" /\ co[h].r \in Requests /\ Alone1(h)
           /\ KeptRows /\ OtherRows(co[h].r)
           /\ req'[co[h].r].status = req[co[h].r].status /\ req'[co[h].r].token # 0
           /\ Len(link') = Len(link) + 1 /\ \A t \in 1..Len(link) : link'[t] = link[t]
           /\ \/ /\ co[h].job = "reconcile" /\ co'[h].pc = "missing" /\ SameTask(h)
                 /\ co'[h].todo = co[h].todo
              \/ co[h].job = "legacy" /\ co'[h].pc = "migrate" /\ SameTask(h)
              \/ co[h].job \notin {"reconcile", "legacy"} /\ Ends(h, TRUE)
              \/ May("email") /\ Ends(h, FALSE)
           /\ ~May("email") => link'[Len(link')].sent
           /\ UNCHANGED <<inventory, midpoint, deletions, world, history>>
<1> DEFINE t == Len(link) + 1
<1>1. co[h].pc = "sendWrite" /\ co[h].r \in Requests
  BY RequestOf DEF SendWrite, At, ApiTyped, OwnSteps
<1>2. t \in 1..MaxLinks /\ t \in 0..MaxLinks /\ t # 0 /\ link \in Seq(Links) /\ Len(link) \in Nat
  BY RemovalAssumption DEF ApiTyped, LinksTyped, SendWrite
<1>3. req' = [req EXCEPT ![co[h].r].token = t] /\ req \in [Requests -> RequestRows]
  BY DEF SendWrite, ApiTyped, RowsTyped
<1>4. OtherRows(co[h].r) /\ req'[co[h].r] = [req[co[h].r] EXCEPT !.token = t]
  BY <1>1, <1>3 DEF OtherRows
<1>5. /\ req'[co[h].r].status = req[co[h].r].status /\ req'[co[h].r].key = req[co[h].r].key
      /\ req'[co[h].r].token = t
  BY <1>1, <1>3, <1>4 DEF RequestRows
<1>6. PICK sent \in {TRUE} \cup {~May("email")} :
          /\ link' = Append(link, [r |-> co[h].r, level |-> co[h].level, sent |-> sent])
          /\ CASE ~sent -> Raise(h)
               [] sent /\ co[h].job = "reconcile" -> Goto(h, "missing")
               [] sent /\ co[h].job = "legacy"    -> Goto(h, "migrate")
               [] OTHER -> Answer(h, TRUE)
  BY DEF SendWrite
<1>7. Len(link') = t /\ link'[t].sent = sent /\ \A i \in 1..Len(link) : link'[i] = link[i]
  <2> DEFINE l == [r |-> co[h].r, level |-> co[h].level, sent |-> sent]
  <2>1. l.sent = sent /\ link' = Append(link, l)
    BY <1>6
  <2> HIDE DEF l
  <2> QED
    BY <1>2, <2>1
<1>8. sent \in BOOLEAN /\ (~sent => May("email"))
  BY <1>6
<1>9. /\ Alone1(h)
      /\ \/ /\ co[h].job = "reconcile" /\ co'[h].pc = "missing" /\ SameTask(h)
            /\ co'[h].todo = co[h].todo
         \/ co[h].job = "legacy" /\ co'[h].pc = "migrate" /\ SameTask(h)
         \/ co[h].job \notin {"reconcile", "legacy"} /\ Ends(h, TRUE)
         \/ May("email") /\ Ends(h, FALSE)
  <2>1. CASE ~sent
    BY <1>6, <1>8, <2>1, AnswerEnds DEF Raise, ApiTyped
  <2>2. CASE sent /\ co[h].job = "reconcile"
    <3>1. Goto(h, "missing")
      BY <1>6, <2>2
    <3> QED
      BY <2>2, <3>1, GotoDoes DEF ApiTyped, Steps
  <2>3. CASE sent /\ co[h].job = "legacy"
    <3>1. Goto(h, "migrate")
      BY <1>6, <2>3
    <3> QED
      BY <2>3, <3>1, GotoDoes DEF ApiTyped, Steps
  <2>4. CASE sent /\ co[h].job \notin {"reconcile", "legacy"}
    <3>1. Answer(h, TRUE)
      BY <1>6, <2>4
    <3> QED
      BY <2>4, <3>1, AnswerEnds DEF ApiTyped
  <2> QED
    BY <1>8, <2>1, <2>2, <2>3, <2>4
<1>10. KeptRows
  BY <1>1, <1>4, <1>5, OneRow
<1>11. UNCHANGED <<inventory, midpoint, deletions, world, history>>
  BY DEF SendWrite
<1>12. ~May("email") => sent
  BY <1>8
<1> HIDE DEF t
<1> QED
  BY <1>1, <1>2, <1>4, <1>5, <1>7, <1>9, <1>10, <1>11, <1>12 DEF t

LEMMA ExcludeDoes ==
    ASSUME ApiTyped, NEW h \in Handlers, Exclude(h)
    PROVE  /\ co[h].pc = "exclude" /\ co[h].job = "reconcile" /\ SameTask(h) /\ Alone1(h)
           /\ UNCHANGED <<inventory, link, midpoint, deletions, world, history>>
           /\ \/ /\ co[h].todo = {} /\ co'[h].pc = "items" /\ co'[h].todo = co[h].items
                 /\ UNCHANGED req
              \/ \E k \in co[h].todo :
                 /\ k \in Keys /\ co'[h].pc = "list" /\ co'[h].k = k
                 /\ KeptRows /\ \A r \in Requests \ Of(k, "PENDING") : req'[r] = req[r]
                 /\ \A r \in Of(k, "PENDING") : req'[r].status = "CANCELLED"
<1>1. co[h].pc = "exclude" /\ co[h] \in Coroutines /\ co[h].job = "reconcile" /\ co[h].todo \subseteq Keys
  BY CoHas DEF Exclude, At
<1>2. UNCHANGED <<inventory, link, midpoint, deletions, world, history>>
  BY DEF Exclude
<1>3. CASE co[h].todo = {}
  <2>1. Becomes(h, [co[h] EXCEPT !.pc = "items", !.todo = co[h].items]) /\ UNCHANGED req
    BY <1>3 DEF Exclude
  <2>2. co'[h] = [co[h] EXCEPT !.pc = "items", !.todo = co[h].items] /\ Alone1(h)
    BY <2>1 DEF ApiTyped, CoTyped, Becomes, Alone1
  <2>3. /\ co'[h].pc = "items" /\ co'[h].todo = co[h].items /\ SameTask(h)
    BY <1>1, <2>2 DEF Coroutines, SameTask, SameJob
  <2> QED
    BY <1>1, <1>2, <1>3, <2>1, <2>2, <2>3
<1>4. CASE co[h].todo # {}
  <2>1. PICK k \in co[h].todo :
            /\ req' = [r \in Requests |-> IF r \in Of(k, "PENDING")
                          THEN [req[r] EXCEPT !.status = "CANCELLED", !.token = 0] ELSE req[r]]
            /\ Becomes(h, [co[h] EXCEPT !.pc = "list", !.k = k, !.todo = @ \ {k}])
    BY <1>4 DEF Exclude
  <2>2. co'[h] = [co[h] EXCEPT !.pc = "list", !.k = k, !.todo = @ \ {k}] /\ Alone1(h)
    BY <2>1 DEF ApiTyped, CoTyped, Becomes, Alone1
  <2>3. co'[h].pc = "list" /\ co'[h].k = k /\ SameTask(h) /\ k \in Keys
    BY <1>1, <2>2 DEF Coroutines, SameTask, SameJob
  <2>4. \A r \in Requests \ Of(k, "PENDING") : req'[r] = req[r]
    BY <2>1
  <2>5. \A r \in Of(k, "PENDING") : /\ req'[r].status = "CANCELLED" /\ req[r].status = "PENDING"
                                    /\ req'[r].key = req[r].key
    <3> SUFFICES ASSUME NEW r \in Of(k, "PENDING")
                 PROVE  /\ req'[r].status = "CANCELLED" /\ req[r].status = "PENDING"
                        /\ req'[r].key = req[r].key
      OBVIOUS
    <3>1. r \in Requests /\ req[r].status = "PENDING" /\ req[r] \in RequestRows
      BY DEF Of, ApiTyped, RowsTyped
    <3>2. req'[r] = [req[r] EXCEPT !.status = "CANCELLED", !.token = 0]
      BY <2>1, <3>1
    <3> QED
      BY <3>1, <3>2 DEF RequestRows
  <2>6. KeptRows
    BY <2>4, <2>5 DEF KeptRows
  <2> QED
    BY <1>1, <1>2, <2>2, <2>3, <2>4, <2>5, <2>6
<1> QED
  BY <1>3, <1>4

LEMMA ForgetDoes ==
    ASSUME ApiTyped, NEW h \in Handlers, Forget(h)
    PROVE  /\ co[h].pc = "forget" /\ co[h].job = "reconcile" /\ co'[h].pc = "exclude"
           /\ SameTask(h) /\ Alone1(h)
           /\ inventory' = [inventory EXCEPT ![co[h].k] = "none"]
           /\ UNCHANGED <<req, link, midpoint, deletions, world, history>>
<1>1. co[h].pc = "forget" /\ co[h].job = "reconcile"
  BY CoHas DEF Forget, At
<1> QED
  BY <1>1, GotoDoes DEF Forget, ApiTyped, Steps

LEMMA ItemsDoes ==
    ASSUME ApiTyped, NEW h \in Handlers, Items(h)
    PROVE  /\ co[h].pc = "items" /\ co[h].job = "reconcile" /\ SameTask(h) /\ Alone1(h)
           /\ UNCHANGED <<req, link, midpoint, deletions, world, history>>
           /\ \/ /\ co[h].todo = {} /\ co'[h].pc = "missing"
                 /\ co'[h].todo = Active \ co[h].items /\ UNCHANGED inventory
              \/ \E k \in co[h].todo :
                 /\ k \in Keys /\ inventory' = [inventory EXCEPT ![k] = "active"]
                 /\ co'[h].todo = co[h].todo \ {k}
                 /\ \/ co'[h].pc = "items"
                    \/ co'[h].pc = "cancel" /\ co'[h].r \in Of(k, "PENDING")
<1>1. co[h].pc = "items" /\ co[h] \in Coroutines /\ co[h].job = "reconcile" /\ co[h].todo \subseteq Keys
  BY CoHas DEF Items, At
<1>2. UNCHANGED <<req, link, midpoint, deletions, world, history>>
  BY DEF Items
<1>3. CASE co[h].todo = {}
  <2> DEFINE c == [co[h] EXCEPT !.pc = "missing", !.todo = Active \ co[h].items]
  <2>1. Becomes(h, c) /\ UNCHANGED inventory
    BY <1>3 DEF Items
  <2>2. co'[h] = c /\ Alone1(h)
    BY <2>1 DEF ApiTyped, CoTyped, Becomes, Alone1
  <2>3. /\ co'[h].pc = "missing" /\ co'[h].todo = Active \ co[h].items /\ SameTask(h)
    BY <1>1, <2>2 DEF Coroutines, SameTask, SameJob
  <2> QED
    BY <1>1, <1>2, <1>3, <2>1, <2>2, <2>3
<1>4. CASE co[h].todo # {}
  <2>1. PICK k \in co[h].todo :
            /\ inventory' = [inventory EXCEPT ![k] = "active"]
            /\ \/ Becomes(h, [co[h] EXCEPT !.todo = @ \ {k}])
               \/ \E r \in Of(k, "PENDING") :
                  Becomes(h, [co[h] EXCEPT !.pc = "cancel", !.r = r, !.todo = @ \ {k}])
    BY <1>4 DEF Items
  <2>2. CASE Becomes(h, [co[h] EXCEPT !.todo = @ \ {k}])
    <3>1. co'[h] = [co[h] EXCEPT !.todo = @ \ {k}] /\ Alone1(h)
      BY <2>2 DEF ApiTyped, CoTyped, Becomes, Alone1
    <3>2. co'[h].pc = "items" /\ co'[h].todo = co[h].todo \ {k} /\ SameTask(h)
      BY <1>1, <3>1 DEF Coroutines, SameTask, SameJob
    <3> QED
      BY <1>1, <1>2, <2>1, <3>1, <3>2
  <2>3. ASSUME NEW r \in Of(k, "PENDING"),
               Becomes(h, [co[h] EXCEPT !.pc = "cancel", !.r = r, !.todo = @ \ {k}])
        PROVE  /\ co'[h].pc = "cancel" /\ co'[h].todo = co[h].todo \ {k} /\ SameTask(h)
               /\ co'[h].r = r /\ Alone1(h)
    <3>1. co'[h] = [co[h] EXCEPT !.pc = "cancel", !.r = r, !.todo = @ \ {k}] /\ Alone1(h)
      BY <2>3 DEF ApiTyped, CoTyped, Becomes, Alone1
    <3> QED
      BY <1>1, <3>1 DEF Coroutines, SameTask, SameJob
  <2>4. CASE \E r \in Of(k, "PENDING") :
                 Becomes(h, [co[h] EXCEPT !.pc = "cancel", !.r = r, !.todo = @ \ {k}])
    <3>1. PICK r \in Of(k, "PENDING") :
              Becomes(h, [co[h] EXCEPT !.pc = "cancel", !.r = r, !.todo = @ \ {k}])
      BY <2>4
    <3>2. /\ co'[h].pc = "cancel" /\ co'[h].todo = co[h].todo \ {k} /\ SameTask(h)
          /\ co'[h].r = r /\ Alone1(h)
      BY <2>3, <3>1
    <3> QED
      BY <1>1, <1>2, <2>1, <3>2
  <2> QED
    BY <2>1, <2>2, <2>4
<1> QED
  BY <1>3, <1>4

LEMMA CancelDoes ==
    ASSUME ApiTyped, NEW h \in Handlers, Cancel(h), req[co[h].r].status # "NONE"
    PROVE  /\ co[h].pc = "cancel" /\ co[h].job = "reconcile" /\ co[h].r \in Requests
           /\ co'[h].pc = "items" /\ co'[h].todo = co[h].todo /\ SameTask(h) /\ Alone1(h)
           /\ KeptRows /\ OtherRows(co[h].r) /\ req'[co[h].r].status = "CANCELLED"
           /\ UNCHANGED <<inventory, link, midpoint, deletions, world, history>>
<1>1. co[h].pc = "cancel" /\ co[h].job = "reconcile" /\ co[h].r \in Requests
  BY CoHas, RequestOf DEF Cancel, At, ApiTyped
<1>2. /\ req'[co[h].r].status = "CANCELLED" /\ req'[co[h].r].key = req[co[h].r].key
      /\ OtherRows(co[h].r)
  BY <1>1, CancelWrite DEF Cancel
<1>3. KeptRows
  BY <1>1, <1>2, OneRow
<1> QED
  BY <1>1, <1>2, <1>3, GotoDoes DEF Cancel, ApiTyped, Steps

LEMMA MissingDoes ==
    ASSUME ApiTyped, NEW h \in Handlers, Missing(h)
    PROVE  /\ co[h].pc = "missing" /\ co[h].job = "reconcile" /\ Alone1(h)
           /\ UNCHANGED <<req, link, midpoint, deletions, world, history>>
           /\ \/ co[h].todo = {} /\ Ends(h, TRUE) /\ UNCHANGED inventory
              \/ \E k \in co[h].todo :
                 /\ k \in Keys /\ inventory' = [inventory EXCEPT ![k] = "missing"]
                 /\ SameTask(h) /\ co'[h].k = k /\ co'[h].todo = co[h].todo \ {k}
                 /\ \/ Of(k, "PENDING") = {} /\ co'[h].pc = "create"
                    \/ Of(k, "PENDING") # {} /\ co'[h].pc = "missing"
<1>1. co[h].pc = "missing" /\ co[h] \in Coroutines /\ co[h].job = "reconcile" /\ co[h].todo \subseteq Keys
  BY CoHas DEF Missing, At
<1>2. UNCHANGED <<req, link, midpoint, deletions, world, history>>
  BY DEF Missing
<1>3. CASE co[h].todo = {}
  BY <1>1, <1>2, <1>3, AnswerEnds DEF Missing, ApiTyped
<1>4. CASE co[h].todo # {}
  <2>1. PICK k \in co[h].todo :
            /\ inventory' = [inventory EXCEPT ![k] = "missing"]
            /\ Becomes(h, [co[h] EXCEPT !.k = k, !.todo = @ \ {k},
                              !.pc = IF Of(k, "PENDING") = {} THEN "create" ELSE "missing"])
    BY <1>4 DEF Missing
  <2>2. PICK p \in {"create", "missing"} :
            p = IF Of(k, "PENDING") = {} THEN "create" ELSE "missing"
    OBVIOUS
  <2>3. co'[h] = [co[h] EXCEPT !.k = k, !.todo = @ \ {k}, !.pc = p] /\ Alone1(h)
    BY <2>1, <2>2 DEF ApiTyped, CoTyped, Becomes, Alone1
  <2>4. co'[h].pc = p /\ co'[h].k = k /\ co'[h].todo = co[h].todo \ {k} /\ SameTask(h)
    BY <1>1, <2>3 DEF Coroutines, SameTask, SameJob
  <2> QED
    BY <1>1, <1>2, <2>1, <2>2, <2>3, <2>4
<1> QED
  BY <1>3, <1>4

LEMMA CreateDoes ==
    ASSUME ApiTyped, InOrder, NEW h \in Handlers, Create(h)
    PROVE  /\ co[h].pc = "create" /\ co[h].job \in {"reconcile", "legacy"}
           /\ co'[h].pc = "sendRead" /\ SameTask(h) /\ Alone1(h) /\ co'[h].todo = co[h].todo
           /\ co'[h].r \in Requests /\ req[co'[h].r].status = "NONE"
           /\ \A q \in Requests : q < co'[h].r => req[q].status # "NONE"
           /\ req'[co'[h].r] = [key |-> co[h].k, status |-> "PENDING", level |-> 1, token |-> 0]
           /\ OtherRows(co'[h].r)
           /\ UNCHANGED <<inventory, link, midpoint, deletions, world, history>>
<1>1. co[h].pc = "create" /\ co[h] \in Coroutines /\ co[h].job \in {"reconcile", "legacy"}
  BY CoHas DEF Create, At
<1>2. PICK r \in Requests :
          /\ r = Cardinality(Used) + 1
          /\ req' = [req EXCEPT ![r] = [NoRequest EXCEPT !.key = co[h].k, !.status = "PENDING"]]
          /\ Becomes(h, [co[h] EXCEPT !.pc = "sendRead", !.r = r])
  BY DEF Create
<1>3. req[r].status = "NONE" /\ \A q \in Requests : q < r => req[q].status # "NONE"
  BY <1>2, NextIsFree
<1>4. co'[h] = [co[h] EXCEPT !.pc = "sendRead", !.r = r] /\ Alone1(h)
  BY <1>2 DEF ApiTyped, CoTyped, Becomes, Alone1
<1>5. co'[h].pc = "sendRead" /\ co'[h].r = r /\ SameTask(h) /\ co'[h].todo = co[h].todo
  BY <1>1, <1>4 DEF Coroutines, SameTask, SameJob
<1>6. /\ req'[r] = [key |-> co[h].k, status |-> "PENDING", level |-> 1, token |-> 0]
      /\ OtherRows(r)
  BY <1>2 DEF ApiTyped, RowsTyped, OtherRows, NoRequest
<1>7. UNCHANGED <<inventory, link, midpoint, deletions, world, history>>
  BY DEF Create
<1> QED
  BY <1>1, <1>3, <1>4, <1>5, <1>6, <1>7

LEMMA MigrateDoes ==
    ASSUME ApiTyped, NEW h \in Handlers, Migrate(h)
    PROVE  /\ co[h].pc = "migrate" /\ co[h].job = "legacy" /\ Alone1(h)
           /\ \/ \E ok \in BOOLEAN : Ends(h, ok)
              \/ SameJob(h) /\ co'[h].pc \in {"migrate", "create"}
           /\ UNCHANGED <<req, link, role, shadow, deletions, world, history>>
<1>1. co[h].pc = "migrate" /\ co[h] \in Coroutines /\ co[h].job = "legacy" /\ co[h].todo \subseteq Keys
  BY CoHas DEF Migrate, At
<1>2. UNCHANGED <<req, link, role, shadow, deletions, world, history>>
  BY DEF Migrate
<1>3. CASE \E ok \in BOOLEAN : Answer(h, ok)
  BY <1>1, <1>2, <1>3, AnswerEnds DEF ApiTyped
<1>4. CASE UNCHANGED co
  BY <1>1, <1>2, <1>4 DEF SameJob, Alone1
<1>5. ASSUME NEW k \in co[h].todo, Becomes(h, [co[h] EXCEPT !.todo = @ \ {k}])
      PROVE  SameJob(h) /\ co'[h].pc = "migrate" /\ Alone1(h)
  <2>1. co'[h] = [co[h] EXCEPT !.todo = @ \ {k}] /\ Alone1(h)
    BY <1>5 DEF ApiTyped, CoTyped, Becomes, Alone1
  <2> QED
    BY <1>1, <2>1 DEF Coroutines, SameJob
<1>6. ASSUME NEW k \in co[h].todo, NEW p \in {"migrate", "create"},
             Becomes(h, [co[h] EXCEPT !.k = k, !.todo = @ \ {k}, !.pc = p])
      PROVE  SameJob(h) /\ co'[h].pc = p /\ Alone1(h)
  <2>1. co'[h] = [co[h] EXCEPT !.k = k, !.todo = @ \ {k}, !.pc = p] /\ Alone1(h)
    BY <1>6 DEF ApiTyped, CoTyped, Becomes, Alone1
  <2> QED
    BY <1>1, <2>1 DEF Coroutines, SameJob
<1>7. \/ \E ok \in BOOLEAN : Answer(h, ok)
      \/ UNCHANGED co
      \/ \E k \in co[h].todo : Becomes(h, [co[h] EXCEPT !.todo = @ \ {k}])
      \/ \E k \in co[h].todo, p \in {"migrate", "create"} :
             Becomes(h, [co[h] EXCEPT !.k = k, !.todo = @ \ {k}, !.pc = p])
  BY DEF Migrate, Raise
<1> QED
  BY <1>1, <1>2, <1>3, <1>4, <1>5, <1>6, <1>7

LEMMA CleanupFailsDoes ==
    ASSUME ApiTyped, NEW h \in Handlers, CleanupFails(h)
    PROVE  /\ co[h].pc \in {"list", "unassign", "dropRole", "orphans", "askDelete", "shadows"}
           /\ May("cleanup") /\ Alone1(h)
           /\ \/ /\ co[h].job = "execute" /\ SameTask(h) /\ co'[h].pc = "fail"
                 /\ co'[h].r = co[h].r /\ co'[h].k = co[h].k
              \/ co[h].job = "reconcile" /\ Ends(h, FALSE)
           /\ UNCHANGED <<tables, midpoint, deletions, world, history>>
<1>1. /\ co[h].pc \in {"list", "unassign", "dropRole", "orphans", "askDelete", "shadows"}
      /\ co[h].job \in {"reconcile", "execute"}
  BY CoHas DEF CleanupFails
<1>2. CASE co[h].job = "execute"
  <2>1. Goto(h, "fail")
    BY <1>2 DEF CleanupFails
  <2> QED
    BY <1>1, <1>2, <2>1, GotoDoes DEF CleanupFails, ApiTyped, Steps
<1>3. CASE co[h].job = "reconcile"
  <2>1. Raise(h)
    BY <1>3 DEF CleanupFails
  <2> QED
    BY <1>1, <1>3, <2>1, AnswerEnds DEF CleanupFails, Raise, ApiTyped
<1> QED
  BY <1>1, <1>2, <1>3

\* The step after the removal of a role, by what it was removed for.
LEMMA AfterDoes ==
    ASSUME NEW h \in Handlers, co[h].job \in {"reconcile", "execute"}
    PROVE  /\ AfterRemoval(h) \in Steps
           /\ co[h].job = "reconcile" => AfterRemoval(h) = "forget"
           /\ co[h].job = "execute" => AfterRemoval(h) = IF co[h].k \in Legacy THEN "complete" ELSE "orphans"
  BY DEF AfterRemoval, Steps

SameRemoval(h) == SameTask(h) /\ co'[h].r = co[h].r /\ co'[h].k = co[h].k /\ co'[h].todo = co[h].todo

LEMMA ListHoldersDoes ==
    ASSUME ApiTyped, NEW h \in Handlers, ListHolders(h)
    PROVE  /\ co[h].pc = "list" /\ co[h].job \in {"reconcile", "execute"}
           /\ SameRemoval(h) /\ Alone1(h)
           /\ co'[h].affected = co[h].affected
           /\ \/ co'[h].pc = "unassign" /\ co'[h].users = {u \in Users : co[h].k \in holds[u]}
              \/ co'[h].pc = AfterRemoval(h)
           /\ UNCHANGED <<tables, midpoint, deletions, world, history>>
<1>1. co[h].pc = "list" /\ co[h].job \in {"reconcile", "execute"} /\ co[h] \in Coroutines
  BY CoHas DEF ListHolders, At
<1>2. UNCHANGED <<tables, midpoint, deletions, world, history>>
  BY DEF ListHolders
<1>3. CASE co[h].k \in role
  <2> DEFINE c == [co[h] EXCEPT !.pc = "unassign", !.users = {u \in Users : co[h].k \in holds[u]}]
  <2>1. co'[h] = c /\ Alone1(h)
    BY <1>3 DEF ListHolders, ApiTyped, CoTyped, Becomes, Alone1
  <2> QED
    BY <1>1, <1>2, <2>1 DEF Coroutines, SameRemoval, SameTask, SameJob
<1>4. CASE co[h].k \notin role
  <2>1. co'[h] = [co[h] EXCEPT !.pc = AfterRemoval(h)] /\ Alone1(h)
    BY <1>4 DEF ListHolders, ApiTyped, CoTyped, Becomes, Alone1
  <2> QED
    BY <1>1, <1>2, <2>1 DEF Coroutines, SameRemoval, SameTask, SameJob
<1> QED
  BY <1>3, <1>4

LEMMA UnassignDoes ==
    ASSUME ApiTyped, NEW h \in Handlers, Unassign(h)
    PROVE  /\ co[h].pc = "unassign" /\ co[h].job \in {"reconcile", "execute"}
           /\ SameRemoval(h) /\ Alone1(h)
           /\ \/ /\ co'[h].pc = "dropRole" /\ co[h].users = {}
                 /\ co'[h].affected = co[h].affected /\ UNCHANGED <<holds, lost>>
              \/ \E u \in co[h].users :
                 /\ co'[h].pc = "unassign" /\ co'[h].users = co[h].users \ {u}
                 /\ holds' = [holds EXCEPT ![u] = @ \ {co[h].k}]
                 /\ lost' = IF co[h].job = "execute"
                            THEN [lost EXCEPT ![co[h].r] = @ \cup {u}] ELSE lost
                 /\ co'[h].affected = IF co[h].k \in holds[u]
                                      THEN co[h].affected \cup {<<u, holds[u] \ {co[h].k}>>}
                                      ELSE co[h].affected
           /\ UNCHANGED <<tables, role, shadow, deletions, world, signed, dismantled, revoked>>
<1>1. co[h].pc = "unassign" /\ co[h].job \in {"reconcile", "execute"} /\ co[h] \in Coroutines
  BY CoHas DEF Unassign, At
<1>2. UNCHANGED <<tables, role, shadow, deletions, world, signed, dismantled, revoked>>
  BY DEF Unassign
<1>3. CASE co[h].users = {}
  <2>1. Goto(h, "dropRole") /\ UNCHANGED <<holds, lost>>
    BY <1>3 DEF Unassign
  <2> QED
    BY <1>1, <1>2, <1>3, <2>1, GotoDoes DEF ApiTyped, Steps, SameRemoval
<1>4. CASE co[h].users # {}
  <2>1. PICK u \in co[h].users :
            /\ holds' = [holds EXCEPT ![u] = @ \ {co[h].k}]
            /\ lost'  = IF co[h].job = "execute" THEN [lost EXCEPT ![co[h].r] = @ \cup {u}]
                        ELSE lost
            /\ Becomes(h, [co[h] EXCEPT
                    !.users = @ \ {u},
                    !.affected = IF co[h].k \in holds[u]
                                 THEN @ \cup {<<u, holds[u] \ {co[h].k}>>} ELSE @])
    BY <1>4 DEF Unassign
  <2> DEFINE a == IF co[h].k \in holds[u] THEN co[h].affected \cup {<<u, holds[u] \ {co[h].k}>>}
                  ELSE co[h].affected
  <2>2. co'[h] = [co[h] EXCEPT !.users = @ \ {u}, !.affected = a] /\ Alone1(h)
    BY <1>1, <2>1 DEF ApiTyped, CoTyped, Becomes, Alone1, Coroutines
  <2>3. a = a
    OBVIOUS
  <2> HIDE DEF a
  <2>4. /\ SameRemoval(h) /\ co'[h].pc = "unassign" /\ co'[h].users = co[h].users \ {u}
        /\ co'[h].affected = a
    BY <1>1, <2>2 DEF Coroutines, SameRemoval, SameTask, SameJob
  <2> QED
    BY <1>1, <1>2, <2>1, <2>2, <2>4 DEF a
<1> QED
  BY <1>3, <1>4

LEMMA DropRoleDoes ==
    ASSUME ApiTyped, NEW h \in Handlers, DropRole(h)
    PROVE  /\ co[h].pc = "dropRole" /\ co[h].job \in {"reconcile", "execute"}
           /\ SameRemoval(h) /\ Alone1(h) /\ co'[h].pc = AfterRemoval(h)
           /\ co'[h].affected = co[h].affected
           /\ role' = role \ {co[h].k}
           /\ UNCHANGED <<tables, holds, shadow, deletions, world, history>>
<1>1. co[h].pc = "dropRole" /\ co[h].job \in {"reconcile", "execute"}
  BY CoHas DEF DropRole, At
<1> QED
  BY <1>1, AfterDoes, GotoDoes DEF DropRole, ApiTyped, SameRemoval

LEMMA PickDoes ==
    ASSUME ApiTyped, NEW h \in Handlers, Pick(h)
    PROVE  /\ co[h].pc = "pick" /\ co[h].job = "execute" /\ Alone1(h)
           /\ \/ Ends(h, TRUE) /\ UNCHANGED <<req, dismantled, revoked>>
              \/ SameTask(h) /\ co'[h].pc = "pick" /\ UNCHANGED <<req, dismantled, revoked>>
              \/ \E r \in Requests :
                 /\ SameTask(h) /\ co'[h].pc = "pick" /\ req[r].status = "APPROVED"
                 /\ req'[r].status = "CANCELLED" /\ KeptRows /\ OtherRows(r)
                 /\ req'[r].token = req[r].token
                 /\ revoked' = revoked \cup {r} /\ UNCHANGED dismantled
              \/ \E r \in Requests :
                 /\ SameJob(h) /\ co'[h].pc = "list" /\ req[r].status = "APPROVED"
                 /\ co'[h].r = r /\ co'[h].k = req[r].key /\ co'[h].affected = {}
                 /\ dismantled' = dismantled \cup {r} /\ UNCHANGED <<req, revoked>>
           /\ UNCHANGED <<inventory, link, midpoint, deletions, world, signed, lost>>
<1>1. co[h].pc = "pick" /\ co[h].job = "execute" /\ co[h] \in Coroutines /\ co[h].todo \subseteq Requests
  BY CoHas DEF Pick, At
<1>2. UNCHANGED <<inventory, link, midpoint, deletions, world, signed, lost>>
  BY DEF Pick
<1>3. CASE Answer(h, TRUE) /\ UNCHANGED <<req, dismantled, revoked>>
  BY <1>1, <1>2, <1>3, AnswerEnds DEF ApiTyped
<1>4. ASSUME NEW r \in co[h].todo, Becomes(h, [co[h] EXCEPT !.todo = @ \ {r}])
      PROVE  SameTask(h) /\ co'[h].pc = "pick" /\ Alone1(h)
  <2>1. co'[h] = [co[h] EXCEPT !.todo = @ \ {r}] /\ Alone1(h)
    BY <1>4 DEF ApiTyped, CoTyped, Becomes, Alone1
  <2> QED
    BY <1>1, <2>1 DEF Coroutines, SameTask, SameJob
<1>5. ASSUME NEW r \in co[h].todo, req[r].status = "APPROVED",
             req' = [req EXCEPT ![r].status = "CANCELLED"],
             revoked' = revoked \cup {r}, Becomes(h, [co[h] EXCEPT !.todo = @ \ {r}]),
             UNCHANGED dismantled
      PROVE  /\ r \in Requests /\ SameTask(h) /\ co'[h].pc = "pick" /\ Alone1(h)
             /\ req'[r].status = "CANCELLED" /\ KeptRows /\ OtherRows(r)
             /\ req'[r].token = req[r].token
  <2>1. r \in Requests
    BY <1>1
  <2>2. /\ req'[r].status = "CANCELLED" /\ req'[r].key = req[r].key /\ OtherRows(r)
        /\ req'[r].token = req[r].token
    BY <1>5, <2>1, StatusWrite
  <2>3. KeptRows
    BY <1>5, <2>1, <2>2, OneRow
  <2> QED
    BY <1>4, <1>5, <2>1, <2>2, <2>3
<1>6. ASSUME NEW r \in co[h].todo,
             Becomes(h, [co[h] EXCEPT !.pc = "list", !.todo = @ \ {r}, !.r = r,
                               !.k = req[r].key, !.affected = {}, !.items = Present])
      PROVE  /\ r \in Requests /\ SameJob(h) /\ co'[h].pc = "list" /\ co'[h].r = r /\ Alone1(h)
             /\ co'[h].k = req[r].key /\ co'[h].affected = {}
  <2>1. /\ co'[h] = [co[h] EXCEPT !.pc = "list", !.todo = @ \ {r}, !.r = r,
                               !.k = req[r].key, !.affected = {}, !.items = Present]
        /\ Alone1(h)
    BY <1>6 DEF ApiTyped, CoTyped, Becomes, Alone1
  <2> QED
    BY <1>1, <2>1 DEF Coroutines, SameJob
<1>7. \/ Answer(h, TRUE) /\ UNCHANGED <<req, dismantled, revoked>>
      \/ \E r \in co[h].todo : /\ Becomes(h, [co[h] EXCEPT !.todo = @ \ {r}])
                               /\ UNCHANGED <<req, dismantled, revoked>>
      \/ \E r \in co[h].todo : /\ req[r].status = "APPROVED"
                               /\ req' = [req EXCEPT ![r].status = "CANCELLED"]
                               /\ revoked' = revoked \cup {r}
                               /\ Becomes(h, [co[h] EXCEPT !.todo = @ \ {r}])
                               /\ UNCHANGED dismantled
      \/ \E r \in co[h].todo :
            /\ req[r].status = "APPROVED" /\ dismantled' = dismantled \cup {r}
            /\ Becomes(h, [co[h] EXCEPT !.pc = "list", !.todo = @ \ {r}, !.r = r,
                               !.k = req[r].key, !.affected = {}, !.items = Present])
            /\ UNCHANGED <<req, revoked>>
  BY DEF Pick
<1>8. CASE \E r \in co[h].todo : /\ Becomes(h, [co[h] EXCEPT !.todo = @ \ {r}])
                                 /\ UNCHANGED <<req, dismantled, revoked>>
  BY <1>1, <1>2, <1>4, <1>8
<1>9. CASE \E r \in co[h].todo : /\ req[r].status = "APPROVED"
                                 /\ req' = [req EXCEPT ![r].status = "CANCELLED"]
                                 /\ revoked' = revoked \cup {r}
                                 /\ Becomes(h, [co[h] EXCEPT !.todo = @ \ {r}])
                                 /\ UNCHANGED dismantled
  BY <1>1, <1>2, <1>5, <1>9
<1>10. CASE \E r \in co[h].todo :
            /\ req[r].status = "APPROVED" /\ dismantled' = dismantled \cup {r}
            /\ Becomes(h, [co[h] EXCEPT !.pc = "list", !.todo = @ \ {r}, !.r = r,
                               !.k = req[r].key, !.affected = {}, !.items = Present])
            /\ UNCHANGED <<req, revoked>>
  BY <1>1, <1>2, <1>6, <1>10
<1> QED
  BY <1>3, <1>7, <1>8, <1>9, <1>10

LEMMA OrphansDoes ==
    ASSUME ApiTyped, NEW h \in Handlers, Orphans(h)
    PROVE  /\ co[h].pc = "orphans" /\ co[h].job = "execute" /\ SameRemoval(h) /\ Alone1(h)
           /\ co'[h].pc = "askDelete"
           /\ co'[h].users = {a[1] : a \in {b \in co[h].affected : b[2] \cap (Active \ {co[h].k}) = {}}}
           /\ UNCHANGED <<tables, midpoint, deletions, world, history>>
<1> DEFINE us == {a[1] : a \in {b \in co[h].affected : b[2] \cap (Active \ {co[h].k}) = {}}}
<1>1. co[h].pc = "orphans" /\ co[h].job = "execute" /\ co[h] \in Coroutines
  BY CoHas DEF Orphans, At
<1>2. co'[h] = [co[h] EXCEPT !.pc = "askDelete", !.users = us] /\ Alone1(h)
  BY DEF Orphans, ApiTyped, CoTyped, Becomes, Alone1
<1>3. UNCHANGED <<tables, midpoint, deletions, world, history>>
  BY DEF Orphans
<1> HIDE DEF us
<1>4. SameRemoval(h) /\ co'[h].pc = "askDelete" /\ co'[h].users = us
  BY <1>1, <1>2 DEF Coroutines, SameRemoval, SameTask, SameJob
<1> QED
  BY <1>1, <1>2, <1>3, <1>4 DEF us

LEMMA AskDeleteDoes ==
    ASSUME ApiTyped, NEW h \in Handlers, AskDelete(h)
    PROVE  /\ co[h].pc = "askDelete" /\ co[h].job = "execute" /\ SameRemoval(h) /\ Alone1(h)
           /\ \/ co[h].users = {} /\ co'[h].pc = "shadows" /\ UNCHANGED deletions
              \/ \E u \in co[h].users : /\ deletions' = deletions \cup {u}
                                        /\ co'[h].pc = "askDelete"
                                        /\ co'[h].users = co[h].users \ {u}
           /\ UNCHANGED <<tables, midpoint, world, history>>
<1>1. co[h].pc = "askDelete" /\ co[h].job = "execute" /\ co[h] \in Coroutines
  BY CoHas DEF AskDelete, At
<1>2. CASE co[h].users = {}
  BY <1>1, <1>2, GotoDoes DEF AskDelete, ApiTyped, Steps, SameRemoval
<1>3. CASE co[h].users # {}
  <2>1. PICK u \in co[h].users : /\ deletions' = deletions \cup {u}
                                 /\ Becomes(h, [co[h] EXCEPT !.users = @ \ {u}])
    BY <1>3 DEF AskDelete
  <2>2. co'[h] = [co[h] EXCEPT !.users = @ \ {u}] /\ Alone1(h)
    BY <2>1 DEF ApiTyped, CoTyped, Becomes, Alone1
  <2>3. SameRemoval(h) /\ co'[h].pc = "askDelete" /\ co'[h].users = co[h].users \ {u}
    BY <1>1, <2>2 DEF Coroutines, SameRemoval, SameTask, SameJob
  <2> QED
    BY <1>1, <2>1, <2>2, <2>3 DEF AskDelete
<1> QED
  BY <1>2, <1>3

LEMMA DeleteShadowsDoes ==
    ASSUME ApiTyped, NEW h \in Handlers, DeleteShadows(h)
    PROVE  /\ co[h].pc = "shadows" /\ co[h].job = "execute" /\ SameRemoval(h) /\ Alone1(h)
           /\ co'[h].pc = "complete"
           /\ UNCHANGED <<tables, role, holds, deletions, world, history>>
<1>1. co[h].pc = "shadows" /\ co[h].job = "execute"
  BY CoHas DEF DeleteShadows, At
<1> QED
  BY <1>1, GotoDoes DEF DeleteShadows, ApiTyped, Steps, SameRemoval

LEMMA ConcludeDoes ==
    ASSUME ApiTyped, NEW h \in Handlers, Conclude(h), req[co[h].r].status # "NONE"
    PROVE  /\ co[h].pc \in {"complete", "fail"} /\ co[h].job = "execute" /\ co[h].r \in Requests
           /\ SameTask(h) /\ Alone1(h) /\ co'[h].pc = "pick"
           /\ KeptRows /\ OtherRows(co[h].r) /\ req'[co[h].r].token = req[co[h].r].token
           /\ req'[co[h].r].status = IF co[h].pc = "complete" THEN "COMPLETED" ELSE "FAILED"
           /\ UNCHANGED <<inventory, link, midpoint, deletions, world, history>>
<1> DEFINE s == IF At(h, "complete") THEN "COMPLETED" ELSE "FAILED"
<1>1. co[h].pc \in {"complete", "fail"} /\ co[h].job = "execute" /\ co[h].r \in Requests
  <2>1. co[h].pc \in {"complete", "fail"} /\ co[h].job = "execute" /\ StepTyped(co[h])
    BY CoHas DEF Conclude
  <2> QED
    BY <2>1 DEF StepTyped
<1>2. s \in {"COMPLETED", "FAILED"} /\ s = IF co[h].pc = "complete" THEN "COMPLETED" ELSE "FAILED"
  BY DEF At
<1>3. req' = [req EXCEPT ![co[h].r].status = s]
  BY DEF Conclude
<1> HIDE DEF s
<1>4. /\ req'[co[h].r].status = s /\ req'[co[h].r].token = req[co[h].r].token
      /\ req'[co[h].r].key = req[co[h].r].key /\ OtherRows(co[h].r)
  BY <1>1, <1>3, StatusWrite
<1>5. KeptRows
  BY <1>1, <1>2, <1>4, OneRow
<1>6. SameTask(h) /\ Alone1(h) /\ co'[h].pc = "pick"
  BY GotoDoes DEF Conclude, ApiTyped, Steps
<1>7. UNCHANGED <<inventory, link, midpoint, deletions, world, history>>
  BY DEF Conclude
<1> QED
  BY <1>1, <1>2, <1>4, <1>5, <1>6, <1>7

-----------------------------------------------------------------------------
(* What people, the worker and the deployment do *)

\* A call begins.
Begins(h, job, pc, caller) ==
    /\ co[h].pc = "idle" /\ Alone1(h)
    /\ co'[h].job = job /\ co'[h].pc = pc /\ co'[h].caller = caller

\* The answer has been read.
Frees(h) == Begins(h, "none", "idle", "people")

LEMMA ClickDoes ==
    ASSUME ApiTyped, NEW h \in Handlers, NEW t \in 1..Len(link), NEW yes \in BOOLEAN,
           Click(h, t, yes)
    PROVE  /\ Begins(h, "decide", "clear", "people")
           /\ co'[h].r = link[t].r /\ link[t].r \in Requests
           /\ req[link[t].r].status = "PENDING" /\ req[link[t].r].token = t /\ t # 0 /\ Alone(h)
           /\ UNCHANGED <<tables, midpoint, deletions, world, dismantled, revoked, lost>>
<1>1. co \in [Handlers -> Coroutines] /\ link[t].r \in Requests
  BY LinkOf DEF ApiTyped, CoTyped
<1>2. PICK l, y : co' = [co EXCEPT ![h] = [Idle EXCEPT !.job = "decide", !.pc = "clear",
                              !.r = link[t].r, !.level = l, !.yes = y]]
  BY DEF Click, Becomes
<1>3. /\ co'[h] = [Idle EXCEPT !.job = "decide", !.pc = "clear",
                              !.r = link[t].r, !.level = l, !.yes = y]
      /\ Alone1(h)
  BY <1>1, <1>2 DEF Alone1
<1>4. /\ co'[h].job = "decide" /\ co'[h].pc = "clear" /\ co'[h].r = link[t].r
      /\ co'[h].caller = "people"
  BY <1>3 DEF Idle
<1> QED
  BY <1>1, <1>3, <1>4 DEF Click, At, Opens, Begins

LEMMA RenewDoes ==
    ASSUME ApiTyped, NEW h \in Handlers, NEW t \in 1..Len(link), Renew(h, t)
    PROVE  /\ Begins(h, "renew", "sendRead", "people")
           /\ co'[h].r = link[t].r /\ link[t].r \in Requests
           /\ req[link[t].r].status = "PENDING" /\ req[link[t].r].token = t /\ t # 0 /\ Alone(h)
           /\ UNCHANGED <<tables, midpoint, deletions, native, expired, faults, history>>
<1>1. co \in [Handlers -> Coroutines] /\ link[t].r \in Requests
  BY LinkOf DEF ApiTyped, CoTyped
<1>2. /\ co'[h] = [Idle EXCEPT !.job = "renew", !.pc = "sendRead", !.r = link[t].r]
      /\ Alone1(h)
  BY <1>1 DEF Renew, Becomes, Alone1
<1>3. /\ co'[h].job = "renew" /\ co'[h].pc = "sendRead" /\ co'[h].r = link[t].r
      /\ co'[h].caller = "people"
  BY <1>2 DEF Idle
<1> QED
  BY <1>1, <1>2, <1>3 DEF Renew, At, Opens, Begins

\* A coroutine that ends up idle.
LEMMA FreesIt ==
    ASSUME ApiTyped, NEW h \in Handlers, Becomes(h, Idle)
    PROVE  /\ co'[h].job = "none" /\ co'[h].pc = "idle" /\ co'[h].caller = "people" /\ Alone1(h)
  BY DEF ApiTyped, CoTyped, Becomes, Alone1, Idle

LEMMA BeginCycleDoes ==
    ASSUME TypeInv, NEW h \in Handlers, BeginCycle(h)
    PROVE  /\ Worker("sleep") /\ Begins(h, "execute", "pick", "worker")
           /\ worker'.pc = "executing" /\ worker'.excluded = worker.excluded
           /\ UNCHANGED <<outside, file, deploy, crashes, gap>>
<1>1. co \in [Handlers -> Coroutines]
  BY DEF TypeInv, ApiTyped, CoTyped
<1>2. /\ co'[h] = [Idle EXCEPT !.job = "execute", !.pc = "pick", !.caller = "worker",
                               !.todo = {r \in Requests : req[r].status = "APPROVED"}]
      /\ Alone1(h) /\ co[h].pc = "idle"
  BY <1>1 DEF BeginCycle, ProcessApproved, Call, Becomes, At, Alone1
<1>3. co'[h].job = "execute" /\ co'[h].pc = "pick" /\ co'[h].caller = "worker"
  BY <1>2 DEF Idle
<1> QED
  BY <1>2, <1>3 DEF BeginCycle, Begins, TypeInv, SyncTyped

LEMMA ExecutionReturnsDoes ==
    ASSUME TypeInv, NEW h \in Handlers, ExecutionReturns(h)
    PROVE  /\ Worker("executing") /\ Answered(h, "worker")
           /\ co'[h].job = "none" /\ co'[h].pc = "idle" /\ co'[h].caller = "people" /\ Alone1(h)
           /\ worker'.pc = "discover" /\ worker'.excluded = worker.excluded
           /\ UNCHANGED <<outside, file, deploy, crashes, gap>>
  BY FreesIt DEF ExecutionReturns, TypeInv, SyncTyped

LEMMA PostDoes ==
    ASSUME TypeInv, NEW h \in Handlers, Post(h)
    PROVE  /\ Worker("post") /\ Begins(h, "reconcile", "exclude", "worker")
           /\ co'[h].items = worker.next.known
           /\ co'[h].quiet = {k \in Keys : gap[k] >= Confirmations}
           /\ co'[h].todo = {k \in worker.excluded : inventory[k] # "none"}
           /\ worker' = [worker EXCEPT !.pc = "posting"]
           /\ UNCHANGED <<outside, file, deploy, crashes, gap>>
<1>1. co \in [Handlers -> Coroutines]
  BY DEF TypeInv, ApiTyped, CoTyped
<1>2. /\ co'[h] = [Idle EXCEPT !.job = "reconcile", !.pc = "exclude", !.caller = "worker",
                         !.todo = {k \in worker.excluded : inventory[k] # "none"},
                         !.items = worker.next.known,
                         !.quiet = {k \in Keys : gap[k] >= Confirmations}]
      /\ Alone1(h) /\ co[h].pc = "idle"
  BY <1>1 DEF Post, Reconcile, Call, Becomes, At, Alone1
<1>3. /\ co'[h].job = "reconcile" /\ co'[h].pc = "exclude" /\ co'[h].caller = "worker"
      /\ co'[h].items = worker.next.known
      /\ co'[h].quiet = {k \in Keys : gap[k] >= Confirmations}
      /\ co'[h].todo = {k \in worker.excluded : inventory[k] # "none"}
  BY <1>2 DEF Idle
<1> QED
  BY <1>2, <1>3 DEF Post, Begins

LEMMA SaveDoes ==
    ASSUME TypeInv, NEW h \in Handlers, Save(h)
    PROVE  /\ Worker("posting") /\ Answered(h, "worker")
           /\ co'[h].job = "none" /\ co'[h].pc = "idle" /\ co'[h].caller = "people" /\ Alone1(h)
           /\ file' = IF co[h].pc = "done" THEN worker.next ELSE file
           /\ worker' = Sleeping /\ worker'.pc = "sleep" /\ worker'.excluded = {}
           /\ UNCHANGED <<outside, deploy, crashes, gap>>
  BY FreesIt DEF Save, TypeInv, At, Sleeping

LEMMA DeployCallDoes ==
    ASSUME TypeInv, NEW h \in Handlers, DeployCall(h)
    PROVE  /\ deploy.pc \in {"reconcile", "legacy"}
           /\ \/ /\ Begins(h, "reconcile", "exclude", "ansible")
                 /\ co'[h].todo = {k \in Login \ deploy.items : inventory[k] # "none"}
              \/ Begins(h, "legacy", "migrate", "ansible")
           /\ UNCHANGED <<outside, file, worker, crashes, gap>>
<1>1. co \in [Handlers -> Coroutines]
  BY DEF TypeInv, ApiTyped, CoTyped
<1>2. CASE deploy.pc = "reconcile" /\ Reconcile(h, "ansible", deploy.items, Login \ deploy.items, {})
  <2>1. /\ co'[h] = [Idle EXCEPT !.job = "reconcile", !.pc = "exclude", !.caller = "ansible",
                         !.todo = {k \in Login \ deploy.items : inventory[k] # "none"},
                         !.items = deploy.items, !.quiet = {}]
        /\ Alone1(h) /\ co[h].pc = "idle"
    BY <1>1, <1>2 DEF Reconcile, Call, Becomes, At, Alone1
  <2>2. /\ co'[h].job = "reconcile" /\ co'[h].pc = "exclude" /\ co'[h].caller = "ansible"
        /\ co'[h].todo = {k \in Login \ deploy.items : inventory[k] # "none"}
    BY <2>1 DEF Idle
  <2> QED
    BY <1>2, <2>1, <2>2 DEF DeployCall, Begins
<1>3. CASE deploy.pc = "legacy" /\ RegisterLegacy(h, deploy.items)
  <2>1. /\ co'[h] = [Idle EXCEPT !.job = "legacy", !.pc = "migrate", !.caller = "ansible",
                         !.todo = Legacy, !.items = deploy.items]
        /\ Alone1(h) /\ co[h].pc = "idle"
    BY <1>1, <1>3 DEF RegisterLegacy, Call, Becomes, At, Alone1
  <2>2. co'[h].job = "legacy" /\ co'[h].pc = "migrate" /\ co'[h].caller = "ansible"
    BY <2>1 DEF Idle
  <2> QED
    BY <1>3, <2>1, <2>2 DEF DeployCall, Begins
<1> QED
  BY <1>2, <1>3 DEF DeployCall

LEMMA DeployReturnsDoes ==
    ASSUME TypeInv, NEW h \in Handlers, DeployReturns(h)
    PROVE  /\ Answered(h, "ansible")
           /\ co'[h].job = "none" /\ co'[h].pc = "idle" /\ co'[h].caller = "people" /\ Alone1(h)
           /\ deploy'.pc \in {deploy.pc, "over"}
           /\ UNCHANGED <<outside, file, worker, crashes, gap>>
  BY FreesIt DEF DeployReturns, TypeInv, SyncTyped

\* The worker gives up, or the API stops: nobody takes up anything.
LEMMA AbandonDoes ==
    ASSUME TypeInv, NEW h \in Handlers, Abandon
    PROVE  /\ May("abandon")
           /\ \/ /\ co'[h].job = co[h].job /\ co'[h].pc = co[h].pc /\ co'[h].r = co[h].r
                 /\ co'[h].k = co[h].k /\ co'[h].todo = co[h].todo
                 /\ co'[h].caller \in {co[h].caller, "people"}
              \/ /\ co'[h].job = "none" /\ co'[h].pc = "idle" /\ co'[h].caller = "people"
                 /\ co[h].pc \in Over
           /\ UNCHANGED <<outside, file, deploy, gap>>
<1>1. co[h] \in Coroutines
  BY CoHas DEF TypeInv
<1>2. \/ co'[h] = Idle /\ co[h].pc \in Over
      \/ co'[h] = co[h] \/ co'[h] = [co[h] EXCEPT !.caller = "people"]
  BY DEF Abandon, Answered, Over
<1> QED
  BY <1>1, <1>2 DEF Abandon, Idle, Coroutines

LEMMA CrashDoes ==
    ASSUME TypeInv, NEW h \in Handlers, Crash
    PROVE  /\ May("api")
           /\ \/ co'[h] = co[h] /\ co[h].pc = "done"
              \/ /\ co'[h].job = "none" /\ co'[h].caller = co[h].caller
                 /\ co'[h].pc = IF co[h].caller = "people" THEN "idle" ELSE "failed"
           /\ UNCHANGED <<tables, midpoint, deletions, world, history, file, worker, deploy, gap>>
<1>1. co[h] \in Coroutines /\ co[h].caller \in Callers
  BY CoHas DEF TypeInv
<1>2. \/ co'[h] = co[h] /\ co[h].pc = "done"
      \/ co'[h] = Reply(co[h], FALSE)
  BY DEF Crash, ApiCrash
<1>3. \A w \in Callers :
          LET d == [Idle EXCEPT !.caller = w, !.pc = "failed"] IN
          d.job = "none" /\ d.caller = w /\ d.pc = "failed"
  BY DEF Idle
<1>4. Idle.job = "none" /\ Idle.pc = "idle" /\ Idle.caller = "people"
  BY DEF Idle
<1> QED
  BY <1>1, <1>2, <1>3, <1>4 DEF Crash, ApiCrash, Reply

-----------------------------------------------------------------------------
(* Rows in use, and who is at work *)

\* The request a coroutine works on is in use; that of an execution has begun
\* to be dismantled and has the key the coroutine removes.
StepRows(c) ==
    /\ c.pc \in OwnSteps \cup {"cancel"} => req[c.r].status # "NONE"
    /\ c.job = "execute" /\ c.pc # "pick" =>
          /\ req[c.r].status # "NONE"
          /\ c.r \in dismantled /\ c.k = req[c.r].key

Rows == InOrder /\ \A h \in Handlers : StepRows(co[h])

\* The request of a step that has one.
LEMMA RowOf ==
    ASSUME ApiTyped, NEW h \in Handlers,
           co[h].pc \in OwnSteps \cup {"cancel"} \/ (co[h].job = "execute" /\ co[h].pc # "pick")
    PROVE  co[h].r \in Requests
  BY CoHas DEF StepTyped, OwnSteps

\* A step that leaves rows in use.
LEMMA RowsKeep ==
    ASSUME ApiTyped, Rows, KeptRows, dismantled \subseteq dismantled',
           \A g \in Handlers :
              \/ co'[g] = co[g]
              \/ StepRows(co[g])'
              \/ co'[g].job = co[g].job /\ co'[g].pc = co[g].pc /\ co'[g].r = co[g].r /\ co'[g].k = co[g].k
    PROVE  Rows'
<1>1. InOrder'
  BY DEF Rows, InOrder, KeptRows
<1>2. ASSUME NEW g \in Handlers
      PROVE  StepRows(co[g])'
  <2>1. StepRows(co[g])
    BY DEF Rows
  <2>2. CASE co'[g].job = co[g].job /\ co'[g].pc = co[g].pc /\ co'[g].r = co[g].r /\ co'[g].k = co[g].k
    BY <2>1, <2>2, RowOf DEF StepRows, KeptRows
  <2>3. CASE co'[g] = co[g]
    BY <2>1, <2>3, RowOf DEF StepRows, KeptRows
  <2> QED
    BY <2>2, <2>3
<1> QED
  BY <1>1, <1>2 DEF Rows

\* The coroutine that goes on has no request, or still the same.
LEMMA GoesOn ==
    ASSUME ApiTyped, Rows, KeptRows, dismantled \subseteq dismantled', NEW h \in Handlers,
           Alone1(h),
           \/ co'[h].pc \notin OwnSteps \cup {"cancel"} /\ (co'[h].job = "execute" => co'[h].pc = "pick")
           \/ /\ co'[h].r = co[h].r /\ co[h].pc \in OwnSteps
              /\ co'[h].pc \in OwnSteps /\ co[h].job = co'[h].job
           \/ /\ co'[h].r = co[h].r /\ co'[h].k = co[h].k
              /\ co'[h].job = "execute" /\ co[h].job = "execute" /\ co[h].pc # "pick"
              /\ co'[h].pc \notin OwnSteps \cup {"cancel"}
    PROVE  Rows'
<1>1. StepRows(co[h])'
  <2>1. StepRows(co[h])
    BY DEF Rows
  <2>2. co[h].pc \in OwnSteps => co[h].r \in Requests /\ co[h].job # "execute"
    BY RowOf, CoHas
  <2>3. co[h].job = "execute" /\ co[h].pc # "pick" => co[h].r \in Requests
    BY RowOf
  <2> QED
    BY <2>1, <2>2, <2>3 DEF StepRows, KeptRows, OwnSteps
<1>2. \A g \in Handlers : co'[g] = co[g] \/ StepRows(co[g])'
  BY <1>1 DEF Alone1
<1> QED
  BY <1>2, RowsKeep

LEMMA SameRowsKept ==
    ASSUME UNCHANGED req
    PROVE  KeptRows
  BY DEF KeptRows

LEMMA CreateRows ==
    ASSUME ApiTyped, Rows, NEW h \in Handlers, Create(h)
    PROVE  Rows'
<1>0. InOrder
  BY DEF Rows
<1> PICK r : r = co'[h].r
  OBVIOUS
<1>a. /\ co[h].job \in {"reconcile", "legacy"}
      /\ co'[h].pc = "sendRead" /\ SameTask(h) /\ Alone1(h)
      /\ r \in Requests /\ req[r].status = "NONE"
      /\ \A q \in Requests : q < r => req[q].status # "NONE"
      /\ OtherRows(r) /\ UNCHANGED history
  BY <1>0, CreateDoes
<1>b. req'[r] = [key |-> co[h].k, status |-> "PENDING", level |-> 1, token |-> 0]
  BY <1>0, CreateDoes
<1>1. /\ co[h].job \in {"reconcile", "legacy"}
      /\ co'[h].pc = "sendRead" /\ SameTask(h) /\ Alone1(h)
      /\ r \in Requests /\ req[r].status = "NONE"
      /\ \A q \in Requests : q < r => req[q].status # "NONE"
      /\ req'[r].status = "PENDING" /\ OtherRows(r) /\ UNCHANGED dismantled
  BY <1>a, <1>b DEF history
<1>2. InOrder'
  BY <1>1 DEF Rows, InOrder, OtherRows, Requests
<1>3. StepRows(co[h])'
  <2>1. co'[h].job # "execute" /\ co'[h].pc = "sendRead" /\ co'[h].r = r /\ req'[r].status # "NONE"
    BY <1>1 DEF SameTask, SameJob
  <2> QED
    BY <2>1 DEF StepRows
<1>4. ASSUME NEW g \in Handlers, g # h
      PROVE  StepRows(co[g])'
  <2>1. StepRows(co[g]) /\ co'[g] = co[g]
    BY <1>1, <1>4 DEF Rows, Alone1
  <2> QED
    BY <1>1, <2>1, RowOf DEF StepRows, OtherRows
<1> QED
  BY <1>2, <1>3, <1>4 DEF Rows

LEMMA ApiRows ==
    ASSUME ApiTyped, Rows, NEW h \in Handlers, ApiStep(h)
    PROVE  Rows'
<1>1. \A g \in Handlers : StepRows(co[g])
  BY DEF Rows
<1>2. CASE ClearLink(h)
  BY <1>2, ClearLinkDoes, GoesOn DEF history, OwnSteps, SameTask, SameJob
<1>3. CASE Record(h)
  <2>1. co[h].pc = "record"
    BY <1>3 DEF Record, At
  <2>2. req[co[h].r].status # "NONE"
    BY <1>1, <2>1 DEF StepRows, OwnSteps
  <2> QED
    BY <1>3, <2>1, <2>2, RecordDoes, GoesOn DEF history, OwnSteps, SameTask, SameJob, Ends
<1>4. CASE SendRead(h)
  BY <1>4, SendReadDoes, SameRowsKept, GoesOn DEF history, tables, OwnSteps, SameTask, SameJob, Ends
<1>5. CASE SendWrite(h)
  <2>1. co[h].pc = "sendWrite" /\ co[h].job # "execute"
    BY <1>5, CoHas DEF SendWrite, At, OwnSteps
  <2> QED
    BY <1>5, <2>1, SendWriteDoes, GoesOn DEF history, OwnSteps, SameTask, SameJob, Ends
<1>6. CASE Exclude(h)
  BY <1>6, ExcludeDoes, SameRowsKept, GoesOn DEF history, OwnSteps, SameTask, SameJob
<1>7. CASE Forget(h)
  BY <1>7, ForgetDoes, SameRowsKept, GoesOn DEF history, OwnSteps, SameTask, SameJob
<1>8. CASE Items(h)
  <2>1. /\ Alone1(h) /\ co'[h].job = "reconcile" /\ UNCHANGED <<req, dismantled>>
        /\ \/ co'[h].pc \in {"missing", "items"}
           \/ co'[h].pc = "cancel" /\ req[co'[h].r].status = "PENDING"
    BY <1>8, ItemsDoes DEF SameTask, SameJob, history, Of
  <2>2. StepRows(co[h])'
    BY <2>1 DEF StepRows, OwnSteps
  <2>3. \A g \in Handlers : co'[g] = co[g] \/ StepRows(co[g])'
    BY <2>1, <2>2 DEF Alone1
  <2> QED
    BY <2>1, <2>3, SameRowsKept, RowsKeep
<1>9. CASE Cancel(h)
  <2>1. co[h].pc = "cancel"
    BY <1>9 DEF Cancel, At
  <2>2. req[co[h].r].status # "NONE"
    BY <1>1, <2>1 DEF StepRows
  <2> QED
    BY <1>9, <2>2, CancelDoes, GoesOn DEF history, OwnSteps, SameTask, SameJob
<1>10. CASE Missing(h)
  BY <1>10, MissingDoes, SameRowsKept, GoesOn DEF history, OwnSteps, SameTask, SameJob, Ends
<1>11. CASE Create(h)
  BY <1>11, CreateRows
<1>12. CASE Migrate(h)
  BY <1>12, MigrateDoes, SameRowsKept, GoesOn DEF history, OwnSteps, SameJob, Ends
<1>13. CASE CleanupFails(h)
  BY <1>13, CleanupFailsDoes, SameRowsKept, GoesOn DEF history, tables, OwnSteps, SameTask, SameJob, Ends
<1>14. CASE ListHolders(h)
  BY <1>14, ListHoldersDoes, AfterDoes, SameRowsKept, GoesOn
  DEF history, tables, OwnSteps, SameRemoval, SameTask, SameJob
<1>15. CASE Unassign(h)
  BY <1>15, UnassignDoes, SameRowsKept, GoesOn
  DEF history, tables, OwnSteps, SameRemoval, SameTask, SameJob
<1>16. CASE DropRole(h)
  BY <1>16, DropRoleDoes, AfterDoes, SameRowsKept, GoesOn
  DEF history, tables, OwnSteps, SameRemoval, SameTask, SameJob
<1>17. CASE Pick(h)
  <2>1. CASE co'[h].pc # "list"
    BY <1>17, <2>1, PickDoes, SameRowsKept, GoesOn DEF OwnSteps, SameTask, SameJob, Ends
  <2>2. CASE co'[h].pc = "list"
    <3>1. /\ Alone1(h) /\ req[co'[h].r].status = "APPROVED" /\ co'[h].k = req[co'[h].r].key
          /\ dismantled' = dismantled \cup {co'[h].r} /\ UNCHANGED req
      BY <1>17, <2>2, PickDoes DEF Ends
    <3>2. StepRows(co[h])'
      BY <2>2, <3>1 DEF StepRows, OwnSteps
    <3>3. \A g \in Handlers : co'[g] = co[g] \/ StepRows(co[g])'
      BY <3>1, <3>2 DEF Alone1
    <3> QED
      BY <3>1, <3>3, SameRowsKept, RowsKeep
  <2> QED
    BY <2>1, <2>2
<1>18. CASE Orphans(h)
  BY <1>18, OrphansDoes, SameRowsKept, GoesOn
  DEF history, tables, OwnSteps, SameRemoval, SameTask, SameJob
<1>19. CASE AskDelete(h)
  BY <1>19, AskDeleteDoes, SameRowsKept, GoesOn
  DEF history, tables, OwnSteps, SameRemoval, SameTask, SameJob
<1>20. CASE DeleteShadows(h)
  BY <1>20, DeleteShadowsDoes, SameRowsKept, GoesOn
  DEF history, tables, OwnSteps, SameRemoval, SameTask, SameJob
<1>21. CASE Conclude(h)
  <2>1. co[h].job = "execute" /\ co[h].pc # "pick"
    BY <1>21, CoHas DEF Conclude
  <2>2. req[co[h].r].status # "NONE"
    BY <1>1, <2>1 DEF StepRows
  <2> QED
    BY <1>21, <2>2, ConcludeDoes, GoesOn DEF history, OwnSteps, SameTask, SameJob
<1> QED
  BY <1>2, <1>3, <1>4, <1>5, <1>6, <1>7, <1>8, <1>9, <1>10, <1>11, <1>12, <1>13, <1>14, <1>15,
     <1>16, <1>17, <1>18, <1>19, <1>20, <1>21 DEF ApiStep

\* Every other step.
LEMMA OutsideRows ==
    ASSUME TypeInv, Rows,
           \/ People \/ Discover \/ Upsert \/ DeployRoles \/ Abandon \/ Crash \/ UNCHANGED vars
           \/ \E h \in Handlers : Around(h)
    PROVE  Rows'
<1>0. ApiTyped
  BY DEF TypeInv
<1>1. ASSUME NEW h \in Handlers, NEW t \in 1..Len(link), NEW yes \in BOOLEAN, Click(h, t, yes)
      PROVE  Rows'
  <2>1. /\ Alone1(h) /\ co'[h].job = "decide" /\ req[co'[h].r].status = "PENDING"
        /\ UNCHANGED <<req, dismantled>>
    BY <1>0, <1>1, ClickDoes DEF Begins, tables
  <2>2. StepRows(co[h])'
    BY <2>1 DEF StepRows
  <2>3. \A g \in Handlers : co'[g] = co[g] \/ StepRows(co[g])'
    BY <2>1, <2>2 DEF Alone1
  <2> QED
    BY <1>0, <2>1, <2>3, SameRowsKept, RowsKeep
<1>2. ASSUME NEW h \in Handlers, NEW t \in 1..Len(link), Renew(h, t)
      PROVE  Rows'
  <2>1. /\ Alone1(h) /\ co'[h].job = "renew" /\ req[co'[h].r].status = "PENDING"
        /\ UNCHANGED <<req, dismantled>>
    BY <1>0, <1>2, RenewDoes DEF Begins, tables, history
  <2>2. StepRows(co[h])'
    BY <2>1 DEF StepRows
  <2>3. \A g \in Handlers : co'[g] = co[g] \/ StepRows(co[g])'
    BY <2>1, <2>2 DEF Alone1
  <2> QED
    BY <1>0, <2>1, <2>3, SameRowsKept, RowsKeep
<1>3. ASSUME UNCHANGED <<co, req, dismantled>>
      PROVE  Rows'
  BY <1>0, <1>3, SameRowsKept, RowsKeep
<1>4. CASE People
  BY <1>1, <1>2, <1>3, <1>4 DEF People, Expire, ChangeTarget, tables, history
<1>5. CASE Discover \/ Upsert \/ DeployRoles \/ UNCHANGED vars
  BY <1>3, <1>5
  DEF Discover, Upsert, DeployRoles, vars, removalVars, outside, tables, history
<1>6. ASSUME NEW h \in Handlers, Around(h)
      PROVE  Rows'
  <2>1. UNCHANGED <<req, dismantled>>
    BY <1>6 DEF Around, BeginCycle, ExecutionReturns, Post, Save, DeployCall, DeployReturns, outside,
       tables, history
  <2>2. /\ Alone1(h) /\ co'[h].pc \notin OwnSteps \cup {"cancel"}
        /\ co'[h].job = "execute" => co'[h].pc = "pick"
    BY <1>6, BeginCycleDoes, ExecutionReturnsDoes, PostDoes, SaveDoes, DeployCallDoes,
       DeployReturnsDoes DEF Around, Begins, OwnSteps
  <2> QED
    BY <1>0, <2>1, <2>2, SameRowsKept, GoesOn
<1>7. CASE Abandon
  <2>1. UNCHANGED <<req, dismantled>>
    BY <1>7 DEF Abandon, outside, tables, history
  <2>2. \A g \in Handlers :
              \/ co'[g] = co[g] \/ StepRows(co[g])'
              \/ co'[g].job = co[g].job /\ co'[g].pc = co[g].pc /\ co'[g].r = co[g].r /\ co'[g].k = co[g].k
    BY <1>7, AbandonDoes DEF StepRows, OwnSteps
  <2> QED
    BY <1>0, <2>1, <2>2, SameRowsKept, RowsKeep
<1>8. CASE Crash
  <2>1. UNCHANGED <<req, dismantled>>
    BY <1>8 DEF Crash, ApiCrash, tables, history
  <2>2. \A g \in Handlers : co'[g] = co[g] \/ StepRows(co[g])'
    BY <1>8, CrashDoes DEF StepRows, OwnSteps
  <2> QED
    BY <1>0, <2>1, <2>2, SameRowsKept, RowsKeep
<1> QED
  BY <1>4, <1>5, <1>6, <1>7, <1>8

LEMMA AlwaysRows == SyncSpec => []Rows
<1>1. SyncInit => Rows
  BY DEF SyncInit, RemovalInit, Rows, InOrder, StepRows, OwnSteps, Idle, NoRequest
<1>2. TypeInv /\ Rows /\ [SyncNext]_vars => Rows'
  BY ApiRows, OutsideRows DEF SyncNext, TypeInv
<1> QED
  BY <1>1, <1>2, TypesStay, PTL DEF SyncSpec

-----------------------------------------------------------------------------
(* Who is at work *)

\* The steps of the API neither begin a call nor change who waits for it.
LEMMA ApiCourse ==
    ASSUME ApiTyped, Rows, NEW h \in Handlers, ApiStep(h)
    PROVE  /\ Alone1(h)
           /\ SameJob(h) \/ \E ok \in BOOLEAN : Ends(h, ok)
           /\ UNCHANGED world
<1>1. StepRows(co[h])
  BY DEF Rows
<1>2. /\ Record(h) => req[co[h].r].status # "NONE"
      /\ Cancel(h) => req[co[h].r].status # "NONE"
      /\ Conclude(h) => req[co[h].r].status # "NONE"
  BY <1>1, CoHas DEF Record, Cancel, Conclude, At, StepRows, OwnSteps
<1>3. CASE ClearLink(h) \/ Record(h) \/ SendRead(h) \/ SendWrite(h)
  BY <1>2, <1>3, ClearLinkDoes, RecordDoes, SendReadDoes, SendWriteDoes DEF SameTask
<1>4. CASE Exclude(h) \/ Forget(h) \/ Items(h) \/ Cancel(h)
  BY <1>2, <1>4, ExcludeDoes, ForgetDoes, ItemsDoes, CancelDoes DEF SameTask
<1>5. CASE Missing(h) \/ Create(h) \/ Migrate(h) \/ CleanupFails(h)
  BY <1>2, <1>5, MissingDoes, CreateDoes, MigrateDoes, CleanupFailsDoes DEF SameTask, Rows
<1>6. CASE ListHolders(h) \/ Unassign(h) \/ DropRole(h)
  BY <1>6, ListHoldersDoes, UnassignDoes, DropRoleDoes DEF SameTask, SameRemoval
<1>7. CASE Pick(h) \/ Orphans(h) \/ AskDelete(h) \/ DeleteShadows(h) \/ Conclude(h)
  BY <1>2, <1>7, PickDoes, OrphansDoes, AskDeleteDoes, DeleteShadowsDoes, ConcludeDoes
  DEF SameTask, SameRemoval
<1> QED
  BY <1>3, <1>4, <1>5, <1>6, <1>7 DEF ApiStep

-----------------------------------------------------------------------------
(* The worker waits, and nobody else posts *)

\* A worker that is not interrupted waits for the one call it has made; a
\* reconciliation is the worker's or the deployment's.
CallerFits(c) ==
    /\ c.caller = "worker" => worker.pc \in {"executing", "posting"}
    /\ c.job = "execute" => c.caller = "worker" /\ Worker("executing")
    /\ c.job = "reconcile" =>
          (c.caller = "worker" /\ Worker("posting")) \/ c.caller = "ansible"
    /\ c.job = "legacy" => c.caller = "ansible"
    /\ c.job \in {"decide", "renew"} => c.caller = "people"
WorkerAlone ==
    /\ \A h \in Handlers : CallerFits(co[h])
    /\ \A h, g \in Handlers : co[h].caller = "worker" /\ co[g].caller = "worker" => h = g

LEMMA PeopleCall ==
    ASSUME ApiTyped, People
    PROVE  \/ UNCHANGED co
           \/ \E h \in Handlers : Begins(h, "decide", "clear", "people")
           \/ \E h \in Handlers : Begins(h, "renew", "sendRead", "people")
<1>1. ASSUME NEW t \in 1..Len(link), Expire(t)
      PROVE  UNCHANGED co
  BY <1>1 DEF Expire
<1>2. ASSUME NEW k \in Keys, NEW what, ChangeTarget(k, what)
      PROVE  UNCHANGED co
  BY <1>2 DEF ChangeTarget
<1> QED
  BY <1>1, <1>2, ClickDoes, RenewDoes DEF People

LEMMA NextWorkerAlone ==
    ASSUME TypeInv, Rows, WorkerAlone, ~May("abandon"), [SyncNext]_vars
    PROVE  WorkerAlone'
<1>0. ApiTyped
  BY DEF TypeInv
<1>1. ASSUME NEW h \in Handlers, ApiStep(h), UNCHANGED worker
      PROVE  WorkerAlone'
  <2>1. Alone1(h) /\ (SameJob(h) \/ \E ok \in BOOLEAN : Ends(h, ok))
    BY <1>0, <1>1, ApiCourse
  <2>2. \A g \in Handlers : co'[g].caller = co[g].caller /\ co'[g].job \in {co[g].job, "none"}
    BY <2>1 DEF Alone1, SameJob, Ends
  <2> QED
    BY <1>1, <2>2 DEF WorkerAlone, CallerFits, Worker
<1>2. CASE People /\ UNCHANGED worker
  BY <1>0, <1>2, PeopleCall DEF WorkerAlone, CallerFits, Worker, Begins, Alone1
<1>3. ASSUME NEW h \in Handlers, BeginCycle(h)
      PROVE  WorkerAlone'
  BY <1>3, BeginCycleDoes DEF WorkerAlone, CallerFits, Worker, Begins, Alone1
<1>4. ASSUME NEW h \in Handlers, ExecutionReturns(h)
      PROVE  WorkerAlone'
  BY <1>4, ExecutionReturnsDoes DEF WorkerAlone, CallerFits, Worker, Alone1, Answered
<1>5. ASSUME NEW h \in Handlers, Post(h)
      PROVE  WorkerAlone'
  <2>1. worker'.pc = "posting" /\ worker.pc = "post"
    BY <1>5, PostDoes DEF TypeInv, SyncTyped, Worker
  <2> QED
    BY <1>5, <2>1, PostDoes DEF WorkerAlone, CallerFits, Worker, Begins, Alone1
<1>6. ASSUME NEW h \in Handlers, Save(h)
      PROVE  WorkerAlone'
  BY <1>6, SaveDoes DEF WorkerAlone, CallerFits, Worker, Alone1, Answered
<1>7. ASSUME NEW h \in Handlers, DeployCall(h) \/ DeployReturns(h)
      PROVE  WorkerAlone'
  BY <1>7, DeployCallDoes, DeployReturnsDoes DEF WorkerAlone, CallerFits, Worker, Begins, Alone1
<1>8. CASE Discover \/ Upsert
  <2>1. UNCHANGED co /\ worker.pc \in {"discover", "upsert"}
    BY <1>8 DEF Discover, Upsert, Worker
  <2> QED
    BY <2>1 DEF WorkerAlone, CallerFits, Worker
<1>9. CASE DeployRoles \/ UNCHANGED vars
  BY <1>9 DEF DeployRoles, vars, removalVars, WorkerAlone, CallerFits, Worker
<1>10. CASE Abandon
  BY <1>10 DEF Abandon
<1>11. CASE Crash
  <2>1. UNCHANGED worker
    BY <1>11 DEF Crash
  <2>2. \A g \in Handlers : \/ co'[g] = co[g]
                            \/ co'[g].caller = co[g].caller /\ co'[g].job = "none"
    BY <1>11, CrashDoes
  <2> QED
    BY <2>1, <2>2 DEF WorkerAlone, CallerFits, Worker
<1> QED
  BY <1>1, <1>2, <1>3, <1>4, <1>5, <1>6, <1>7, <1>8, <1>9, <1>10, <1>11 DEF SyncNext, Around

LEMMA AlwaysWorkerAlone == SyncSpec => [](~May("abandon") => WorkerAlone)
<1>1. SyncInit => WorkerAlone
  BY DEF SyncInit, RemovalInit, WorkerAlone, CallerFits, Idle
<1>2. TypeInv /\ Rows /\ (~May("abandon") => WorkerAlone) /\ [SyncNext]_vars
        => (~May("abandon") => WorkerAlone)'
  BY NextWorkerAlone, FaultsStay DEF May
<1> QED
  BY <1>1, <1>2, TypesStay, AlwaysRows, PTL DEF SyncSpec

\* Without one, no deployment.
NoDeployment == deploy.pc = "over" /\ \A h \in Handlers : co[h].caller # "ansible"

LEMMA NextNoDeployment ==
    ASSUME TypeInv, Rows, NoDeployment, [SyncNext]_vars
    PROVE  NoDeployment'
<1>0. ApiTyped
  BY DEF TypeInv
<1>1. ASSUME NEW h \in Handlers, ApiStep(h), UNCHANGED deploy
      PROVE  NoDeployment'
  <2>1. Alone1(h) /\ (SameJob(h) \/ \E ok \in BOOLEAN : Ends(h, ok))
    BY <1>0, <1>1, ApiCourse
  <2> QED
    BY <1>1, <2>1 DEF NoDeployment, Alone1, SameJob, Ends
<1>2. CASE People /\ UNCHANGED deploy
  BY <1>0, <1>2, PeopleCall DEF NoDeployment, Begins, Alone1
<1>3. ASSUME NEW h \in Handlers, BeginCycle(h) \/ ExecutionReturns(h)
      PROVE  NoDeployment'
  BY <1>3, BeginCycleDoes, ExecutionReturnsDoes DEF NoDeployment, Begins, Alone1
<1>4. ASSUME NEW h \in Handlers, Post(h) \/ Save(h)
      PROVE  NoDeployment'
  BY <1>4, PostDoes, SaveDoes DEF NoDeployment, Begins, Alone1
<1>5. ASSUME NEW h \in Handlers, DeployCall(h) \/ DeployReturns(h)
      PROVE  NoDeployment'
  BY <1>5, DeployCallDoes DEF NoDeployment, DeployReturns, Answered
<1>6. CASE Discover \/ Upsert \/ DeployRoles \/ UNCHANGED vars
  BY <1>6 DEF Discover, Upsert, DeployRoles, vars, removalVars, NoDeployment
<1>7. CASE Abandon
  BY <1>7, AbandonDoes DEF NoDeployment, Abandon
<1>8. CASE Crash
  BY <1>8, CrashDoes DEF NoDeployment, Crash
<1> QED
  BY <1>1, <1>2, <1>3, <1>4, <1>5, <1>6, <1>7, <1>8 DEF SyncNext, Around

LEMMA AlwaysNoDeployment == SyncSpec => [](~May("deploy") => NoDeployment)
<1>1. SyncInit => (~May("deploy") => NoDeployment)
  BY DEF SyncInit, RemovalInit, NoDeployment, Idle
<1>2. TypeInv /\ Rows /\ (~May("deploy") => NoDeployment) /\ [SyncNext]_vars
        => (~May("deploy") => NoDeployment)'
  BY NextNoDeployment, FaultsStay DEF May
<1> QED
  BY <1>1, <1>2, TypesStay, AlwaysRows, PTL DEF SyncSpec

\* Without login accounts no reconciliation removes a role.
NoExclusion(c) ==
    c.job = "reconcile" => /\ c.pc \notin {"list", "unassign", "dropRole", "forget"}
                           /\ c.pc = "exclude" => c.todo = {}
NoLogins ==
    /\ \A k \in Keys : native[k] # "login"
    /\ worker.excluded = {}
    /\ \A h \in Handlers : NoExclusion(co[h])

\* A reconciliation goes from step to step.
LEMMA ReconcilePath ==
    ASSUME ApiTyped, Rows, NEW h \in Handlers, ApiStep(h), co'[h].job = "reconcile"
    PROVE  /\ co[h].job = "reconcile"
           /\ \/ co[h].pc = "exclude" /\ co[h].todo = {} /\ co'[h].pc = "items"
              \/ co[h].pc = "exclude" /\ co[h].todo # {} /\ co'[h].pc = "list"
              \/ co[h].pc \in {"list", "unassign", "dropRole"}
                 /\ co'[h].pc \in {"unassign", "dropRole", "forget"}
              \/ co[h].pc = "forget" /\ co'[h].pc = "exclude"
              \/ co[h].pc \in {"items", "cancel"} /\ co'[h].pc \in {"items", "cancel", "missing"}
              \/ co[h].pc \in {"missing", "create", "sendRead", "sendWrite"}
                 /\ co'[h].pc \in {"missing", "create", "sendRead", "sendWrite"}
<1>1. StepRows(co[h])
  BY DEF Rows
<1>2. CASE ClearLink(h) \/ Record(h) \/ SendRead(h) \/ SendWrite(h)
  <2>1. /\ ClearLink(h) \/ Record(h) => co[h].job = "decide"
        /\ Record(h) => req[co[h].r].status # "NONE"
    BY <1>1, CoHas DEF ClearLink, Record, At, StepRows, OwnSteps
  <2> QED
    BY <1>2, <2>1, ClearLinkDoes, RecordDoes, SendReadDoes, SendWriteDoes DEF SameTask, SameJob, Ends
<1>3. CASE Exclude(h) \/ Forget(h) \/ Items(h) \/ Missing(h)
  BY <1>3, ExcludeDoes, ForgetDoes, ItemsDoes, MissingDoes DEF SameTask, SameJob, Ends
<1>4. CASE Cancel(h) \/ Create(h)
  <2>1. InOrder /\ (Cancel(h) => req[co[h].r].status # "NONE")
    BY <1>1 DEF Cancel, At, StepRows, Rows
  <2> QED
    BY <1>4, <2>1, CancelDoes, CreateDoes DEF SameTask, SameJob
<1>5. CASE Migrate(h) \/ CleanupFails(h)
  BY <1>5, MigrateDoes, CleanupFailsDoes DEF SameTask, SameJob, Ends
<1>6. CASE ListHolders(h) \/ Unassign(h) \/ DropRole(h)
  BY <1>6, ListHoldersDoes, UnassignDoes, DropRoleDoes, AfterDoes DEF SameRemoval, SameTask, SameJob
<1>7. CASE Pick(h) \/ Orphans(h) \/ AskDelete(h) \/ DeleteShadows(h)
  BY <1>7, PickDoes, OrphansDoes, AskDeleteDoes, DeleteShadowsDoes
  DEF SameRemoval, SameTask, SameJob, Ends
<1>8. CASE Conclude(h)
  <2>1. co[h].job = "execute" /\ co[h].pc # "pick"
    BY <1>8, CoHas DEF Conclude
  <2>2. req[co[h].r].status # "NONE"
    BY <1>1, <2>1 DEF StepRows
  <2> QED
    BY <1>8, <2>2, ConcludeDoes DEF SameTask, SameJob
<1> QED
  BY <1>2, <1>3, <1>4, <1>5, <1>6, <1>7, <1>8 DEF ApiStep

LEMMA NextNoLogins ==
    ASSUME TypeInv, Rows, NoLogins, ~May("login"), [SyncNext]_vars
    PROVE  NoLogins'
<1>0. ApiTyped
  BY DEF TypeInv
<1>1. ASSUME NEW h \in Handlers, ApiStep(h), UNCHANGED worker
      PROVE  NoLogins'
  <2>1. Alone1(h) /\ UNCHANGED native
    BY <1>0, <1>1, ApiCourse DEF world
  <2>2. NoExclusion(co[h])
    BY DEF NoLogins
  <2>3. NoExclusion(co'[h])
    BY <1>0, <1>1, <2>2, ReconcilePath DEF NoExclusion
  <2> QED
    BY <1>1, <2>1, <2>3 DEF NoLogins, Alone1
<1>2. CASE People /\ UNCHANGED worker
  <2>1. \A k \in Keys : native'[k] # "login"
    <3>1. UNCHANGED native \/ \E k \in Keys : \E what : what # "login" /\ native' = [native EXCEPT ![k] = what]
      BY <1>2 DEF People, Renew, Click, Expire, ChangeTarget, world
    <3>2. native \in [Keys -> {"entitlement", "login", "absent"}]
      BY <1>0 DEF ApiTyped, WorldTyped
    <3> QED
      BY <3>1, <3>2 DEF NoLogins
  <2>2. \A g \in Handlers : NoExclusion(co'[g])
    BY <1>0, <1>2, PeopleCall DEF NoLogins, NoExclusion, Begins, Alone1
  <2> QED
    BY <1>2, <2>1, <2>2 DEF NoLogins
<1>3. ASSUME NEW h \in Handlers, BeginCycle(h) \/ ExecutionReturns(h)
      PROVE  NoLogins'
  BY <1>3, BeginCycleDoes, ExecutionReturnsDoes DEF NoLogins, NoExclusion, Begins, Alone1, outside, world
<1>4. ASSUME NEW h \in Handlers, Post(h)
      PROVE  NoLogins'
  <2>1. worker'.excluded = {} /\ UNCHANGED native /\ Alone1(h)
    BY <1>4, PostDoes DEF NoLogins, TypeInv, SyncTyped, outside, world, Begins
  <2>2. co'[h].pc = "exclude" /\ co'[h].todo = {}
    BY <1>4, PostDoes DEF Begins, NoLogins
  <2> QED
    BY <2>1, <2>2 DEF NoLogins, NoExclusion, Alone1
<1>5. ASSUME NEW h \in Handlers, Save(h)
      PROVE  NoLogins'
  BY <1>5, SaveDoes DEF NoLogins, NoExclusion, Alone1, outside, world
<1>6. ASSUME NEW h \in Handlers, DeployCall(h)
      PROVE  NoLogins'
  <2>1. Login = {}
    BY DEF NoLogins, Login
  <2>2. UNCHANGED <<worker, native>> /\ Alone1(h)
    BY <1>6, DeployCallDoes DEF outside, world, Begins
  <2>3. NoExclusion(co'[h])
    BY <1>6, <2>1, DeployCallDoes DEF NoExclusion, Begins
  <2> QED
    BY <2>2, <2>3 DEF NoLogins, Alone1
<1>7. ASSUME NEW h \in Handlers, DeployReturns(h)
      PROVE  NoLogins'
  BY <1>7, DeployReturnsDoes DEF NoLogins, NoExclusion, Alone1, outside, world
<1>8. CASE Discover
  <2>1. Login = {}
    BY DEF NoLogins, Login
  <2>2. worker'.excluded = {}
    BY <1>8, <2>1 DEF Discover, Sleeping
  <2> QED
    BY <1>8, <2>2 DEF Discover, NoLogins, outside, world
<1>9. CASE Upsert
  <2>1. worker'.excluded = {}
    BY <1>9 DEF Upsert, Sleeping, NoLogins, TypeInv, SyncTyped
  <2> QED
    BY <1>9, <2>1 DEF Upsert, NoLogins, world
<1>10. CASE DeployRoles \/ UNCHANGED vars
  BY <1>10 DEF DeployRoles, vars, removalVars, world, NoLogins
<1>11. CASE Abandon
  <2>1. worker'.excluded = {} /\ UNCHANGED native
    BY <1>11 DEF Abandon, Sleeping, NoLogins, TypeInv, SyncTyped, outside, world
  <2> QED
    BY <1>11, <2>1, AbandonDoes DEF NoLogins, NoExclusion
<1>12. CASE Crash
  <2>1. UNCHANGED <<worker, native>>
    BY <1>12 DEF Crash, ApiCrash, world
  <2> QED
    BY <1>12, <2>1, CrashDoes DEF NoLogins, NoExclusion
<1> QED
  BY <1>1, <1>2, <1>3, <1>4, <1>5, <1>6, <1>7, <1>8, <1>9, <1>10, <1>11, <1>12 DEF SyncNext, Around

LEMMA AlwaysNoLogins == SyncSpec => [](~May("login") => NoLogins)
<1>1. SyncInit => NoLogins
  BY DEF SyncInit, RemovalInit, NoLogins, NoExclusion, Idle, Sleeping
<1>2. TypeInv /\ Rows /\ (~May("login") => NoLogins) /\ [SyncNext]_vars
        => (~May("login") => NoLogins)'
  BY NextNoLogins, FaultsStay DEF May
<1> QED
  BY <1>1, <1>2, TypesStay, AlwaysRows, PTL DEF SyncSpec

-----------------------------------------------------------------------------
(* One open request *)

\* No step but Create opens a request.
LEMMA RowsWritten ==
    ASSUME ApiTyped, Rows, NEW h \in Handlers, ApiStep(h)
    PROVE  Create(h) \/ KeptRows
<1>1. StepRows(co[h])
  BY DEF Rows
<1>2. /\ Record(h) => req[co[h].r].status # "NONE"
      /\ Cancel(h) => req[co[h].r].status # "NONE"
      /\ Conclude(h) => req[co[h].r].status # "NONE"
  BY <1>1, CoHas DEF Record, Cancel, Conclude, At, StepRows, OwnSteps
<1>3. CASE ClearLink(h) \/ Record(h) \/ SendRead(h) \/ SendWrite(h)
  BY <1>2, <1>3, SameRowsKept, ClearLinkDoes, RecordDoes, SendReadDoes, SendWriteDoes DEF tables
<1>4. CASE Exclude(h) \/ Forget(h) \/ Items(h) \/ Cancel(h) \/ Missing(h)
  BY <1>2, <1>4, SameRowsKept, ExcludeDoes, ForgetDoes, ItemsDoes, CancelDoes, MissingDoes
<1>5. CASE Migrate(h) \/ CleanupFails(h) \/ ListHolders(h) \/ Unassign(h) \/ DropRole(h)
  BY <1>5, SameRowsKept, MigrateDoes, CleanupFailsDoes, ListHoldersDoes, UnassignDoes, DropRoleDoes
  DEF tables
<1>6. CASE Pick(h) \/ Orphans(h) \/ AskDelete(h) \/ DeleteShadows(h) \/ Conclude(h)
  BY <1>2, <1>6, SameRowsKept, PickDoes, OrphansDoes, AskDeleteDoes, DeleteShadowsDoes, ConcludeDoes
  DEF tables
<1> QED
  BY <1>3, <1>4, <1>5, <1>6 DEF ApiStep

\* People, the worker and the deployment write no row.
LEMMA OutsideRequests ==
    ASSUME \/ People \/ Discover \/ Upsert \/ DeployRoles \/ Abandon \/ Crash \/ UNCHANGED vars
           \/ \E h \in Handlers : Around(h)
    PROVE  UNCHANGED <<tables, dismantled, revoked, lost>>
<1>1. People => UNCHANGED <<tables, dismantled, revoked, lost>>
  BY DEF People, Click, Renew, Expire, ChangeTarget, tables, history
<1>2. Discover \/ Upsert \/ DeployRoles => UNCHANGED <<tables, dismantled, revoked, lost>>
  BY DEF Discover, Upsert, DeployRoles, outside, tables, history
<1>3. Abandon \/ Crash \/ UNCHANGED vars => UNCHANGED <<tables, dismantled, revoked, lost>>
  BY DEF Abandon, Crash, ApiCrash, vars, removalVars, outside, tables, history
<1>4. ASSUME NEW h \in Handlers, Around(h)
      PROVE  UNCHANGED <<tables, dismantled, revoked, lost>>
  BY <1>4 DEF Around, BeginCycle, ExecutionReturns, Post, Save, DeployCall, DeployReturns, outside,
     tables, history
<1> QED
  BY <1>1, <1>2, <1>3, <1>4

\* Outside the API calls begin, end, change hands or stay as they are.
LEMMA OutsideCourse ==
    ASSUME TypeInv, NEW g \in Handlers,
           \/ People \/ Discover \/ Upsert \/ DeployRoles \/ Abandon \/ Crash \/ UNCHANGED vars
           \/ \E h \in Handlers : Around(h)
    PROVE  \/ co'[g] = co[g]
           \/ /\ May("abandon") /\ co'[g].job = co[g].job /\ co'[g].pc = co[g].pc
              /\ co'[g].r = co[g].r /\ co'[g].k = co[g].k /\ co'[g].todo = co[g].todo
              /\ co'[g].caller \in {co[g].caller, "people"}
           \/ /\ co'[g].pc = "idle" /\ co'[g].job = "none" /\ co'[g].caller = "people"
              /\ co[g].pc \in Over
           \/ /\ May("api") /\ co'[g].pc \in {"idle", "failed"} /\ co'[g].job = "none"
              /\ co'[g].caller = co[g].caller
           \/ co[g].pc = "idle" /\ co'[g].pc = "clear" /\ co'[g].job = "decide" /\ co'[g].caller = "people" /\ People
           \/ co[g].pc = "idle" /\ co'[g].pc = "sendRead" /\ co'[g].job = "renew" /\ co'[g].caller = "people" /\ People
           \/ co[g].pc = "idle" /\ co'[g].pc = "pick" /\ co'[g].job = "execute" /\ BeginCycle(g)
           \/ co[g].pc = "idle" /\ co'[g].pc = "exclude" /\ co'[g].job = "reconcile" /\ Post(g)
           \/ co[g].pc = "idle" /\ DeployCall(g)
<1>1. CASE People
  BY <1>1, PeopleCall DEF TypeInv, Begins, Alone1
<1>2. CASE Discover \/ Upsert \/ DeployRoles \/ UNCHANGED vars
  BY <1>2 DEF Discover, Upsert, DeployRoles, vars, removalVars
<1>3. CASE Abandon
  BY <1>3, AbandonDoes
<1>4. CASE Crash
  BY <1>4, CrashDoes
<1>5. ASSUME NEW h \in Handlers, BeginCycle(h) \/ ExecutionReturns(h) \/ Post(h) \/ Save(h)
      PROVE  \/ co'[g] = co[g]
             \/ /\ co'[g].pc = "idle" /\ co'[g].job = "none" /\ co'[g].caller = "people"
                /\ co[g].pc \in Over
             \/ co[g].pc = "idle" /\ co'[g].pc = "pick" /\ co'[g].job = "execute" /\ BeginCycle(g)
             \/ co[g].pc = "idle" /\ co'[g].pc = "exclude" /\ co'[g].job = "reconcile" /\ Post(g)
  <2>1. CASE g # h
    BY <1>5, <2>1, BeginCycleDoes, ExecutionReturnsDoes, PostDoes, SaveDoes DEF Begins, Alone1
  <2>2. CASE g = h
    BY <1>5, <2>2, BeginCycleDoes, ExecutionReturnsDoes, PostDoes, SaveDoes DEF Begins, Answered, Over
  <2> QED
    BY <2>1, <2>2
<1>6. ASSUME NEW h \in Handlers, DeployCall(h) \/ DeployReturns(h)
      PROVE  \/ co'[g] = co[g]
             \/ /\ co'[g].pc = "idle" /\ co'[g].job = "none" /\ co'[g].caller = "people"
                /\ co[g].pc \in Over
             \/ co[g].pc = "idle" /\ DeployCall(g)
  <2>1. CASE g # h
    BY <1>6, <2>1, DeployCallDoes, DeployReturnsDoes DEF Begins, Alone1
  <2>2. CASE g = h
    BY <1>6, <2>2, DeployCallDoes, DeployReturnsDoes DEF Begins, Answered, Over
  <2> QED
    BY <2>1, <2>2
<1> QED
  BY <1>1, <1>2, <1>3, <1>4, <1>5, <1>6 DEF Around

LEMMA ComesToCreate ==
    ASSUME ApiTyped, Rows, NEW h \in Handlers, ApiStep(h), co'[h].pc = "create"
    PROVE  \/ co[h].job = "legacy"
           \/ Missing(h) /\ Of(co'[h].k, "PENDING") = {}
<1>1. StepRows(co[h]) /\ InOrder
  BY DEF Rows
<1>2. /\ Record(h) => req[co[h].r].status # "NONE"
      /\ Cancel(h) => req[co[h].r].status # "NONE"
      /\ Conclude(h) => req[co[h].r].status # "NONE"
  BY <1>1, CoHas DEF Record, Cancel, Conclude, At, StepRows, OwnSteps
<1>3. CASE ClearLink(h) \/ Record(h) \/ SendRead(h) \/ SendWrite(h)
  BY <1>2, <1>3, ClearLinkDoes, RecordDoes, SendReadDoes, SendWriteDoes DEF Ends
<1>4. CASE Exclude(h) \/ Forget(h) \/ Items(h) \/ Cancel(h) \/ Create(h)
  BY <1>1, <1>2, <1>4, ExcludeDoes, ForgetDoes, ItemsDoes, CancelDoes, CreateDoes
<1>5. CASE Missing(h)
  BY <1>5, MissingDoes DEF Ends
<1>6. CASE Migrate(h) \/ CleanupFails(h) \/ ListHolders(h) \/ Unassign(h) \/ DropRole(h)
  BY <1>6, MigrateDoes, CleanupFailsDoes, ListHoldersDoes, UnassignDoes, DropRoleDoes, AfterDoes DEF Ends
<1>7. CASE Pick(h) \/ Orphans(h) \/ AskDelete(h) \/ DeleteShadows(h) \/ Conclude(h)
  BY <1>2, <1>7, PickDoes, OrphansDoes, AskDeleteDoes, DeleteShadowsDoes, ConcludeDoes DEF Ends
<1> QED
  BY <1>3, <1>4, <1>5, <1>6, <1>7 DEF ApiStep

\* An entitlement has one pending request, and none while one is being made.
AskedOnce ==
    /\ \A q, r \in Requests :
          req[q].status = "PENDING" /\ req[r].status = "PENDING" /\ req[q].key = req[r].key => q = r
    /\ \A h \in Handlers : co[h].pc = "create" => Of(co[h].k, "PENDING") = {}

Calm == WorkerAlone /\ NoDeployment

\* One reconciliation at a time, and no registration of legacy roles.
LEMMA OneReconciles ==
    ASSUME Calm, NEW g \in Handlers, NEW h \in Handlers
    PROVE  /\ co[h].job # "legacy"
           /\ co[g].job = "reconcile" => co[g].caller = "worker" /\ Worker("posting")
           /\ co[g].job = "execute" => co[g].caller = "worker" /\ Worker("executing")
           /\ co[g].job \in {"reconcile", "execute"} /\ co[h].job \in {"reconcile", "execute"} => g = h
  BY DEF Calm, WorkerAlone, NoDeployment, CallerFits

LEMMA KeptPending ==
    ASSUME KeptRows, NEW k
    PROVE  Of(k, "PENDING")' \subseteq Of(k, "PENDING")
  BY DEF KeptRows, Of

LEMMA CreateAsksOnce ==
    ASSUME ApiTyped, Rows, Calm, AskedOnce, NEW h \in Handlers, Create(h)
    PROVE  AskedOnce'
<1>0. InOrder
  BY DEF Rows
<1> PICK r : r = co'[h].r
  OBVIOUS
<1>1. /\ co[h].pc = "create" /\ co[h].job \in {"reconcile", "legacy"}
      /\ co'[h].pc = "sendRead" /\ Alone1(h)
      /\ r \in Requests /\ req[r].status = "NONE" /\ OtherRows(r)
  BY <1>0, CreateDoes
<1>2. req'[r] = [key |-> co[h].k, status |-> "PENDING", level |-> 1, token |-> 0]
  BY <1>0, CreateDoes
<1>3. req'[r].key = co[h].k /\ req'[r].status = "PENDING"
  BY <1>2
<1>4. \A q \in Requests : ~(req[q].key = co[h].k /\ req[q].status = "PENDING")
  BY <1>1 DEF AskedOnce, Of
<1>5. ASSUME NEW q \in Requests, NEW s \in Requests,
             req'[q].status = "PENDING", req'[s].status = "PENDING", req'[q].key = req'[s].key
      PROVE  q = s
  BY <1>1, <1>3, <1>4, <1>5 DEF OtherRows, AskedOnce
<1>6. ASSUME NEW g \in Handlers, co'[g].pc = "create"
      PROVE  FALSE
  <2>1. g # h /\ co[g].pc = "create"
    BY <1>1, <1>6 DEF Alone1
  <2>2. co[g].job \in {"reconcile", "legacy"}
    BY <2>1, CoHas
  <2> QED
    BY <1>1, <2>1, <2>2, OneReconciles
<1> QED
  BY <1>5, <1>6 DEF AskedOnce

LEMMA NextAskedOnce ==
    ASSUME TypeInv, Rows, Calm, AskedOnce, [SyncNext]_vars
    PROVE  AskedOnce'
<1>0. ApiTyped
  BY DEF TypeInv
<1>1. ASSUME KeptRows,
             \A g \in Handlers : co'[g].pc = "create" =>
                \/ co'[g].k = co[g].k /\ co[g].pc = "create"
                \/ Of(co'[g].k, "PENDING") = {}
      PROVE  AskedOnce'
  <2>1. \A q, r \in Requests :
           req'[q].status = "PENDING" /\ req'[r].status = "PENDING" /\ req'[q].key = req'[r].key => q = r
    BY <1>1 DEF KeptRows, AskedOnce
  <2>2. \A g \in Handlers : co'[g].pc = "create" => Of(co'[g].k, "PENDING") = {}
    BY <1>1 DEF AskedOnce
  <2>3. \A g \in Handlers : co'[g].pc = "create" =>
            \A r \in Requests : ~(req'[r].key = co'[g].k /\ req'[r].status = "PENDING")
    BY <1>1, <2>2 DEF KeptRows, Of
  <2> QED
    BY <2>1, <2>3 DEF AskedOnce, Of
<1>2. ASSUME NEW h \in Handlers, ApiStep(h), ~Create(h)
      PROVE  AskedOnce'
  <2>1. KeptRows /\ Alone1(h)
    BY <1>0, <1>2, RowsWritten, ApiCourse
  <2>2. co'[h].pc = "create" => Of(co'[h].k, "PENDING") = {}
    BY <1>0, <1>2, ComesToCreate, OneReconciles
  <2> QED
    BY <1>1, <2>1, <2>2 DEF Alone1
<1>3. CASE \/ People \/ Discover \/ Upsert \/ DeployRoles \/ Abandon \/ Crash \/ UNCHANGED vars
           \/ \E h \in Handlers : Around(h)
  <2>1. KeptRows
    BY <1>3, OutsideRequests, SameRowsKept DEF tables
  <2>2. ASSUME NEW g \in Handlers, DeployCall(g)
        PROVE  FALSE
    BY <2>2, DeployCallDoes DEF Calm, NoDeployment
  <2>3. \A g \in Handlers : co'[g].pc = "create" => co'[g].k = co[g].k /\ co[g].pc = "create"
    BY <1>3, <2>2, OutsideCourse
  <2> QED
    BY <1>1, <2>1, <2>3
<1> QED
  BY <1>0, <1>2, <1>3, CreateAsksOnce DEF SyncNext

LEMMA AlwaysAskedOnce == SyncSpec => []({"abandon", "deploy"} \cap faults = {} => Calm /\ AskedOnce)
<1>1. SyncInit => AskedOnce
  BY DEF SyncInit, RemovalInit, AskedOnce, Idle, NoRequest
<1>2. {"abandon", "deploy"} \cap faults = {} <=> ~May("abandon") /\ ~May("deploy")
  BY DEF May
<1>3. ({"abandon", "deploy"} \cap faults = {})' <=> ~May("abandon")' /\ ~May("deploy")'
  BY DEF May
<1>4. (~May("abandon") => WorkerAlone) /\ (~May("deploy") => NoDeployment)
        => ({"abandon", "deploy"} \cap faults = {} => Calm)
  BY <1>2 DEF Calm
<1>5. TypeInv /\ Rows /\ ({"abandon", "deploy"} \cap faults = {} => Calm)
        /\ ({"abandon", "deploy"} \cap faults = {} => AskedOnce) /\ [SyncNext]_vars
        => ({"abandon", "deploy"} \cap faults = {} => AskedOnce)'
  BY NextAskedOnce, FaultsStay
<1> QED
  BY <1>1, <1>4, <1>5, TypesStay, AlwaysRows, AlwaysWorkerAlone, AlwaysNoDeployment, PTL DEF SyncSpec

\* One entitlement has at most one request that waits for an answer, for any
\* numbers of entitlements, requests and calls served at once and under every
\* fault but a worker that does not wait and a deployment: between the lookup in
\* reconcile and the creation, nobody else asks.
THEOREM AsksOnce == SyncSpec => []OneOpenRequest
<1>1. ({"abandon", "deploy"} \cap faults = {} => Calm /\ AskedOnce) => OneOpenRequest
  <2> SUFFICES ASSUME AskedOnce, NEW k \in Keys
               PROVE  Cardinality(Of(k, "PENDING")) <= 1
    BY DEF OneOpenRequest
  <2>1. CASE Of(k, "PENDING") = {}
    BY <2>1, FS_EmptySet
  <2>2. ASSUME NEW r \in Of(k, "PENDING")
        PROVE  Cardinality(Of(k, "PENDING")) <= 1
    <3>1. Of(k, "PENDING") = {r}
      BY <2>2 DEF AskedOnce, Of
    <3>2. Cardinality({r}) = 1
      BY FS_Singleton
    <3> QED
      BY <3>1, <3>2
  <2> QED
    BY <2>1, <2>2
<1> QED
  BY <1>1, AlwaysAskedOnce, PTL

-----------------------------------------------------------------------------
(* What is missing has a request *)

HasRequest(k) == \E r \in Used : req[r].key = k /\ (req[r].status = "CANCELLED" => r \in revoked)
\* A reconciliation removes the role of k, or is about to ask.
Handled(k) ==
    \E h \in Handlers : /\ co[h].job = "reconcile" /\ co[h].k = k
                        /\ co[h].pc \in {"list", "unassign", "dropRole", "forget", "create"}
Accounted ==
    /\ \A k \in Keys \ Legacy : inventory[k] = "missing" => HasRequest(k) \/ Handled(k)
    /\ \A h \in Handlers : co[h].pc = "cancel" =>
          req[co[h].r].key \in Keys /\ inventory[req[co[h].r].key] = "active"

\* Requests are cancelled by execute, or for an entitlement that is back or a
\* login account.
LEMMA CancelledBy ==
    ASSUME ApiTyped, Rows, NEW h \in Handlers, ApiStep(h), NEW r \in Requests,
           req'[r].status = "CANCELLED"
    PROVE  \/ req[r].status = "CANCELLED"
           \/ r \in revoked'
           \/ Cancel(h) /\ r = co[h].r
           \/ /\ Exclude(h) /\ co[h].todo # {} /\ co'[h].pc = "list" /\ co'[h].job = "reconcile"
              /\ req[r].key = co'[h].k
<1>1. StepRows(co[h]) /\ InOrder
  BY DEF Rows
<1>2. /\ Record(h) => req[co[h].r].status # "NONE"
      /\ Cancel(h) => req[co[h].r].status # "NONE"
      /\ Conclude(h) => req[co[h].r].status # "NONE"
  BY <1>1, CoHas DEF Record, Cancel, Conclude, At, StepRows, OwnSteps
<1>3. CASE ClearLink(h) \/ Record(h) \/ SendRead(h) \/ SendWrite(h)
  BY <1>2, <1>3, ClearLinkDoes, RecordDoes, SendReadDoes, SendWriteDoes DEF tables, OtherRows
<1>4. CASE Exclude(h)
  BY <1>4, ExcludeDoes DEF Of, SameTask, SameJob
<1>5. CASE Forget(h) \/ Items(h) \/ Cancel(h) \/ Missing(h)
  BY <1>2, <1>5, ForgetDoes, ItemsDoes, CancelDoes, MissingDoes DEF OtherRows
<1>6. CASE Create(h)
  <2>1. req'[co'[h].r] = [key |-> co[h].k, status |-> "PENDING", level |-> 1, token |-> 0]
    BY <1>1, <1>6, CreateDoes
  <2>2. req'[co'[h].r].status = "PENDING"
    BY <2>1
  <2> QED
    BY <1>1, <1>6, <2>2, CreateDoes DEF OtherRows
<1>7. CASE Migrate(h) \/ CleanupFails(h) \/ ListHolders(h) \/ Unassign(h) \/ DropRole(h)
  BY <1>7, MigrateDoes, CleanupFailsDoes, ListHoldersDoes, UnassignDoes, DropRoleDoes DEF tables
<1>8. CASE Pick(h)
  BY <1>8, PickDoes DEF OtherRows
<1>9. CASE Orphans(h) \/ AskDelete(h) \/ DeleteShadows(h) \/ Conclude(h)
  BY <1>2, <1>9, OrphansDoes, AskDeleteDoes, DeleteShadowsDoes, ConcludeDoes DEF tables, OtherRows
<1> QED
  BY <1>3, <1>4, <1>5, <1>6, <1>7, <1>8, <1>9 DEF ApiStep

\* What was revoked stays so.
LEMMA RevokedStay ==
    ASSUME ApiTyped, Rows, NEW h \in Handlers, ApiStep(h)
    PROVE  revoked \subseteq revoked'
<1>1. StepRows(co[h]) /\ InOrder
  BY DEF Rows
<1>2. /\ Record(h) => req[co[h].r].status # "NONE"
      /\ Cancel(h) => req[co[h].r].status # "NONE"
      /\ Conclude(h) => req[co[h].r].status # "NONE"
  BY <1>1, CoHas DEF Record, Cancel, Conclude, At, StepRows, OwnSteps
<1>3. CASE Pick(h)
  BY <1>3, PickDoes
<1>4. CASE ~Pick(h)
  BY <1>4 DEF ApiStep, ClearLink, Record, SendRead, SendWrite, Exclude, Forget, Items, Cancel,
     Missing, Create, Migrate, CleanupFails, ListHolders, Unassign, DropRole, Orphans,
     AskDelete, DeleteShadows, Conclude, history
<1> QED
  BY <1>3, <1>4

\* The reconciliation (and register_legacy_roles) writes the inventory.
LEMMA InventoryWritten ==
    ASSUME ApiTyped, Rows, NEW h \in Handlers, ApiStep(h)
    PROVE  \/ UNCHANGED inventory
           \/ co[h].job = "legacy"
           \/ Forget(h) \/ Items(h) \/ Missing(h)
<1>1. Migrate(h) => co[h].job = "legacy"
  BY MigrateDoes
<1> QED
  BY <1>1 DEF ApiStep, ClearLink, Record, SendRead, SendWrite, Exclude, Cancel,
     Create, CleanupFails, ListHolders, Unassign, DropRole, Pick, Orphans,
     AskDelete, DeleteShadows, Conclude, tables

\* The step taken is the one the coroutine is at.
LEMMA StepAt ==
    ASSUME NEW h \in Handlers, ApiStep(h)
    PROVE  /\ co[h].pc = "clear" => ClearLink(h)
           /\ co[h].pc = "record" => Record(h)
           /\ co[h].pc = "sendRead" => SendRead(h)
           /\ co[h].pc = "sendWrite" => SendWrite(h)
           /\ co[h].pc = "exclude" => Exclude(h)
           /\ co[h].pc = "forget" => Forget(h)
           /\ co[h].pc = "items" => Items(h)
           /\ co[h].pc = "cancel" => Cancel(h)
           /\ co[h].pc = "missing" => Missing(h)
           /\ co[h].pc = "create" => Create(h)
           /\ co[h].pc = "pick" => Pick(h)
           /\ co[h].pc = "list" => ListHolders(h) \/ CleanupFails(h)
           /\ co[h].pc = "unassign" => Unassign(h) \/ CleanupFails(h)
           /\ co[h].pc = "dropRole" => DropRole(h) \/ CleanupFails(h)
           /\ co[h].pc = "orphans" => Orphans(h) \/ CleanupFails(h)
           /\ co[h].pc = "askDelete" => AskDelete(h) \/ CleanupFails(h)
           /\ co[h].pc = "shadows" => DeleteShadows(h) \/ CleanupFails(h)
           /\ co[h].pc \in {"complete", "fail"} => Conclude(h)
           /\ co[h].pc \notin Over
<1>1. /\ ClearLink(h) => co[h].pc = "clear"
      /\ Record(h) => co[h].pc = "record"
      /\ SendRead(h) => co[h].pc = "sendRead"
      /\ SendWrite(h) => co[h].pc = "sendWrite"
      /\ Exclude(h) => co[h].pc = "exclude"
      /\ Forget(h) => co[h].pc = "forget"
      /\ Items(h) => co[h].pc = "items"
      /\ Cancel(h) => co[h].pc = "cancel"
      /\ Missing(h) => co[h].pc = "missing"
      /\ Create(h) => co[h].pc = "create"
  BY DEF ClearLink, Record, SendRead, SendWrite, Exclude, Forget, Items, Cancel, Missing, Create, At
<1>2. /\ Migrate(h) => co[h].pc = "migrate"
      /\ CleanupFails(h) => co[h].pc \in {"list", "unassign", "dropRole", "orphans", "askDelete", "shadows"}
      /\ ListHolders(h) => co[h].pc = "list"
      /\ Unassign(h) => co[h].pc = "unassign"
      /\ DropRole(h) => co[h].pc = "dropRole"
      /\ Pick(h) => co[h].pc = "pick"
      /\ Orphans(h) => co[h].pc = "orphans"
      /\ AskDelete(h) => co[h].pc = "askDelete"
      /\ DeleteShadows(h) => co[h].pc = "shadows"
      /\ Conclude(h) => co[h].pc \in {"complete", "fail"}
  BY DEF Migrate, CleanupFails, ListHolders, Unassign, DropRole, Pick, Orphans, AskDelete,
     DeleteShadows, Conclude, At
<1> QED
  BY <1>1, <1>2 DEF ApiStep, Over

\* The removal of a role in a reconciliation goes on to Forget, or fails.
LEMMA HandledGoesOn ==
    ASSUME ApiTyped, NEW h \in Handlers, ApiStep(h), co[h].job = "reconcile",
           co[h].pc \in {"list", "unassign", "dropRole"}
    PROVE  \/ /\ co'[h].job = "reconcile" /\ co'[h].k = co[h].k
              /\ co'[h].pc \in {"unassign", "dropRole", "forget"}
           \/ May("cleanup")
<1>1. ListHolders(h) \/ Unassign(h) \/ DropRole(h) \/ CleanupFails(h)
  BY StepAt
<1> QED
  BY <1>1, ListHoldersDoes, UnassignDoes, DropRoleDoes, CleanupFailsDoes, AfterDoes
  DEF SameRemoval, SameTask, SameJob

\* A request in use keeps its key.
LEMMA KeepsKey ==
    ASSUME ApiTyped, Rows, NEW h \in Handlers, ApiStep(h), NEW r \in Requests,
           req[r].status # "NONE"
    PROVE  req'[r].key = req[r].key /\ req'[r].status # "NONE"
<1>1. CASE Create(h)
  BY <1>1, CreateDoes DEF Rows, OtherRows
<1>2. CASE KeptRows
  BY <1>2 DEF KeptRows
<1> QED
  BY <1>1, <1>2, RowsWritten

LEMMA CreatesRequest ==
    ASSUME ApiTyped, Rows, NEW h \in Handlers, Create(h), NEW k, co[h].k = k
    PROVE  HasRequest(k)'
<1> PICK r : r = co'[h].r
  OBVIOUS
<1>1. r \in Requests /\ req'[r] = [key |-> k, status |-> "PENDING", level |-> 1, token |-> 0]
  BY CreateDoes DEF Rows
<1>2. req'[r].key = k /\ req'[r].status = "PENDING"
  BY <1>1
<1> QED
  BY <1>1, <1>2 DEF HasRequest, Used

\* The premise of Accounted: calls do not overlap, the API does not stop, and a
\* cleanup that fails is not that of a login account.
Steady == Calm /\ (May("cleanup") => NoLogins)

LEMMA ApiAccounted ==
    ASSUME ApiTyped, Rows, Steady, Accounted, NEW h \in Handlers, ApiStep(h)
    PROVE  Accounted'
<1>0. Alone1(h) /\ InOrder /\ inventory \in [Keys -> {"active", "missing", "none"}]
  BY ApiCourse DEF Rows, ApiTyped, RowsTyped
<1>1. UNCHANGED inventory \/ Forget(h) \/ Items(h) \/ Missing(h)
  BY InventoryWritten, OneReconciles DEF Steady
<1>2. ASSUME NEW k \in Keys \ Legacy, inventory'[k] = "missing"
      PROVE  HasRequest(k)' \/ Handled(k)'
  <2>1. ASSUME Missing(h), inventory[k] # "missing"
        PROVE  HasRequest(k)' \/ Handled(k)'
    <3>1. /\ SameTask(h) /\ co[h].job = "reconcile" /\ co'[h].k = k /\ UNCHANGED req
          /\ \/ Of(k, "PENDING") # {}
             \/ co'[h].pc = "create"
      BY <1>0, <1>2, <2>1, MissingDoes
    <3>2. CASE Of(k, "PENDING") # {}
      BY <3>1, <3>2 DEF HasRequest, Used, Of
    <3>3. CASE co'[h].pc = "create"
      BY <3>1, <3>3 DEF Handled, SameTask, SameJob
    <3> QED
      BY <3>1, <3>2, <3>3
  <2>2. inventory[k] = "missing" \/ Missing(h)
    BY <1>0, <1>1, <1>2, ForgetDoes, ItemsDoes
  <2>3. ASSUME inventory[k] = "missing", NEW r \in Used, req[r].key = k,
               req[r].status = "CANCELLED" => r \in revoked
        PROVE  HasRequest(k)' \/ Handled(k)'
    <3>1. r \in Requests /\ req'[r].key = k /\ r \in Used'
      BY <2>3, KeepsKey DEF Used
    <3>2. CASE req'[r].status = "CANCELLED" => r \in revoked'
      BY <3>1, <3>2 DEF HasRequest
    <3>3. CASE Cancel(h) /\ r = co[h].r
      BY <2>3, <3>3 DEF Accounted, Cancel, At
    <3>4. CASE co'[h].pc = "list" /\ co'[h].job = "reconcile" /\ req[r].key = co'[h].k
      BY <2>3, <3>4 DEF Handled
    <3> QED
      BY <2>3, <3>1, <3>2, <3>3, <3>4, CancelledBy, RevokedStay
  <2>4. ASSUME inventory[k] = "missing", NEW g \in Handlers, co[g].job = "reconcile", co[g].k = k,
               co[g].pc \in {"list", "unassign", "dropRole", "forget", "create"}
        PROVE  HasRequest(k)' \/ Handled(k)'
    <3>1. CASE g # h
      BY <1>0, <2>4, <3>1 DEF Handled, Alone1
    <3>2. CASE g = h /\ co[h].pc \in {"list", "unassign", "dropRole"}
      <4>1. ~May("cleanup")
        BY <2>4, <3>2 DEF Steady, NoLogins, NoExclusion
      <4> QED
        BY <2>4, <3>2, <4>1, HandledGoesOn DEF Handled
    <3>3. CASE g = h /\ co[h].pc = "forget"
      BY <1>0, <1>2, <2>4, <3>3, StepAt, ForgetDoes
    <3>4. CASE g = h /\ co[h].pc = "create"
      BY <2>4, <3>4, StepAt, CreatesRequest
    <3> QED
      BY <2>4, <3>1, <3>2, <3>3, <3>4
  <2> QED
    BY <2>1, <2>2, <2>3, <2>4 DEF Accounted, HasRequest, Handled
<1>3. ASSUME NEW g \in Handlers, co'[g].pc = "cancel"
      PROVE  req'[co'[g].r].key \in Keys /\ inventory'[req'[co'[g].r].key] = "active"
  <2>1. CASE g # h
    <3>1. co'[g] = co[g] /\ co[g].pc = "cancel" /\ co[g].job = "reconcile"
      BY <1>0, <1>3, <2>1, CoHas DEF Alone1
    <3>2. req[co[g].r].status # "NONE" /\ co[g].r \in Requests
      BY <3>1, RowOf DEF Rows, StepRows
    <3>3. UNCHANGED inventory
      BY <1>1, <2>1, <3>1, OneReconciles, ForgetDoes, ItemsDoes, MissingDoes DEF Steady
    <3> QED
      BY <3>1, <3>2, <3>3, KeepsKey DEF Accounted
  <2>2. CASE g = h
    <3>1. Items(h)
      <4>1. co'[h].pc # "cancel" \/ Items(h)
        <5>1. StepRows(co[h])
          BY DEF Rows
        <5>2. /\ Record(h) => req[co[h].r].status # "NONE"
              /\ Cancel(h) => req[co[h].r].status # "NONE"
              /\ Conclude(h) => req[co[h].r].status # "NONE"
          BY <5>1, CoHas DEF Record, Cancel, Conclude, At, StepRows, OwnSteps
        <5>3. CASE ClearLink(h) \/ Record(h) \/ SendRead(h) \/ SendWrite(h) \/ Exclude(h)
          BY <5>2, <5>3, ClearLinkDoes, RecordDoes, SendReadDoes, SendWriteDoes, ExcludeDoes DEF Ends
        <5>4. CASE Forget(h) \/ Cancel(h) \/ Missing(h) \/ Create(h) \/ Migrate(h) \/ CleanupFails(h)
          BY <1>0, <5>2, <5>4, ForgetDoes, CancelDoes, MissingDoes, CreateDoes, MigrateDoes,
             CleanupFailsDoes DEF Ends
        <5>5. CASE ListHolders(h) \/ Unassign(h) \/ DropRole(h) \/ Pick(h)
          BY <5>5, ListHoldersDoes, UnassignDoes, DropRoleDoes, PickDoes, AfterDoes DEF Ends
        <5>6. CASE Orphans(h) \/ AskDelete(h) \/ DeleteShadows(h) \/ Conclude(h)
          BY <5>2, <5>6, OrphansDoes, AskDeleteDoes, DeleteShadowsDoes, ConcludeDoes
        <5> QED
          BY <5>3, <5>4, <5>5, <5>6 DEF ApiStep
      <4> QED
        BY <1>3, <2>2, <4>1
    <3> QED
      BY <1>0, <1>3, <2>2, <3>1, ItemsDoes DEF Of
  <2> QED
    BY <2>1, <2>2
<1> QED
  BY <1>2, <1>3 DEF Accounted

\* What people, the worker and a crash do to a call, when nothing overlaps.
LEMMA CalmCourse ==
    ASSUME TypeInv, Rows, Calm, ~May("api"), ~May("abandon"), NEW g \in Handlers,
           \/ People \/ Discover \/ Upsert \/ DeployRoles \/ Abandon \/ Crash \/ UNCHANGED vars
           \/ \E h \in Handlers : Around(h)
    PROVE  \/ co'[g] = co[g]
           \/ co[g].pc \in Over /\ co'[g].pc \in {"idle", "clear", "sendRead", "pick", "exclude"}
<1>1. ~DeployCall(g)
  BY DeployCallDoes DEF Calm, NoDeployment
<1> QED
  BY <1>1, OutsideCourse DEF Over

LEMMA NextAccounted ==
    ASSUME TypeInv, Rows, Steady, Accounted, ~May("api"), ~May("abandon"), [SyncNext]_vars
    PROVE  Accounted'
<1>0. ApiTyped
  BY DEF TypeInv
<1>1. CASE \/ People \/ Discover \/ Upsert \/ DeployRoles \/ Abandon \/ Crash \/ UNCHANGED vars
           \/ \E h \in Handlers : Around(h)
  <2>1. UNCHANGED <<inventory, req, revoked>>
    BY <1>1, OutsideRequests DEF tables
  <2>2. \A g \in Handlers :
           \/ co'[g] = co[g]
           \/ co[g].job = "none" /\ co'[g].pc # "cancel"
    BY <1>0, <1>1, CalmCourse, CoHas DEF Steady
  <2>3. \A k \in Keys : /\ HasRequest(k) => HasRequest(k)'
                        /\ Handled(k) => Handled(k)'
    <3> SUFFICES ASSUME NEW k \in Keys
                 PROVE  (HasRequest(k) => HasRequest(k)') /\ (Handled(k) => Handled(k)')
      OBVIOUS
    <3>1. HasRequest(k) => HasRequest(k)'
      BY <2>1 DEF HasRequest, Used
    <3>2. Handled(k) => Handled(k)'
      BY <2>2 DEF Handled
    <3> QED
      BY <3>1, <3>2
  <2> QED
    BY <2>1, <2>2, <2>3 DEF Accounted
<1> QED
  BY <1>0, <1>1, ApiAccounted DEF SyncNext

Accountable == {"api", "abandon", "deploy"} \cap faults = {} /\ ~({"cleanup", "login"} \subseteq faults)

LEMMA AlwaysAccounted == SyncSpec => [](Accountable => Accounted)
<1>1. SyncInit => Accounted
  BY DEF SyncInit, RemovalInit, Accounted, Idle
<1>2. (~May("abandon") => WorkerAlone) /\ (~May("deploy") => NoDeployment)
        /\ (~May("login") => NoLogins)
        => (Accountable => Steady)
  BY DEF Accountable, May, Steady, Calm
<1>3. TypeInv /\ Rows /\ (Accountable => Steady) /\ (Accountable => Accounted) /\ [SyncNext]_vars
        => (Accountable => Accounted)'
  <2> SUFFICES ASSUME TypeInv, Rows, Steady, Accounted, [SyncNext]_vars, Accountable
               PROVE  Accounted'
    BY FaultsStay DEF Accountable
  <2> QED
    BY NextAccounted DEF Accountable, May
<1> QED
  BY <1>1, <1>2, <1>3, TypesStay, AlwaysRows, AlwaysWorkerAlone, AlwaysNoDeployment, AlwaysNoLogins, PTL
  DEF SyncSpec

\* An entitlement that is marked missing always has a request that was or can
\* be answered, or was revoked because it was back, or a reconciliation that is
\* about to ask: for any number of entitlements, however people, the worker and
\* failing mails interleave, except after the named faults.
THEOREM MissingIsAccounted == SyncSpec => []MissingHasRequest
<1>1. (Accountable => Accounted) => MissingHasRequest
  BY DEF Accountable, Accounted, HasRequest, Handled, MissingHasRequest
<1> QED
  BY <1>1, AlwaysAccounted, PTL

-----------------------------------------------------------------------------
(* What waits has been mailed *)

\* Mails arrive, and a pending request without a link is being mailed.
Mailed ==
    /\ \A t \in 1..Len(link) : link[t].sent
    /\ \A r \in Requests :
          req[r].status = "PENDING" => req[r].token # 0 \/ \E h \in Handlers : Owns(h, r)

\* The steps of a request leave the others as they are; the other steps leave
\* what is pending.
LEMMA PendingKept ==
    ASSUME ApiTyped, Rows, NEW h \in Handlers, ApiStep(h), NEW r \in Requests,
           req'[r].status = "PENDING"
    PROVE  \/ req[r].status = "PENDING" /\ req'[r].token = req[r].token
           \/ co[h].pc \in OwnSteps /\ r = co[h].r /\ req[r].status = "PENDING"
           \/ Create(h) /\ r = co'[h].r
<1>1. StepRows(co[h]) /\ InOrder
  BY DEF Rows
<1>2. /\ Record(h) => req[co[h].r].status # "NONE"
      /\ Cancel(h) => req[co[h].r].status # "NONE"
      /\ Conclude(h) => req[co[h].r].status # "NONE"
  BY <1>1, CoHas DEF Record, Cancel, Conclude, At, StepRows, OwnSteps
<1>3. CASE ClearLink(h) \/ Record(h) \/ SendRead(h) \/ SendWrite(h)
  <2>1. co[h].pc \in OwnSteps /\ OtherRows(co[h].r) /\ KeptRows
    <3>1. CASE ClearLink(h)
      BY <3>1, ClearLinkDoes DEF OwnSteps
    <3>2. CASE Record(h)
      BY <1>2, <3>2, RecordDoes DEF OwnSteps
    <3>3. CASE SendRead(h)
      BY <3>3, SendReadDoes, SameRowsKept DEF OwnSteps, tables, OtherRows
    <3>4. CASE SendWrite(h)
      BY <3>4, SendWriteDoes DEF OwnSteps
    <3> QED
      BY <1>3, <3>1, <3>2, <3>3, <3>4
  <2> QED
    BY <2>1 DEF OtherRows, KeptRows
<1>4. CASE Exclude(h)
  BY <1>4, ExcludeDoes DEF Of, KeptRows
<1>5. CASE Forget(h) \/ Items(h) \/ Missing(h)
  <2>1. UNCHANGED req
    BY <1>5, ForgetDoes, ItemsDoes, MissingDoes
  <2> QED
    BY <2>1
<1>10. CASE Cancel(h)
  <2>1. OtherRows(co[h].r) /\ req'[co[h].r].status = "CANCELLED"
    BY <1>2, <1>10, CancelDoes
  <2> QED
    BY <2>1 DEF OtherRows
<1>6. CASE Create(h)
  BY <1>1, <1>6, CreateDoes DEF OtherRows
<1>7. CASE Migrate(h) \/ CleanupFails(h) \/ ListHolders(h) \/ Unassign(h) \/ DropRole(h)
  BY <1>7, MigrateDoes, CleanupFailsDoes, ListHoldersDoes, UnassignDoes, DropRoleDoes DEF tables
<1>8. CASE Pick(h)
  BY <1>8, PickDoes DEF OtherRows
<1>9. CASE Orphans(h) \/ AskDelete(h) \/ DeleteShadows(h) \/ Conclude(h)
  BY <1>2, <1>9, OrphansDoes, AskDeleteDoes, DeleteShadowsDoes, ConcludeDoes DEF tables, OtherRows
<1> QED
  BY <1>3, <1>4, <1>5, <1>6, <1>7, <1>8, <1>9, <1>10 DEF ApiStep

\* A coroutine leaves a pending request only with a new link.
LEMMA OwnerGoesOn ==
    ASSUME ApiTyped, Rows, NEW h \in Handlers, ApiStep(h), co[h].pc \in OwnSteps,
           NEW r, r = co[h].r, req'[r].status = "PENDING"
    PROVE  req'[r].token # 0 \/ Owns(h, r)'
<1>1. StepRows(co[h])
  BY DEF Rows
<1>2. Record(h) => req[co[h].r].status # "NONE"
  BY <1>1 DEF Record, At, StepRows, OwnSteps
<1>3. ClearLink(h) \/ Record(h) \/ SendRead(h) \/ SendWrite(h)
  BY StepAt DEF OwnSteps
<1>4. CASE ClearLink(h)
  BY <1>4, ClearLinkDoes DEF Owns, OwnSteps
<1>5. CASE Record(h)
  <2>1. /\ co'[h].pc = "sendRead" /\ co'[h].r = co[h].r
        \/ req'[co[h].r].status \in {"KEPT", "APPROVED"}
    BY <1>2, <1>5, RecordDoes
  <2> QED
    BY <2>1 DEF Owns, OwnSteps
<1>6. CASE SendRead(h)
  <2>1. UNCHANGED req
    BY <1>6, SendReadDoes DEF tables
  <2> QED
    BY <1>6, <2>1, SendReadDoes DEF Owns, OwnSteps
<1>7. CASE SendWrite(h)
  BY <1>7, SendWriteDoes
<1> QED
  BY <1>3, <1>4, <1>5, <1>6, <1>7

LEMMA LinksGrow ==
    ASSUME ApiTyped, NEW h \in Handlers, ApiStep(h), ~May("email"),
           \A t \in 1..Len(link) : link[t].sent
    PROVE  \A t \in 1..Len(link') : link'[t].sent
<1>1. CASE SendWrite(h)
  <2>1. /\ Len(link') = Len(link) + 1 /\ Len(link) \in Nat
        /\ \A t \in 1..Len(link) : link'[t].sent
        /\ link'[Len(link')].sent
    <3>1. Len(link) \in Nat
      BY DEF ApiTyped, LinksTyped
    <3>2. /\ Len(link') = Len(link) + 1 /\ \A t \in 1..Len(link) : link'[t] = link[t]
          /\ link'[Len(link')].sent
      BY <1>1, SendWriteDoes
    <3> QED
      BY <3>1, <3>2
  <2>2. \A t \in 1..Len(link') : t \in 1..Len(link) \/ t = Len(link')
    BY <2>1
  <2> QED
    BY <2>1, <2>2
<1>2. CASE ~SendWrite(h)
  <2>1. UNCHANGED link
    BY <1>2 DEF ApiStep, ClearLink, Record, SendRead, Exclude, Forget, Items, Cancel,
       Missing, Create, Migrate, CleanupFails, ListHolders, Unassign, DropRole, Pick, Orphans,
       AskDelete, DeleteShadows, Conclude, tables
  <2> QED
    BY <2>1
<1> QED
  BY <1>1, <1>2

LEMMA NextMailed ==
    ASSUME TypeInv, Rows, Mailed, ~May("api"), ~May("email"), [SyncNext]_vars
    PROVE  Mailed'
<1>0. ApiTyped
  BY DEF TypeInv
<1>1. CASE \/ People \/ Discover \/ Upsert \/ DeployRoles \/ Abandon \/ Crash \/ UNCHANGED vars
           \/ \E h \in Handlers : Around(h)
  <2>1. UNCHANGED <<req, link>>
    BY <1>1, OutsideRequests DEF tables
  <2>2. ASSUME NEW r \in Requests, NEW g \in Handlers, Owns(g, r)
        PROVE  Owns(g, r)'
    <3>1. co[g].pc \in OwnSteps /\ co[g].pc \notin Over /\ co[g].r = r
      BY <2>2 DEF Owns, OwnSteps, Over
    <3>2. co'[g].pc = co[g].pc /\ co'[g].r = co[g].r
      BY <1>1, <3>1, OutsideCourse DEF Over
    <3> QED
      BY <3>1, <3>2 DEF Owns
  <2> QED
    BY <2>1, <2>2 DEF Mailed
<1>2. ASSUME NEW h \in Handlers, ApiStep(h)
      PROVE  Mailed'
  <2>0. Alone1(h)
    BY <1>0, <1>2, ApiCourse
  <2>1. \A t \in 1..Len(link') : link'[t].sent
    BY <1>0, <1>2, LinksGrow DEF Mailed
  <2>2. ASSUME NEW r \in Requests, req'[r].status = "PENDING"
        PROVE  req'[r].token # 0 \/ \E g \in Handlers : Owns(g, r)'
    <3>1. CASE co[h].pc \in OwnSteps /\ r = co[h].r
      <4>1. req'[r].token # 0 \/ Owns(h, r)'
        BY <1>0, <1>2, <2>2, <3>1, OwnerGoesOn
      <4> QED
        BY <3>1, <4>1
    <3>2. CASE Create(h) /\ r = co'[h].r
      <4>1. co'[h].pc = "sendRead"
        BY <1>0, <3>2, CreateDoes DEF Rows
      <4> QED
        BY <3>2, <4>1 DEF Owns, OwnSteps
    <3>3. CASE /\ req[r].status = "PENDING" /\ req'[r].token = req[r].token
               /\ ~(co[h].pc \in OwnSteps /\ r = co[h].r)
      <4>1. CASE req[r].token # 0
        BY <3>3, <4>1
      <4>2. ASSUME NEW g \in Handlers, Owns(g, r)
            PROVE  Owns(g, r)'
        BY <2>0, <3>3, <4>2 DEF Owns, Alone1
      <4> QED
        BY <3>3, <4>1, <4>2 DEF Mailed
    <3> QED
      BY <1>0, <1>2, <2>2, <3>1, <3>2, <3>3, PendingKept
  <2> QED
    BY <2>1, <2>2 DEF Mailed
<1> QED
  BY <1>1, <1>2 DEF SyncNext

LEMMA AlwaysMailed == SyncSpec => []({"api", "email"} \cap faults = {} => Mailed)
<1>1. SyncInit => Mailed
  BY DEF SyncInit, RemovalInit, Mailed, NoRequest
<1>2. TypeInv /\ Rows /\ ({"api", "email"} \cap faults = {} => Mailed) /\ [SyncNext]_vars
        => ({"api", "email"} \cap faults = {} => Mailed)'
  <2> SUFFICES ASSUME TypeInv, Rows, Mailed, [SyncNext]_vars, {"api", "email"} \cap faults = {}
               PROVE  Mailed'
    BY FaultsStay
  <2> QED
    BY NextMailed DEF May
<1> QED
  BY <1>1, <1>2, TypesStay, AlwaysRows, PTL DEF SyncSpec

LEMMA AlwaysSafe == SyncSpec => []SafeInv
<1>1. SyncInit => SafeInv
  BY InitSafe DEF SafeInv
<1>2. TypeInv /\ SafeInv /\ [SyncNext]_vars => SafeInv'
  BY NextSafe
<1> QED
  BY <1>1, <1>2, TypesStay, PTL DEF SyncSpec

\* A pending request that nobody is serving was mailed to the approver of its
\* current level, and the mail's link opens it: for any number of levels and
\* requests and any interleaving of answers, renewals and cycles, also when the
\* worker gives up and when MidPoint fails.
THEOREM PendingIsMailed == SyncSpec => []PendingCanBeDecided
<1>1. TypeInv /\ SafeInv /\ ({"api", "email"} \cap faults = {} => Mailed) => PendingCanBeDecided
  <2> SUFFICES ASSUME ApiTyped, Safe, Mailed, Quiet, NEW r \in Requests, req[r].status = "PENDING"
               PROVE  \E t \in 1..Len(link) : /\ req[r].token = t /\ link[t].r = r
                                              /\ link[t].level = req[r].level /\ link[t].sent
    BY DEF PendingCanBeDecided, SafeInv, May, TypeInv
  <2>1. \A h \in Handlers : ~Owns(h, r)
    BY DEF Quiet, Owns, OwnSteps
  <2>2. req[r].token # 0 /\ RequestSafe(r)
    BY <2>1 DEF Mailed, Safe
  <2> QED
    BY <2>2 DEF RequestSafe, Mailed
<1> QED
  BY <1>1, TypesStay, AlwaysSafe, AlwaysMailed, PTL

-----------------------------------------------------------------------------
(* What is known has its role *)

\* Only the removal of a role takes one away.
LEMMA RolesKept ==
    ASSUME NEW h \in Handlers, ApiStep(h)
    PROVE  \/ UNCHANGED role
           \/ DropRole(h)
  BY DEF ApiStep, ClearLink, Record, SendRead, SendWrite, Exclude, Forget, Items, Cancel,
     Missing, Create, Migrate, CleanupFails, ListHolders, Unassign, Pick, Orphans,
     AskDelete, DeleteShadows, Conclude, midpoint

\* Without login accounts that removal is an execution's.
LEMMA DropIsExecution ==
    ASSUME ApiTyped, Rows, WorkerAlone, NoLogins, NEW h \in Handlers, DropRole(h)
    PROVE  /\ Worker("executing") /\ co[h].r \in dismantled /\ req[co[h].r].key = co[h].k
           /\ role' = role \ {co[h].k}
<1>1. /\ co[h].pc = "dropRole" /\ co[h].job \in {"reconcile", "execute"}
      /\ role' = role \ {co[h].k}
  BY DropRoleDoes
<1>2. co[h].job = "execute"
  BY <1>1 DEF NoLogins, NoExclusion
<1> QED
  BY <1>1, <1>2 DEF WorkerAlone, CallerFits, Rows, StepRows

\* What the next state file adds has its role, or is yet to get it.
RolesReady ==
    /\ Worker("upsert") => worker.next.known \ (worker.adds \cup file.known) \subseteq role
    /\ worker.pc \in {"post", "posting"} => worker.next.known \ file.known \subseteq role

LEMMA NextRolesReady ==
    ASSUME TypeInv, Rows, WorkerAlone, NoLogins, RolesReady, ~May("abandon"), [SyncNext]_vars
    PROVE  RolesReady'
<1>0. ApiTyped /\ worker.pc \in Phases
  BY DEF TypeInv, SyncTyped
<1>1. ASSUME NEW h \in Handlers, ApiStep(h), UNCHANGED <<file, worker>>
      PROVE  RolesReady'
  <2>1. CASE UNCHANGED role
    BY <1>1, <2>1 DEF RolesReady, Worker
  <2>2. CASE DropRole(h)
    BY <1>0, <1>1, <2>2, DropIsExecution DEF RolesReady, Worker
  <2> QED
    BY <1>1, <2>1, <2>2, RolesKept
<1>2. CASE People /\ UNCHANGED <<file, worker>>
  <2>1. UNCHANGED role
    BY <1>2 DEF People, Click, Renew, Expire, ChangeTarget, midpoint
  <2> QED
    BY <1>2, <2>1 DEF RolesReady, Worker
<1>3. ASSUME NEW h \in Handlers, BeginCycle(h) \/ ExecutionReturns(h)
      PROVE  RolesReady'
  BY <1>3, BeginCycleDoes, ExecutionReturnsDoes DEF RolesReady, Worker
<1>4. ASSUME NEW h \in Handlers, Post(h)
      PROVE  RolesReady'
  <2>1. worker.pc = "post" /\ worker'.pc = "posting" /\ worker'.next = worker.next /\ UNCHANGED <<file, role>>
    BY <1>4, PostDoes DEF TypeInv, SyncTyped, Worker, outside, midpoint
  <2> QED
    BY <2>1 DEF RolesReady, Worker
<1>5. ASSUME NEW h \in Handlers, Save(h)
      PROVE  RolesReady'
  BY <1>5, SaveDoes DEF RolesReady, Worker
<1>6. ASSUME NEW h \in Handlers, DeployCall(h) \/ DeployReturns(h)
      PROVE  RolesReady'
  <2>1. UNCHANGED <<file, worker, role>>
    BY <1>6 DEF DeployCall, DeployReturns, outside, midpoint
  <2> QED
    BY <2>1 DEF RolesReady, Worker
<1>7. CASE Discover
  <2>1. CASE worker' = Sleeping
    BY <2>1 DEF RolesReady, Worker, Sleeping
  <2>2. CASE worker' = [pc |-> "upsert", next |-> Confirm(file, Present),
                        adds |-> Present \ file.known, items |-> Present, excluded |-> Login]
    <3>1. UNCHANGED file /\ worker'.pc = "upsert" /\ worker'.adds = Present \ file.known
          /\ worker'.next.known \subseteq Present \cup file.known
      BY <1>7, <2>2 DEF Discover, Confirm
    <3> QED
      BY <3>1 DEF RolesReady, Worker
  <2> QED
    BY <1>7, <2>1, <2>2 DEF Discover
<1>8. CASE Upsert
  <2>0. UNCHANGED file /\ worker.pc = "upsert"
    BY <1>8 DEF Upsert, Worker
  <2>1. CASE worker.adds = {} /\ worker' = [worker EXCEPT !.pc = "post"] /\ UNCHANGED role
    <3>1. worker'.pc = "post" /\ worker'.next = worker.next
      BY <2>1 DEF TypeInv, SyncTyped
    <3> QED
      BY <2>0, <2>1, <3>1 DEF RolesReady, Worker
  <2>2. ASSUME NEW k \in worker.adds, role' = role \cup {k},
               worker' = [worker EXCEPT !.adds = @ \ {k}]
        PROVE  RolesReady'
    <3>1. worker'.pc = "upsert" /\ worker'.next = worker.next /\ worker'.adds = worker.adds \ {k}
      BY <2>0, <2>2 DEF TypeInv, SyncTyped
    <3> QED
      BY <2>0, <2>2, <3>1 DEF RolesReady, Worker
  <2>3. CASE worker' = Sleeping
    BY <2>3 DEF RolesReady, Worker, Sleeping
  <2> QED
    BY <1>8, <2>1, <2>2, <2>3 DEF Upsert
<1>9. CASE DeployRoles
  BY <1>9 DEF DeployRoles, RolesReady, Worker
<1>10. CASE Abandon
  BY <1>10 DEF Abandon
<1>11. CASE Crash \/ UNCHANGED vars
  <2>1. UNCHANGED <<file, worker, role>>
    BY <1>11 DEF Crash, ApiCrash, vars, removalVars, midpoint
  <2> QED
    BY <2>1 DEF RolesReady, Worker
<1> QED
  BY <1>1, <1>2, <1>3, <1>4, <1>5, <1>6, <1>7, <1>8, <1>9, <1>10, <1>11 DEF SyncNext, Around

Trusting == {"abandon", "login"} \cap faults = {}

LEMMA AlwaysRolesReady == SyncSpec => [](Trusting => WorkerAlone /\ NoLogins /\ RolesReady)
<1>1. SyncInit => RolesReady
  BY DEF SyncInit, RolesReady, Worker, Sleeping
<1>2. (~May("abandon") => WorkerAlone) /\ (~May("login") => NoLogins)
        => (Trusting => WorkerAlone /\ NoLogins)
  BY DEF Trusting, May
<1>3. TypeInv /\ Rows /\ (Trusting => WorkerAlone /\ NoLogins) /\ (Trusting => RolesReady)
        /\ [SyncNext]_vars
        => (Trusting => RolesReady)'
  <2> SUFFICES ASSUME TypeInv, Rows, WorkerAlone, NoLogins, RolesReady, [SyncNext]_vars, Trusting
               PROVE  RolesReady'
    BY FaultsStay DEF Trusting
  <2> QED
    BY NextRolesReady DEF Trusting, May
<1> QED
  BY <1>1, <1>2, <1>3, TypesStay, AlwaysRows, AlwaysWorkerAlone, AlwaysNoLogins, PTL DEF SyncSpec

LEMMA StepKeepsRoles ==
    ASSUME TypeInv, Rows, WorkerAlone, NoLogins, RolesReady, ~May("abandon"), [SyncNext]_vars,
           NEW k \in file'.known \ role'
    PROVE  k \in file.known /\ (k \in role => \E r \in dismantled : req[r].key = k)
<1>0. ApiTyped
  BY DEF TypeInv
<1>1. ASSUME NEW h \in Handlers, ApiStep(h), UNCHANGED file
      PROVE  k \in file.known /\ (k \in role => \E r \in dismantled : req[r].key = k)
  BY <1>0, <1>1, RolesKept, DropIsExecution
<1>2. ASSUME UNCHANGED file, role \subseteq role'
      PROVE  k \in file.known /\ (k \in role => \E r \in dismantled : req[r].key = k)
  BY <1>2
<1>3. CASE People /\ UNCHANGED file
  BY <1>2, <1>3 DEF People, Click, Renew, Expire, ChangeTarget, midpoint
<1>4. ASSUME NEW h \in Handlers, Save(h)
      PROVE  k \in file.known /\ (k \in role => \E r \in dismantled : req[r].key = k)
  <2>1. UNCHANGED role /\ (file' = worker.next \/ UNCHANGED file) /\ worker.pc = "posting"
    BY <1>4, SaveDoes DEF outside, midpoint, Worker
  <2> QED
    BY <2>1 DEF RolesReady
<1>5. ASSUME NEW h \in Handlers, BeginCycle(h) \/ ExecutionReturns(h) \/ Post(h) \/ DeployCall(h) \/ DeployReturns(h)
      PROVE  k \in file.known /\ (k \in role => \E r \in dismantled : req[r].key = k)
  BY <1>2, <1>5 DEF BeginCycle, ExecutionReturns, Post, DeployCall, DeployReturns, outside, midpoint
<1>6. CASE Discover \/ Upsert \/ DeployRoles
  <2>1. UNCHANGED file /\ role \subseteq role'
    BY <1>6 DEF Discover, Upsert, DeployRoles, outside, midpoint
  <2> QED
    BY <1>2, <2>1
<1>7. CASE Abandon \/ Crash \/ UNCHANGED vars
  <2>1. UNCHANGED <<file, role>>
    BY <1>7 DEF Abandon, Crash, ApiCrash, vars, removalVars, outside, midpoint
  <2> QED
    BY <1>2, <2>1
<1> QED
  BY <1>1, <1>3, <1>4, <1>5, <1>6, <1>7 DEF SyncNext, Around

\* The state file never takes up an entitlement without its role, and one it
\* knows loses it only when its own approved removal is executed: for any number
\* of entitlements, requests and confirmations, also when the API stops, MidPoint
\* fails or a deployment runs, unless the worker is interrupted or roles of the
\* target become login accounts.
THEOREM KnownKeepsRole == SyncSpec => KnownHasRole
<1>1. TypeInv /\ Rows /\ (Trusting => WorkerAlone /\ NoLogins /\ RolesReady) /\ [SyncNext]_vars
        => [{"abandon", "login"} \cap faults = {} =>
              \A k \in file'.known \ role' :
                 /\ k \in file.known
                 /\ k \in role => \E r \in dismantled : req[r].key = k]_vars
  BY StepKeepsRoles DEF Trusting, May
<1> QED
  BY <1>1, TypesStay, AlwaysRows, AlwaysRolesReady, PTL DEF SyncSpec, KnownHasRole

-----------------------------------------------------------------------------
(* The mail of a new request *)

\* A reconciliation that mails the request it has made is alone with it.
FreshAt(h) ==
    co[h].job = "reconcile" /\ co[h].pc \in {"sendRead", "sendWrite"} =>
        /\ req[co[h].r].status = "PENDING" /\ req[co[h].r].token = 0
        /\ \A g \in Handlers : Owns(g, co[h].r) => g = h
Fresh == \A h \in Handlers : FreshAt(h)

\* The requests people open have a link.
LEMMA PeopleOpen ==
    ASSUME ApiTyped, People, NEW g \in Handlers, co'[g] # co[g]
    PROVE  /\ req[co'[g].r].token # 0 /\ co'[g].job \in {"decide", "renew"} /\ Alone1(g)
<1>1. ASSUME NEW h \in Handlers, NEW t \in 1..Len(link), Renew(h, t) \/ \E yes \in BOOLEAN : Click(h, t, yes)
      PROVE  req[co'[g].r].token # 0 /\ co'[g].job \in {"decide", "renew"} /\ Alone1(g)
  <2>1. /\ Alone1(h) /\ co'[h].r = link[t].r /\ req[link[t].r].token = t /\ t # 0
        /\ co'[h].job \in {"decide", "renew"}
    BY <1>1, ClickDoes, RenewDoes DEF Begins
  <2>2. g = h
    BY <2>1 DEF Alone1
  <2> QED
    BY <2>1, <2>2
<1>2. ASSUME NEW t \in 1..Len(link), Expire(t)
      PROVE  FALSE
  BY <1>2 DEF Expire
<1>3. ASSUME NEW k \in Keys, NEW what, ChangeTarget(k, what)
      PROVE  FALSE
  BY <1>3 DEF ChangeTarget
<1> QED
  BY <1>1, <1>2, <1>3 DEF People

LEMMA OutsideFresh ==
    ASSUME TypeInv, Rows, Calm, Fresh, ~May("abandon"),
           \/ People \/ Discover \/ Upsert \/ DeployRoles \/ Abandon \/ Crash \/ UNCHANGED vars
           \/ \E h \in Handlers : Around(h)
    PROVE  Fresh'
<1>0. ApiTyped /\ UNCHANGED req
  BY OutsideRequests DEF TypeInv, tables
<1>1. ASSUME NEW h \in Handlers, co'[h].job = "reconcile", co'[h].pc \in {"sendRead", "sendWrite"}
      PROVE  FreshAt(h)'
  <2>1. co'[h] = co[h]
    BY <1>1, OutsideCourse, DeployCallDoes DEF Calm, NoDeployment
  <2>2. FreshAt(h) /\ co[h].job = "reconcile" /\ co[h].pc \in {"sendRead", "sendWrite"}
    BY <1>1, <2>1 DEF Fresh
  <2>3. ASSUME NEW g \in Handlers, Owns(g, co[h].r)'
        PROVE  g = h
    <3>1. CASE co'[g] = co[g]
      BY <2>1, <2>2, <2>3, <3>1 DEF FreshAt, Owns
    <3>2. CASE co'[g] # co[g]
      <4>1. People
        BY <1>0, <2>3, <3>2, OutsideCourse, DeployCallDoes DEF Calm, NoDeployment, Owns, OwnSteps
      <4>2. req[co'[g].r].token # 0
        BY <1>0, <3>2, <4>1, PeopleOpen
      <4> QED
        BY <2>1, <2>2, <2>3, <4>2 DEF FreshAt, Owns
    <3> QED
      BY <3>1, <3>2
  <2> QED
    BY <1>0, <2>1, <2>2, <2>3 DEF FreshAt
<1> QED
  BY <1>1 DEF Fresh, FreshAt

\* A coroutine writes the request it owns; executions and reconciliations,
\* which write others, do not overlap with a reconciliation.
LEMMA WritesOwn ==
    ASSUME ApiTyped, Rows, Calm, NEW h \in Handlers, ApiStep(h),
           NEW g \in Handlers, g # h, co[g].job = "reconcile",
           NEW r \in Requests, req[r].status # "NONE", ~Owns(h, r)
    PROVE  req'[r] = req[r]
<1>1. co[h].job \notin {"reconcile", "legacy", "execute"}
  BY OneReconciles
<1>2. co[h].pc \in OwnSteps
  BY <1>1, CoHas, StepAt DEF Jobs, StepTyped, OwnSteps, Over
<1>3. ClearLink(h) \/ Record(h) \/ SendRead(h) \/ SendWrite(h)
  BY <1>2, StepAt DEF OwnSteps
<1>4. co[h].r # r
  BY <1>2 DEF Owns
<1>5. Record(h) => req[co[h].r].status # "NONE"
  BY <1>2 DEF Rows, StepRows
<1>6. CASE ClearLink(h)
  BY <1>4, <1>6, ClearLinkDoes DEF OtherRows
<1>7. CASE Record(h)
  BY <1>4, <1>5, <1>7, RecordDoes DEF OtherRows
<1>8. CASE SendRead(h)
  BY <1>8, SendReadDoes DEF tables
<1>9. CASE SendWrite(h)
  BY <1>4, <1>9, SendWriteDoes DEF OtherRows
<1> QED
  BY <1>3, <1>6, <1>7, <1>8, <1>9

\* Owning begins with a new request or with people.
LEMMA OwnsAfter ==
    ASSUME ApiTyped, Rows, NEW h \in Handlers, ApiStep(h), NEW r, Owns(h, r)'
    PROVE  Owns(h, r) \/ (Create(h) /\ r = co'[h].r)
<1>1. StepRows(co[h]) /\ InOrder
  BY DEF Rows
<1>2. /\ Record(h) => req[co[h].r].status # "NONE"
      /\ Cancel(h) => req[co[h].r].status # "NONE"
      /\ Conclude(h) => req[co[h].r].status # "NONE"
  BY <1>1, CoHas DEF Record, Cancel, Conclude, At, StepRows, OwnSteps
<1>3. CASE ClearLink(h) \/ Record(h)
  BY <1>2, <1>3, ClearLinkDoes, RecordDoes DEF Owns, OwnSteps, Ends
<1>4. CASE SendRead(h) \/ SendWrite(h)
  BY <1>4, SendReadDoes, SendWriteDoes DEF Owns, OwnSteps, Ends
<1>5. CASE Exclude(h) \/ Forget(h) \/ Items(h) \/ Cancel(h)
  BY <1>2, <1>5, ExcludeDoes, ForgetDoes, ItemsDoes, CancelDoes DEF Owns, OwnSteps
<1>6. CASE Missing(h) \/ Migrate(h) \/ CleanupFails(h)
  BY <1>6, MissingDoes, MigrateDoes, CleanupFailsDoes DEF Owns, OwnSteps, Ends
<1>7. CASE Create(h)
  BY <1>7 DEF Owns
<1>8. CASE ListHolders(h) \/ Unassign(h) \/ DropRole(h)
  BY <1>8, ListHoldersDoes, UnassignDoes, DropRoleDoes, AfterDoes DEF Owns, OwnSteps
<1>9. CASE Pick(h) \/ Orphans(h) \/ AskDelete(h) \/ DeleteShadows(h) \/ Conclude(h)
  BY <1>2, <1>9, PickDoes, OrphansDoes, AskDeleteDoes, DeleteShadowsDoes, ConcludeDoes
  DEF Owns, OwnSteps, Ends
<1> QED
  BY <1>3, <1>4, <1>5, <1>6, <1>7, <1>8, <1>9 DEF ApiStep

LEMMA ApiFresh ==
    ASSUME ApiTyped, Rows, Calm, Fresh, NEW h \in Handlers, ApiStep(h)
    PROVE  Fresh'
<1>0. Alone1(h) /\ InOrder
  BY ApiCourse DEF Rows
<1>1. ASSUME NEW g \in Handlers, g # h, co'[g].job = "reconcile", co'[g].pc \in {"sendRead", "sendWrite"}
      PROVE  FreshAt(g)'
  <2>1. co'[g] = co[g] /\ FreshAt(g) /\ co[g].job = "reconcile" /\ co[g].pc \in {"sendRead", "sendWrite"}
    BY <1>0, <1>1 DEF Alone1, Fresh
  <2>2. PICK r \in Requests : r = co[g].r
    BY <2>1, RowOf DEF OwnSteps
  <2>3. ~Owns(h, r) /\ req[r].status = "PENDING" /\ req[r].token = 0
    BY <1>1, <2>1, <2>2 DEF FreshAt
  <2>4. req'[r] = req[r]
    BY <1>1, <2>1, <2>3, WritesOwn
  <2>5. \A f \in Handlers : Owns(f, r)' => f = g
    <3>1. ~Owns(h, r)'
      BY <1>0, <2>3, OwnsAfter, CreateDoes
    <3>2. ASSUME NEW f \in Handlers, f # h, Owns(f, r)'
          PROVE  f = g
      BY <1>0, <2>1, <2>2, <3>2 DEF Owns, Alone1, FreshAt
    <3> QED
      BY <3>1, <3>2
  <2> QED
    BY <2>1, <2>2, <2>3, <2>4, <2>5 DEF FreshAt
<1>2. ASSUME co'[h].job = "reconcile", co'[h].pc \in {"sendRead", "sendWrite"}
      PROVE  FreshAt(h)'
  <2>1. CASE Create(h)
    <3>1. PICK r : r = co'[h].r
      OBVIOUS
    <3>2. r \in Requests /\ req[r].status = "NONE"
          /\ req'[r] = [key |-> co[h].k, status |-> "PENDING", level |-> 1, token |-> 0]
      BY <1>0, <2>1, <3>1, CreateDoes
    <3>3. req'[r].status = "PENDING" /\ req'[r].token = 0
      BY <3>2
    <3>4. ASSUME NEW f \in Handlers, f # h
          PROVE  ~Owns(f, r)'
      BY <1>0, <3>2, <3>4 DEF Owns, Alone1, Rows, StepRows
    <3> QED
      BY <3>1, <3>3, <3>4 DEF FreshAt
  <2>2. CASE ~Create(h)
    <3>1. co[h].job = "reconcile" /\ co[h].pc \in {"missing", "create", "sendRead", "sendWrite"}
      BY <1>2, ReconcilePath
    <3>2. co[h].pc = "sendRead" /\ SendRead(h)
      BY <1>2, <2>2, <3>1, StepAt, MissingDoes, SendWriteDoes DEF Ends
    <3>3. UNCHANGED req /\ co'[h].r = co[h].r /\ FreshAt(h)
      BY <1>2, <3>2, SendReadDoes DEF Ends, tables, Fresh
    <3>4. ASSUME NEW f \in Handlers, f # h
          PROVE  ~Owns(f, co[h].r)'
      BY <1>0, <3>1, <3>2, <3>3, <3>4 DEF Owns, Alone1, FreshAt
    <3> QED
      BY <3>1, <3>2, <3>3, <3>4 DEF FreshAt, Owns
  <2> QED
    BY <2>1, <2>2
<1> QED
  BY <1>1, <1>2 DEF Fresh, FreshAt

LEMMA AlwaysFresh == SyncSpec => []({"abandon", "deploy"} \cap faults = {} => Calm /\ Fresh)
<1>1. SyncInit => Fresh
  BY DEF SyncInit, RemovalInit, Fresh, FreshAt, Idle
<1>2. TypeInv /\ Rows /\ ({"abandon", "deploy"} \cap faults = {} => Calm /\ AskedOnce)
        /\ ({"abandon", "deploy"} \cap faults = {} => Fresh) /\ [SyncNext]_vars
        => ({"abandon", "deploy"} \cap faults = {} => Fresh)'
  <2> SUFFICES ASSUME TypeInv, Rows, Calm, Fresh, [SyncNext]_vars, {"abandon", "deploy"} \cap faults = {}
               PROVE  Fresh'
    BY FaultsStay
  <2>1. ApiTyped /\ ~May("abandon")
    BY DEF TypeInv, May
  <2> QED
    BY <2>1, ApiFresh, OutsideFresh DEF SyncNext
<1> QED
  BY <1>1, <1>2, TypesStay, AlwaysRows, AlwaysAskedOnce, PTL DEF SyncSpec

-----------------------------------------------------------------------------
(* The state file, the inventory and the absences *)

\* What a reconciliation of the worker knows: the manifest is the next state,
\* whatever it leaves out was confirmed absent, and the inventory moves from the
\* one state to the other.
LedgerOf(c) ==
    /\ c.items = worker.next.known /\ file.known \ c.items \subseteq c.quiet
    /\ c.pc \in {"exclude", "list", "unassign", "dropRole", "forget"} => Active \subseteq file.known
    /\ c.pc \in {"items", "cancel"} =>
          /\ Active \subseteq file.known \cup c.items
          /\ c.todo \subseteq c.items /\ c.items \ c.todo \subseteq Active
    /\ c.pc \in {"missing", "create", "sendRead", "sendWrite"} =>
          /\ c.items \subseteq Active /\ Active \subseteq c.items \cup c.todo
          /\ c.todo \subseteq c.quiet /\ c.todo \cap c.items = {}
    /\ c.pc = "create" => c.k \in c.quiet

\* The key has been absent at least as often as the state says.
Counted(s) == \A k \in s.known : gap[k] >= s.count[k]

Ledger ==
    /\ gap \in [Keys -> Nat]
    /\ \A h \in Handlers : co[h].pc # "failed"
    /\ \A h \in Handlers : co[h].job = "reconcile" => LedgerOf(co[h])
    /\ worker.pc \in {"sleep", "executing", "discover"} => Counted(file)
    /\ worker.pc \in {"upsert", "post", "posting"} =>
          Counted(worker.next) /\ \A k \in file.known \ worker.next.known : gap[k] >= Confirmations
    /\ ~Worker("posting") => Active = file.known
    /\ \A h \in Handlers :
          Worker("posting") /\ co[h].caller = "worker" /\ co[h].pc = "done" => Active = worker.next.known

\* The premise of Ledger.
Sound == Calm /\ Fresh /\ {"api", "abandon", "cleanup", "email", "deploy"} \cap faults = {}

\* Without these faults no call fails.
LEMMA NoneFails ==
    ASSUME ApiTyped, Rows, Sound, NEW h \in Handlers, ApiStep(h), Ends(h, FALSE)
    PROVE  co'[h].pc = "idle" \/ Ends(h, TRUE)
<1>1. StepRows(co[h]) /\ InOrder
  BY DEF Rows
<1>2. /\ Record(h) => req[co[h].r].status # "NONE"
      /\ Cancel(h) => req[co[h].r].status # "NONE"
      /\ Conclude(h) => req[co[h].r].status # "NONE"
  BY <1>1, CoHas DEF Record, Cancel, Conclude, At, StepRows, OwnSteps
<1>3. ~May("cleanup") /\ ~May("email") /\ Calm /\ co[h].job # "legacy"
  BY OneReconciles DEF Sound, May
<1>4. co[h].job \in {"decide", "renew"} => co[h].caller = "people"
  BY <1>3 DEF Calm, WorkerAlone, CallerFits
<1>5. CASE ClearLink(h) \/ Record(h)
  BY <1>2, <1>4, <1>5, ClearLinkDoes, RecordDoes DEF Ends
<1>6. CASE SendRead(h)
  <2>1. co[h].job = "reconcile" => req[co[h].r].status = "PENDING"
    BY <1>6, SendReadDoes DEF Sound, Fresh, FreshAt
  <2>2. co[h].job \in {"decide", "renew", "reconcile"}
    BY <1>3, <1>6, CoHas, SendReadDoes DEF OwnSteps
  <2> QED
    BY <1>4, <1>6, <2>1, <2>2, SendReadDoes DEF Ends
<1>7. CASE SendWrite(h)
  BY <1>3, <1>4, <1>7, SendWriteDoes DEF Ends
<1>8. CASE Exclude(h) \/ Forget(h) \/ Items(h) \/ Cancel(h) \/ Create(h)
  BY <1>1, <1>2, <1>8, ExcludeDoes, ForgetDoes, ItemsDoes, CancelDoes, CreateDoes DEF Ends
<1>9. CASE Missing(h)
  BY <1>9, MissingDoes DEF Ends
<1>10. CASE Migrate(h) \/ CleanupFails(h)
  BY <1>3, <1>10, MigrateDoes, CleanupFailsDoes
<1>11. CASE ListHolders(h) \/ Unassign(h) \/ DropRole(h)
  BY <1>11, ListHoldersDoes, UnassignDoes, DropRoleDoes, AfterDoes DEF Ends
<1>12. CASE Pick(h)
  BY <1>12, PickDoes DEF Ends
<1>13. CASE Orphans(h) \/ AskDelete(h) \/ DeleteShadows(h) \/ Conclude(h)
  BY <1>2, <1>13, OrphansDoes, AskDeleteDoes, DeleteShadowsDoes, ConcludeDoes DEF Ends
<1> QED
  BY <1>5, <1>6, <1>7, <1>8, <1>9, <1>10, <1>11, <1>12, <1>13 DEF ApiStep

\* A call that ends well was an execution, an answer, or the end of Missing.
LEMMA EndsWell ==
    ASSUME ApiTyped, Rows, Calm, NEW h \in Handlers, ApiStep(h), co'[h].pc = "done"
    PROVE  \/ Worker("executing")
           \/ Missing(h) /\ co[h].todo = {} /\ UNCHANGED inventory
           \/ co[h].caller # "worker"
<1>1. StepRows(co[h]) /\ InOrder
  BY DEF Rows
<1>2. /\ Record(h) => req[co[h].r].status # "NONE"
      /\ Cancel(h) => req[co[h].r].status # "NONE"
  BY <1>1, CoHas DEF Record, Cancel, At, StepRows, OwnSteps
<1>3. /\ co[h].job # "legacy"
      /\ co[h].job = "execute" => Worker("executing")
      /\ co[h].job \in {"decide", "renew"} => co[h].caller = "people"
  BY OneReconciles DEF Calm, WorkerAlone, CallerFits
<1>4. co[h].job = "none" => FALSE
  BY CoHas, StepAt
<1>5. CASE co[h].job = "reconcile"
  <2>1. co[h].pc \in {"sendRead", "sendWrite", "exclude", "forget", "items", "cancel", "missing",
                      "create", "list", "unassign", "dropRole"}
    BY <1>5, CoHas DEF StepTyped
  <2>2. CASE co[h].pc = "missing"
    BY <2>2, StepAt, MissingDoes
  <2>3. CASE co[h].pc \in {"sendRead", "sendWrite"}
    BY <1>5, <2>3, StepAt, SendReadDoes, SendWriteDoes DEF Ends
  <2>4. CASE co[h].pc \in {"exclude", "forget", "items"}
    BY <2>4, StepAt, ExcludeDoes, ForgetDoes, ItemsDoes
  <2>5. CASE co[h].pc \in {"cancel", "create"}
    BY <1>1, <1>2, <2>5, StepAt, CancelDoes, CreateDoes
  <2>6. CASE co[h].pc \in {"list", "unassign", "dropRole"}
    BY <1>5, <2>6, StepAt, ListHoldersDoes, UnassignDoes, DropRoleDoes, CleanupFailsDoes, AfterDoes DEF Ends
  <2> QED
    BY <2>1, <2>2, <2>3, <2>4, <2>5, <2>6
<1> QED
  BY <1>3, <1>4, <1>5, CoHas DEF Jobs

LEMMA ActiveWrite ==
    ASSUME inventory \in [Keys -> {"active", "missing", "none"}], NEW k \in Keys, NEW s,
           inventory' = [inventory EXCEPT ![k] = s]
    PROVE  /\ s = "active" => Active' = Active \cup {k}
           /\ s # "active" => Active' = Active \ {k}
<1>1. \A j \in Keys : inventory'[j] = IF j = k THEN s ELSE inventory[j]
  OBVIOUS
<1> QED
  BY <1>1 DEF Active

\* One step of a reconciliation of the worker.
LEMMA ReconcileLedger ==
    ASSUME ApiTyped, Rows, Sound, NEW h \in Handlers, ApiStep(h), UNCHANGED <<file, worker>>,
           co[h].job = "reconcile", co'[h].job = "reconcile", LedgerOf(co[h])
    PROVE  LedgerOf(co[h])'
<1>0. /\ StepRows(co[h]) /\ InOrder
      /\ inventory \in [Keys -> {"active", "missing", "none"}]
      /\ co[h].pc \in {"exclude", "list", "unassign", "dropRole", "forget", "items", "cancel",
                       "missing", "create", "sendRead", "sendWrite"}
  BY CoHas DEF Rows, ApiTyped, RowsTyped, StepTyped
<1>1. CASE co[h].pc = "exclude"
  <2>1. /\ SameTask(h) /\ UNCHANGED Active
        /\ \/ co'[h].pc = "items" /\ co'[h].todo = co[h].items
           \/ co'[h].pc = "list"
    BY <1>1, StepAt, ExcludeDoes DEF Active
  <2> QED
    BY <1>1, <2>1 DEF LedgerOf, SameTask
<1>2. CASE co[h].pc \in {"list", "unassign", "dropRole"}
  <2>0. ~CleanupFails(h)
    BY CleanupFailsDoes DEF Ends, Sound, May
  <2>1. SameTask(h) /\ UNCHANGED inventory /\ co'[h].pc \in {"unassign", "dropRole", "forget"}
    <3>1. CASE co[h].pc = "list"
      BY <2>0, <3>1, StepAt, ListHoldersDoes, AfterDoes DEF tables, SameRemoval
    <3>2. CASE co[h].pc = "unassign"
      BY <2>0, <3>2, StepAt, UnassignDoes DEF tables, SameRemoval
    <3>3. CASE co[h].pc = "dropRole"
      BY <2>0, <3>3, StepAt, DropRoleDoes, AfterDoes DEF tables, SameRemoval
    <3> QED
      BY <1>2, <3>1, <3>2, <3>3
  <2>2. UNCHANGED Active
    BY <2>1 DEF Active
  <2> QED
    BY <1>2, <2>1, <2>2 DEF LedgerOf, SameTask
<1>3. CASE co[h].pc = "forget"
  <2>1. SameTask(h) /\ co'[h].pc = "exclude" /\ inventory' = [inventory EXCEPT ![co[h].k] = "none"]
    BY <1>3, StepAt, ForgetDoes
  <2>2. Active' \subseteq Active
    BY <1>0, <2>1 DEF Active
  <2> QED
    BY <1>3, <2>1, <2>2 DEF LedgerOf, SameTask
<1>4. CASE co[h].pc = "items"
  <2>1. SameTask(h)
    BY <1>4, StepAt, ItemsDoes
  <2>2. CASE co[h].todo = {} /\ co'[h].pc = "missing" /\ co'[h].todo = Active \ co[h].items /\ UNCHANGED inventory
    BY <1>4, <2>1, <2>2 DEF LedgerOf, SameTask, Active
  <2>3. ASSUME NEW k \in co[h].todo, k \in Keys, inventory' = [inventory EXCEPT ![k] = "active"],
               co'[h].todo = co[h].todo \ {k}, co'[h].pc \in {"items", "cancel"}
        PROVE  LedgerOf(co[h])'
    <3>1. Active' = Active \cup {k}
      BY <1>0, <2>3, ActiveWrite
    <3> QED
      BY <1>4, <2>1, <2>3, <3>1 DEF LedgerOf, SameTask
  <2> QED
    BY <1>4, <2>2, <2>3, StepAt, ItemsDoes
<1>5. CASE co[h].pc = "cancel"
  <2>1. SameTask(h) /\ UNCHANGED Active /\ co'[h].pc = "items" /\ co'[h].todo = co[h].todo
    BY <1>0, <1>5, StepAt, CancelDoes DEF Active, StepRows
  <2> QED
    BY <1>5, <2>1 DEF LedgerOf, SameTask
<1>6. CASE co[h].pc = "missing"
  <2>1. PICK k \in co[h].todo :
           /\ k \in Keys /\ inventory' = [inventory EXCEPT ![k] = "missing"]
           /\ SameTask(h) /\ co'[h].k = k /\ co'[h].todo = co[h].todo \ {k}
           /\ co'[h].pc \in {"create", "missing"}
    BY <1>6, StepAt, MissingDoes DEF Ends
  <2>2. inventory' = [inventory EXCEPT ![k] = "missing"] /\ k \in Keys /\ "missing" # "active"
    BY <2>1
  <2>3. Active' = Active \ {k}
    BY <1>0, <2>2, ActiveWrite
  <2> QED
    BY <1>6, <2>1, <2>3 DEF LedgerOf, SameTask
<1>7. CASE co[h].pc = "create"
  <2>1. SameTask(h) /\ UNCHANGED Active /\ co'[h].pc = "sendRead" /\ co'[h].todo = co[h].todo
    BY <1>0, <1>7, StepAt, CreateDoes DEF Active
  <2> QED
    BY <1>7, <2>1 DEF LedgerOf, SameTask
<1>8. CASE co[h].pc = "sendRead"
  <2>1. SameTask(h) /\ UNCHANGED Active /\ co'[h].pc = "sendWrite" /\ co'[h].todo = co[h].todo
    BY <1>8, StepAt, SendReadDoes DEF Active, Ends, tables
  <2> QED
    BY <1>8, <2>1 DEF LedgerOf, SameTask
<1>9. CASE co[h].pc = "sendWrite"
  <2>1. SameTask(h) /\ UNCHANGED Active /\ co'[h].pc = "missing" /\ co'[h].todo = co[h].todo
    BY <1>9, StepAt, SendWriteDoes DEF Active, Ends
  <2> QED
    BY <1>9, <2>1 DEF LedgerOf, SameTask
<1> QED
  BY <1>0, <1>1, <1>2, <1>3, <1>4, <1>5, <1>6, <1>7, <1>8, <1>9

\* Only a reconciliation touches the inventory, and only while the worker posts.
LEMMA InventoryWriter ==
    ASSUME ApiTyped, Rows, Calm, NEW h \in Handlers, ApiStep(h)
    PROVE  UNCHANGED inventory \/ (co[h].job = "reconcile" /\ Worker("posting") /\ co[h].caller = "worker")
  BY InventoryWritten, OneReconciles, ForgetDoes, ItemsDoes, MissingDoes

LEMMA ApiLedger ==
    ASSUME TypeInv, Rows, Sound, Ledger, NEW h \in Handlers, ApiStep(h),
           UNCHANGED <<file, worker, gap>>
    PROVE  Ledger'
<1>0. ApiTyped /\ ApiTyped' /\ Calm /\ Alone1(h)
  BY ApiStepTyped, ApiCourse DEF TypeInv, Sound
<1>1. ASSUME NEW g \in Handlers
      PROVE  co'[g].pc # "failed"
  <2>1. CASE g # h
    BY <1>0, <2>1 DEF Ledger, Alone1
  <2>2. CASE g = h
    <3>1. CASE SameJob(h)
      <4>1. co[h].job # "none"
        BY <1>0, CoHas, StepAt
      <4>2. co'[h] \in Coroutines /\ StepTyped(co'[h])
        BY <1>0 DEF ApiTyped, CoTyped, StepTyped
      <4>3. co'[h].pc = "failed" => co'[h].job = "none"
        BY <4>2 DEF StepTyped, Coroutines, Jobs
      <4> QED
        BY <2>2, <3>1, <4>1, <4>3 DEF SameJob
    <3>2. CASE Ends(h, TRUE)
      BY <2>2, <3>2 DEF Ends
    <3>3. CASE Ends(h, FALSE)
      BY <1>0, <2>2, <3>2, <3>3, NoneFails
    <3> QED
      BY <1>0, <3>1, <3>2, <3>3, ApiCourse
  <2> QED
    BY <2>1, <2>2
<1>2. ASSUME NEW g \in Handlers, co'[g].job = "reconcile"
      PROVE  LedgerOf(co[g])'
  <2>1. CASE g # h
    <3>1. co'[g] = co[g] /\ LedgerOf(co[g]) /\ co[g].job = "reconcile"
      BY <1>0, <1>2, <2>1 DEF Ledger, Alone1
    <3>2. UNCHANGED inventory
      BY <1>0, <2>1, <3>1, InventoryWriter, OneReconciles
    <3> QED
      BY <3>1, <3>2 DEF LedgerOf, Active
  <2>2. CASE g = h
    <3>1. co[h].job = "reconcile"
      BY <1>0, <1>2, <2>2, ReconcilePath
    <3> QED
      BY <1>0, <1>2, <2>2, <3>1, ReconcileLedger DEF Ledger
  <2> QED
    BY <2>1, <2>2
<1>3. ~Worker("posting") => Active' = file.known
  <2>1. ~Worker("posting") => UNCHANGED inventory
    BY <1>0, InventoryWriter
  <2> QED
    BY <2>1 DEF Ledger, Active
<1>4. ASSUME NEW g \in Handlers, Worker("posting"), co'[g].caller = "worker", co'[g].pc = "done"
      PROVE  Active' = worker.next.known
  <2>1. CASE g # h
    <3>1. co[g].caller = "worker" /\ co[g].pc = "done"
      BY <1>0, <1>4, <2>1 DEF Alone1
    <3>2. UNCHANGED inventory
      BY <1>0, <2>1, <3>1, InventoryWriter DEF Calm, WorkerAlone
    <3> QED
      BY <1>4, <3>1, <3>2 DEF Ledger, Active
  <2>2. CASE g = h
    <3>1. co[h].caller = "worker"
      BY <1>0, <1>4, <2>2, ApiCourse DEF SameJob, Ends
    <3>2. Missing(h) /\ co[h].todo = {} /\ UNCHANGED inventory
      BY <1>0, <1>4, <2>2, <3>1, EndsWell DEF Worker
    <3>3. co[h].job = "reconcile" /\ co[h].pc = "missing"
      BY <1>0, <3>2, MissingDoes
    <3>4. LedgerOf(co[h])
      BY <3>3 DEF Ledger
    <3>5. Active = worker.next.known
      BY <3>2, <3>3, <3>4 DEF LedgerOf
    <3> QED
      BY <3>2, <3>5 DEF Active
  <2> QED
    BY <2>1, <2>2
<1>5. /\ gap' \in [Keys -> Nat]
      /\ worker'.pc \in {"sleep", "executing", "discover"} => Counted(file)'
      /\ worker'.pc \in {"upsert", "post", "posting"} =>
            Counted(worker.next)' /\ \A k \in file'.known \ worker'.next.known : gap'[k] >= Confirmations
  BY DEF Ledger, Counted
<1> QED
  BY <1>1, <1>2, <1>3, <1>4, <1>5 DEF Ledger, Worker

\* The calls of people concern neither the worker nor the inventory.
LEMMA AsideLedger ==
    ASSUME TypeInv, Rows, Sound, Ledger,
           (People /\ UNCHANGED <<file, worker, deploy, crashes, gap>>) \/ DeployRoles \/ UNCHANGED vars
    PROVE  Ledger'
<1>1. UNCHANGED <<file, worker, gap, inventory>>
  BY OutsideRequests DEF DeployRoles, vars, tables
<1>2. UNCHANGED Active
  BY <1>1 DEF Active
<1>3. ASSUME NEW g \in Handlers
      PROVE  co'[g] = co[g] \/ (co'[g].job # "reconcile" /\ co'[g].pc \notin {"failed", "done"})
  <2>1. CASE People
    BY <2>1, PeopleCall DEF TypeInv, Begins, Alone1
  <2>2. CASE DeployRoles \/ UNCHANGED vars
    BY <2>2 DEF DeployRoles, vars, removalVars
  <2> QED
    BY <2>1, <2>2
<1>4. \A g \in Handlers : co'[g].job = "reconcile" => LedgerOf(co[g])'
  <2> SUFFICES ASSUME NEW g \in Handlers, co'[g].job = "reconcile"
               PROVE  LedgerOf(co[g])'
    OBVIOUS
  <2>1. co'[g] = co[g] /\ LedgerOf(co[g])
    BY <1>3 DEF Ledger
  <2> QED
    BY <1>1, <1>2, <2>1 DEF LedgerOf
<1>5. Counted(file)' <=> Counted(file)
  BY <1>1 DEF Counted
<1>6. Counted(worker.next)' <=> Counted(worker.next)
  BY <1>1 DEF Counted
<1> QED
  BY <1>1, <1>2, <1>3, <1>4, <1>5, <1>6 DEF Ledger, Worker

\* Outside of its posting, no reconciliation is served.
LEMMA NobodyReconciles ==
    ASSUME Calm, ~Worker("posting"), NEW g \in Handlers
    PROVE  co[g].job # "reconcile"
  BY OneReconciles

LEMMA CycleLedger ==
    ASSUME TypeInv, Sound, Ledger, NEW h \in Handlers, BeginCycle(h) \/ ExecutionReturns(h)
    PROVE  Ledger'
<1>1. /\ UNCHANGED <<file, gap, inventory>> /\ Alone1(h)
      /\ co'[h].job # "reconcile" /\ co'[h].pc \notin {"failed", "done"}
  BY BeginCycleDoes, ExecutionReturnsDoes DEF Begins, outside, tables
<1>2. worker.pc \in {"sleep", "executing"} /\ worker'.pc \in {"executing", "discover"}
  BY BeginCycleDoes, ExecutionReturnsDoes DEF Worker
<1>3. \A g \in Handlers : co[g].job # "reconcile"
  BY <1>2, NobodyReconciles DEF Sound, Worker
<1>4. UNCHANGED Active
  BY <1>1 DEF Active
<1>5. \A g \in Handlers : co'[g].pc # "failed" /\ co'[g].job # "reconcile"
  BY <1>1, <1>3 DEF Ledger, Alone1
<1>6. Counted(file)'
  BY <1>1, <1>2 DEF Counted, Ledger
<1> QED
  BY <1>1, <1>2, <1>4, <1>5, <1>6 DEF Ledger, Worker

\* What the counters of the state say after a discovery.
LEMMA ConfirmCounts ==
    ASSUME file \in SyncStates, gap \in [Keys -> Nat], Counted(file),
           gap' = [k \in Keys |-> IF k \in Present THEN 0
                                  ELSE IF gap[k] < Confirmations THEN gap[k] + 1 ELSE gap[k]]
    PROVE  /\ gap' \in [Keys -> Nat]
           /\ \A k \in Confirm(file, Present).known : gap'[k] >= Confirm(file, Present).count[k]
           /\ \A k \in file.known \ Confirm(file, Present).known : gap'[k] >= Confirmations
<1> DEFINE absent == {k \in file.known \ Present : file.count[k] + 1 < Confirmations}
<1>0. /\ Confirmations \in Nat \ {0} /\ file.known \subseteq Keys /\ file.count \in [Keys -> Nat]
      /\ Present \subseteq Keys
  BY SyncAssumption DEF SyncStates, Present
<1>1. /\ Confirm(file, Present).known = Present \cup absent
      /\ \A k \in Keys : Confirm(file, Present).count[k] = IF k \in absent THEN file.count[k] + 1 ELSE 0
  BY DEF Confirm
<1>2. \A k \in Keys : gap'[k] = IF k \in Present THEN 0
                               ELSE IF gap[k] < Confirmations THEN gap[k] + 1 ELSE gap[k]
  OBVIOUS
<1>3. gap' \in [Keys -> Nat]
  OBVIOUS
<1>4. ASSUME NEW k \in Present \cup absent
      PROVE  gap'[k] >= Confirm(file, Present).count[k]
  <2>1. k \in Keys /\ gap[k] \in Nat /\ file.count[k] \in Nat
    BY <1>0
  <2>2. CASE k \in absent
    <3>1. gap[k] >= file.count[k] /\ k \notin Present /\ file.count[k] + 1 < Confirmations
      BY <2>2 DEF Counted
    <3> HIDE DEF absent
    <3>2. Confirm(file, Present).count[k] = file.count[k] + 1
      BY <1>1, <2>1, <2>2
    <3>3. gap'[k] = IF gap[k] < Confirmations THEN gap[k] + 1 ELSE gap[k]
      BY <1>2, <2>1, <3>1
    <3> QED
      BY <1>0, <2>1, <3>1, <3>2, <3>3
  <2>3. CASE k \notin absent
    <3> HIDE DEF absent
    <3>1. Confirm(file, Present).count[k] = 0 /\ k \in Present
      BY <1>1, <2>1, <2>3, <1>4
    <3>2. gap'[k] = 0
      BY <1>2, <2>1, <3>1
    <3> QED
      BY <3>1, <3>2
  <2> QED
    BY <2>2, <2>3
<1>5. ASSUME NEW k \in file.known, k \notin Present \cup absent
      PROVE  gap'[k] >= Confirmations
  <2>1. k \in Keys /\ gap[k] \in Nat /\ file.count[k] \in Nat
    BY <1>0
  <2>2. gap[k] >= file.count[k] /\ k \notin Present /\ ~(file.count[k] + 1 < Confirmations)
    BY <1>5 DEF Counted
  <2>3. gap'[k] = IF gap[k] < Confirmations THEN gap[k] + 1 ELSE gap[k]
    BY <1>2, <2>1, <2>2
  <2> QED
    BY <1>0, <2>1, <2>2, <2>3
<1> QED
  BY <1>1, <1>3, <1>4, <1>5

LEMMA DiscoverLedger ==
    ASSUME TypeInv, Sound, Ledger, Discover
    PROVE  Ledger'
<1>1. UNCHANGED <<file, co, inventory>> /\ worker.pc = "discover"
  BY DEF Discover, outside, tables, Worker
<1>2. \A g \in Handlers : co'[g].pc # "failed" /\ co'[g].job # "reconcile"
  BY <1>1, NobodyReconciles DEF Sound, Worker, Ledger
<1>3. Active' = file'.known
  BY <1>1 DEF Active, Ledger, Worker
<1>4. Counted(file) /\ gap \in [Keys -> Nat]
  BY <1>1 DEF Ledger
<1>5. CASE worker' = Sleeping /\ UNCHANGED gap
  <2>1. Counted(file)' /\ worker'.pc = "sleep"
    BY <1>1, <1>4, <1>5 DEF Counted, Sleeping
  <2> QED
    BY <1>2, <1>3, <1>4, <1>5, <2>1 DEF Ledger, Worker
<1>6. CASE worker' = [pc |-> "upsert", next |-> Confirm(file, Present),
                      adds |-> Present \ file.known, items |-> Present, excluded |-> Login]
           /\ gap' = [k \in Keys |-> IF k \in Present THEN 0
                                     ELSE IF gap[k] < Confirmations THEN gap[k] + 1 ELSE gap[k]]
  <2>1. worker'.pc = "upsert" /\ worker'.next = Confirm(file, Present)
    BY <1>6
  <2>2. file \in SyncStates
    BY DEF TypeInv, SyncTyped
  <2>3. /\ gap' \in [Keys -> Nat]
        /\ \A k \in Confirm(file, Present).known : gap'[k] >= Confirm(file, Present).count[k]
        /\ \A k \in file.known \ Confirm(file, Present).known : gap'[k] >= Confirmations
    BY <1>4, <1>6, <2>2, ConfirmCounts
  <2>4. Counted(worker.next)' /\ \A k \in file'.known \ worker'.next.known : gap'[k] >= Confirmations
    BY <1>1, <2>1, <2>3 DEF Counted
  <2> QED
    BY <1>2, <1>3, <2>1, <2>3, <2>4 DEF Ledger, Worker
<1> QED
  BY <1>5, <1>6 DEF Discover

LEMMA UpsertLedger ==
    ASSUME TypeInv, Sound, Ledger, Upsert
    PROVE  Ledger'
<1>1. UNCHANGED <<file, co, inventory, gap>> /\ worker.pc = "upsert" /\ ~May("cleanup")
  BY DEF Upsert, tables, Worker, Sound, May
<1>2. worker'.next = worker.next /\ worker'.pc \in {"upsert", "post"}
  BY <1>1 DEF Upsert, TypeInv, SyncTyped
<1>3. \A g \in Handlers : co'[g].pc # "failed" /\ co'[g].job # "reconcile"
  BY <1>1, NobodyReconciles DEF Sound, Worker, Ledger
<1>4. Active' = file'.known
  BY <1>1 DEF Active, Ledger, Worker
<1>5. Counted(worker.next)' /\ \A k \in file'.known \ worker'.next.known : gap'[k] >= Confirmations
  BY <1>1, <1>2 DEF Ledger, Counted
<1> QED
  BY <1>1, <1>2, <1>3, <1>4, <1>5 DEF Ledger, Worker

LEMMA PostLedger ==
    ASSUME TypeInv, Sound, Ledger, NEW h \in Handlers, Post(h)
    PROVE  Ledger'
<1>1. /\ UNCHANGED <<file, inventory, gap>> /\ worker.pc = "post" /\ Alone1(h)
      /\ co'[h].pc = "exclude" /\ co'[h].items = worker.next.known
      /\ co'[h].quiet = {k \in Keys : gap[k] >= Confirmations}
  BY PostDoes DEF outside, tables, Worker, Begins
<1>2. worker'.next = worker.next /\ worker'.pc = "posting"
  BY PostDoes DEF TypeInv, SyncTyped
<1>3. \A g \in Handlers : co[g].job # "reconcile" /\ co[g].pc # "failed" /\ co[g].caller # "worker"
  BY <1>1, NobodyReconciles DEF Sound, Worker, Ledger, Calm, WorkerAlone, CallerFits
<1>4. UNCHANGED Active /\ Active = file.known /\ file.known \subseteq Keys
  BY <1>1 DEF Active, Ledger, Worker, TypeInv, SyncTyped, SyncStates
<1>5. Counted(worker.next)' /\ \A k \in file.known \ worker.next.known : gap[k] >= Confirmations
  BY <1>1, <1>2 DEF Ledger, Counted
<1>6. LedgerOf(co[h])'
  BY <1>1, <1>2, <1>4, <1>5 DEF LedgerOf
<1>7. \A g \in Handlers : co'[g].pc # "failed" /\ (co'[g].job = "reconcile" => g = h)
                          /\ (co'[g].caller = "worker" => g = h)
  BY <1>1, <1>3 DEF Alone1
<1>8. gap' \in [Keys -> Nat]
  BY <1>1 DEF Ledger
<1> QED
  BY <1>1, <1>2, <1>5, <1>6, <1>7, <1>8 DEF Ledger, Worker

LEMMA SaveLedger ==
    ASSUME TypeInv, Sound, Ledger, NEW h \in Handlers, Save(h)
    PROVE  Ledger'
<1>1. /\ UNCHANGED <<inventory, gap>> /\ worker.pc = "posting" /\ Alone1(h)
      /\ co[h].pc \in {"done", "failed"} /\ co[h].caller = "worker"
      /\ co'[h].job = "none" /\ co'[h].pc = "idle" /\ worker'.pc = "sleep"
      /\ file' = IF co[h].pc = "done" THEN worker.next ELSE file
  BY SaveDoes DEF outside, tables, Worker, Answered
<1>2. co[h].pc = "done" /\ file' = worker.next
  BY <1>1 DEF Ledger
<1>3. \A g \in Handlers : g # h => co[g].job # "reconcile"
  BY <1>1, OneReconciles DEF Sound, Calm, WorkerAlone
<1>4. Active' = file'.known
  BY <1>1, <1>2 DEF Active, Ledger, Worker
<1>5. Counted(file)' /\ gap' \in [Keys -> Nat]
  BY <1>1, <1>2 DEF Counted, Ledger
<1>6. \A g \in Handlers : co'[g].pc # "failed" /\ co'[g].job # "reconcile"
  BY <1>1, <1>3 DEF Alone1, Ledger
<1> QED
  BY <1>1, <1>4, <1>5, <1>6 DEF Ledger, Worker

LEMMA NextLedger ==
    ASSUME TypeInv, Rows, Sound, Ledger, [SyncNext]_vars
    PROVE  Ledger'
<1>0. ~May("abandon") /\ ~May("api") /\ deploy.pc = "over" /\ \A h \in Handlers : co[h].caller # "ansible"
  BY DEF Sound, May, Calm, NoDeployment
<1>1. ASSUME NEW h \in Handlers, Around(h)
      PROVE  Ledger'
  BY <1>0, <1>1, CycleLedger, PostLedger, SaveLedger, DeployCallDoes, DeployReturnsDoes DEF Around, Answered
<1>2. ~Abandon /\ ~Crash
  BY <1>0 DEF Abandon, Crash, ApiCrash
<1> QED
  BY <1>1, <1>2, ApiLedger, AsideLedger, DiscoverLedger, UpsertLedger DEF SyncNext

LEMMA AlwaysLedger ==
    SyncSpec => []({"api", "abandon", "cleanup", "email", "deploy"} \cap faults = {} => Sound /\ Ledger)
<1>1. SyncInit => Ledger
  <2> SUFFICES ASSUME SyncInit
               PROVE  Ledger
    OBVIOUS
  <2>1. /\ \A h \in Handlers : co[h].pc = "idle" /\ co[h].job = "none"
        /\ worker.pc = "sleep" /\ gap \in [Keys -> Nat] /\ \A k \in Keys : gap[k] = 0
    BY DEF SyncInit, RemovalInit, Sleeping, Idle
  <2>2. file.known = Present /\ \A k \in Keys : file.count[k] = 0
    BY DEF SyncInit
  <2>3. Active = Present
    BY DEF SyncInit, RemovalInit, Active, Present
  <2>4. Counted(file)
    BY <2>1, <2>2 DEF Counted, Present
  <2> QED
    BY <2>1, <2>2, <2>3, <2>4 DEF Ledger, Worker
<1>2. TypeInv /\ Rows /\ ({"abandon", "deploy"} \cap faults = {} => Calm /\ Fresh)
        /\ ({"api", "abandon", "cleanup", "email", "deploy"} \cap faults = {} => Ledger) /\ [SyncNext]_vars
        => ({"api", "abandon", "cleanup", "email", "deploy"} \cap faults = {} => Ledger)'
  BY FaultsStay, NextLedger DEF Sound
<1>3. ({"abandon", "deploy"} \cap faults = {} => Calm /\ Fresh)
        /\ ({"api", "abandon", "cleanup", "email", "deploy"} \cap faults = {} => Ledger)
        => ({"api", "abandon", "cleanup", "email", "deploy"} \cap faults = {} => Sound /\ Ledger)
  BY DEF Sound
<1> QED
  BY <1>1, <1>2, <1>3, TypesStay, AlwaysRows, AlwaysFresh, PTL DEF SyncSpec

\* A removal is asked for only after missing_confirmation_cycles successful
\* discoveries in a row without the entitlement: the counters of the state file
\* never run ahead of the absences, what a manifest leaves out of the known
\* entitlements was absent that often, and while no call fails the inventory
\* holds nothing the state file does not know.
THEOREM AbsencesAreConfirmed == SyncSpec => AbsenceConfirmed
<1>1. ({"api", "abandon", "cleanup", "email", "deploy"} \cap faults = {} => Sound /\ Ledger)
        => [{"api", "abandon", "cleanup", "email", "deploy"} \cap faults = {} =>
              \A h \in Handlers :
                  At(h, "create") /\ ~At(h, "create")' /\ co'[h].pc = "sendRead" /\ co[h].job = "reconcile"
                  => co[h].k \in co[h].quiet]_vars
  BY DEF Ledger, LedgerOf, At
<1> QED
  BY <1>1, AlwaysLedger, PTL DEF AbsenceConfirmed

-----------------------------------------------------------------------------
(* Executions *)

\* Who changes the status of a request, and how.
LEMMA StatusWritten ==
    ASSUME ApiTyped, Rows, NEW h \in Handlers, ApiStep(h),
           NEW r \in Requests, req'[r].status # req[r].status
    PROVE  \/ Record(h) /\ r = co[h].r /\ Ends(h, TRUE)
           \/ Exclude(h) /\ req[r].status = "PENDING" /\ req'[r].status = "CANCELLED"
           \/ Cancel(h) /\ r = co[h].r /\ req'[r].status = "CANCELLED"
           \/ Create(h) /\ r = co'[h].r /\ req[r].status = "NONE" /\ req'[r].status = "PENDING"
           \/ /\ Pick(h) /\ req[r].status = "APPROVED" /\ req'[r].status = "CANCELLED"
              /\ UNCHANGED dismantled /\ co'[h].pc = "pick"
           \/ /\ Conclude(h) /\ r = co[h].r
              /\ req'[r].status = IF co[h].pc = "complete" THEN "COMPLETED" ELSE "FAILED"
<1>1. StepRows(co[h]) /\ InOrder
  BY DEF Rows
<1>2. /\ Record(h) => req[co[h].r].status # "NONE"
      /\ Cancel(h) => req[co[h].r].status # "NONE"
      /\ Conclude(h) => req[co[h].r].status # "NONE"
  BY <1>1, CoHas DEF Record, Cancel, Conclude, At, StepRows, OwnSteps
<1>3. CASE ClearLink(h)
  BY <1>3, ClearLinkDoes DEF OtherRows
<1>4. CASE Record(h)
  BY <1>2, <1>4, RecordDoes DEF OtherRows
<1>5. CASE SendWrite(h)
  BY <1>5, SendWriteDoes DEF OtherRows
<1>6. CASE Exclude(h)
  BY <1>6, ExcludeDoes DEF Of
<1>7. CASE Cancel(h)
  BY <1>2, <1>7, CancelDoes DEF OtherRows
<1>8. CASE Create(h)
  <2>1. PICK q : q = co'[h].r
    OBVIOUS
  <2>2. /\ q \in Requests /\ req[q].status = "NONE" /\ OtherRows(q)
        /\ req'[q] = [key |-> co[h].k, status |-> "PENDING", level |-> 1, token |-> 0]
    BY <1>1, <1>8, <2>1, CreateDoes
  <2>3. req'[q].status = "PENDING"
    BY <2>2
  <2> QED
    BY <1>8, <2>1, <2>2, <2>3 DEF OtherRows
<1>9. CASE Pick(h)
  BY <1>9, PickDoes DEF OtherRows
<1>10. CASE Conclude(h)
  BY <1>2, <1>10, ConcludeDoes DEF OtherRows
<1>11. CASE SendRead(h) \/ Forget(h) \/ Items(h) \/ Missing(h) \/ Migrate(h)
  BY <1>11, SendReadDoes, ForgetDoes, ItemsDoes, MissingDoes, MigrateDoes DEF tables
<1>12. CASE CleanupFails(h) \/ ListHolders(h) \/ Unassign(h) \/ DropRole(h)
  BY <1>12, CleanupFailsDoes, ListHoldersDoes, UnassignDoes, DropRoleDoes DEF tables
<1>13. CASE Orphans(h) \/ AskDelete(h) \/ DeleteShadows(h)
  BY <1>13, OrphansDoes, AskDeleteDoes, DeleteShadowsDoes DEF tables
<1> QED
  BY <1>3, <1>4, <1>5, <1>6, <1>7, <1>8, <1>9, <1>10, <1>11, <1>12, <1>13 DEF ApiStep

\* Only Pick begins to dismantle, and only Unassign of an execution takes roles.
LEMMA DismantledWritten ==
    ASSUME ApiTyped, NEW h \in Handlers, ApiStep(h)
    PROVE  \/ UNCHANGED dismantled
           \/ /\ Pick(h) /\ UNCHANGED req /\ SameJob(h)
              /\ co'[h].pc = "list" /\ co'[h].r \in Requests /\ req[co'[h].r].status = "APPROVED"
              /\ dismantled' = dismantled \cup {co'[h].r}
<1>1. CASE Pick(h)
  BY <1>1, PickDoes
<1>2. CASE ~Pick(h)
  BY <1>2 DEF ApiStep, ClearLink, Record, SendRead, SendWrite, Exclude, Forget, Items, Cancel,
     Missing, Create, Migrate, CleanupFails, ListHolders, Unassign, DropRole, Orphans, AskDelete,
     DeleteShadows, Conclude, history
<1> QED
  BY <1>1, <1>2

LEMMA LostWritten ==
    ASSUME ApiTyped, NEW h \in Handlers, ApiStep(h)
    PROVE  \/ UNCHANGED lost
           \/ /\ co[h].job = "execute" /\ co[h].pc = "unassign"
              /\ \A r \in Requests : r # co[h].r => lost'[r] = lost[r]
<1>1. CASE Unassign(h)
  <2>1. lost \in [Requests -> SUBSET Users]
    BY DEF ApiTyped, HistoryTyped
  <2> QED
    BY <1>1, <2>1, UnassignDoes
<1>2. CASE ~Unassign(h)
  BY <1>2 DEF ApiStep, ClearLink, Record, SendRead, SendWrite, Exclude, Forget, Items, Cancel,
     Missing, Create, Migrate, CleanupFails, ListHolders, Pick, DropRole, Orphans, AskDelete,
     DeleteShadows, Conclude, history
<1> QED
  BY <1>1, <1>2

\* A user that lost the role is noted with the roles it still has.
Noted(c, u)  == <<u, holds[u]>> \in c.affected /\ c.k \notin holds[u]
Orphaned(u)  == holds[u] \cap Active = {}
Dismantles(h) == co[h].job = "execute" /\ co[h].pc # "pick"
\* What an execution has done of its removal.
Executing(c) ==
    /\ req[c.r].status = "APPROVED"
    /\ c.pc = "list" => lost[c.r] = {}
    /\ c.pc \in {"list", "unassign", "dropRole", "orphans"} => \A u \in lost[c.r] : Noted(c, u)
    /\ c.pc = "unassign" => \A u \in c.users : c.k \in holds[u]
    /\ c.pc = "askDelete" => \A u \in lost[c.r] : Orphaned(u) => u \in c.users \cup deletions
    /\ c.pc \in {"shadows", "complete"} =>
          c.k \in Legacy \/ \A u \in lost[c.r] : Orphaned(u) => u \in deletions
\* A removal is executed once: who else holds its request writes it no more.
OpenFor(c) ==
    /\ c.pc \in OwnSteps => req[c.r].status \in {"PENDING", "CANCELLED"}
    /\ c.pc \in OwnSteps \cup {"cancel"} => c.r \notin dismantled
Closed(r) ==
    \/ req[r].status \in {"COMPLETED", "FAILED"}
    \/ \E h \in Handlers : Dismantles(h) /\ co[h].r = r
Once ==
    /\ \A h \in Handlers : Dismantles(h) => Executing(co[h])
    /\ \A h \in Handlers : OpenFor(co[h])
    /\ \A r \in Requests \ dismantled : lost[r] = {}
    /\ \A r \in dismantled : Closed(r)

\* A request that has not been approved is not being dismantled.
LEMMA NotDismantled ==
    ASSUME ApiTyped, Rows, Once, NEW r \in Requests,
           req[r].status \notin {"COMPLETED", "FAILED", "APPROVED"}
    PROVE  r \notin dismantled
<1>1. ASSUME r \in dismantled
      PROVE  FALSE
  <2>1. PICK h \in Handlers : Dismantles(h) /\ co[h].r = r
    BY <1>1 DEF Once, Closed
  <2> QED
    BY <2>1 DEF Once, Executing
<1> QED
  BY <1>1

\* A coroutine that is not executing leaves the executions alone.
LEMMA OthersOnce ==
    ASSUME ApiTyped, Rows, Calm, Once, NEW h \in Handlers, ApiStep(h),
           NEW g \in Handlers, g # h, Dismantles(g)
    PROVE  Executing(co[g])'
<1>0. Alone1(h) /\ co[g].r \in Requests /\ Executing(co[g])
  BY ApiCourse, RowOf DEF Dismantles, Once
<1>1. co[h].job \in {"decide", "renew"}
  BY OneReconciles, CoHas, StepAt DEF Jobs, Dismantles, Over
<1>2. co[h].pc \in OwnSteps
  BY <1>1, CoHas DEF StepTyped, OwnSteps
<1>3. UNCHANGED <<inventory, deletions, lost, holds>>
  BY <1>2, StepAt, ClearLinkDoes, SendReadDoes, SendWriteDoes DEF OwnSteps, Record, history, tables, midpoint
<1>4. req'[co[g].r].status = req[co[g].r].status
  <2>1. Record(h) => co[h].r # co[g].r
    BY <1>0, <1>2 DEF Executing, Once, OpenFor
  <2>2. ~Exclude(h) /\ ~Cancel(h) /\ ~Create(h) /\ ~Pick(h) /\ ~Conclude(h)
    BY <1>2 DEF OwnSteps, Exclude, Cancel, Create, Pick, Conclude, At
  <2> QED
    BY <1>0, <2>1, <2>2, StatusWritten
<1>5. co'[g] = co[g] /\ UNCHANGED Active
  BY <1>0, <1>3 DEF Alone1, Active
<1> QED
  BY <1>0, <1>3, <1>4, <1>5 DEF Executing, Noted, Orphaned

\* One step of an execution.
LEMMA ExecutionPath ==
    ASSUME ApiTyped, Rows, NEW h \in Handlers, ApiStep(h), Dismantles(h)
    PROVE  \/ Dismantles(h)' /\ co'[h].r = co[h].r /\ co'[h].k = co[h].k
           \/ /\ Conclude(h) /\ co'[h].pc = "pick"
              /\ req'[co[h].r].status \in {"COMPLETED", "FAILED"}
<1>1. co[h].job = "execute" /\ StepRows(co[h]) /\ req[co[h].r].status # "NONE"
  BY DEF Dismantles, Rows, StepRows
<1>2. co[h].pc \in {"list", "unassign", "dropRole", "orphans", "askDelete", "shadows", "complete", "fail"}
  BY <1>1, CoHas DEF StepTyped, Dismantles
<1>3. CASE CleanupFails(h)
  BY <1>1, <1>3, CleanupFailsDoes DEF Dismantles, SameTask, SameJob
<1>4. CASE Conclude(h)
  BY <1>1, <1>4, ConcludeDoes
<1>5. CASE ListHolders(h) \/ Unassign(h) \/ DropRole(h)
  BY <1>1, <1>5, ListHoldersDoes, UnassignDoes, DropRoleDoes, AfterDoes
  DEF Dismantles, SameRemoval, SameTask, SameJob
<1>6. CASE Orphans(h) \/ AskDelete(h) \/ DeleteShadows(h)
  BY <1>1, <1>6, OrphansDoes, AskDeleteDoes, DeleteShadowsDoes DEF Dismantles, SameRemoval, SameTask, SameJob
<1> QED
  BY <1>2, <1>3, <1>4, <1>5, <1>6, StepAt

\* The user whose role is taken next is noted with what it has left.
LEMMA UnassignOnce ==
    ASSUME ApiTyped, NEW h \in Handlers, Unassign(h), Dismantles(h), Executing(co[h]),
           co[h].r \in Requests
    PROVE  Executing(co[h])'
<1>1. /\ co[h].pc = "unassign" /\ SameRemoval(h) /\ UNCHANGED <<req, inventory, deletions>>
      /\ co[h].job = "execute" /\ holds \in [Users -> SUBSET Keys]
      /\ lost \in [Requests -> SUBSET Users] /\ co[h].users \subseteq Users
  BY UnassignDoes, CoHas DEF tables, Dismantles, ApiTyped, MidPointTyped, HistoryTyped, Coroutines
<1>2. CASE co'[h].pc = "dropRole" /\ co'[h].affected = co[h].affected /\ UNCHANGED <<holds, lost>>
  BY <1>1, <1>2 DEF Executing, Noted, SameRemoval
<1>3. ASSUME NEW u \in co[h].users, co'[h].pc = "unassign", co'[h].users = co[h].users \ {u},
             holds' = [holds EXCEPT ![u] = @ \ {co[h].k}],
             lost' = [lost EXCEPT ![co[h].r] = @ \cup {u}],
             co'[h].affected = IF co[h].k \in holds[u]
                               THEN co[h].affected \cup {<<u, holds[u] \ {co[h].k}>>}
                               ELSE co[h].affected
      PROVE  Executing(co[h])'
  <2>1. u \in Users /\ co[h].k \in holds[u]
    BY <1>1, <1>3 DEF Executing
  <2>2. /\ holds'[u] = holds[u] \ {co[h].k} /\ \A v \in Users : v # u => holds'[v] = holds[v]
        /\ lost'[co[h].r] = lost[co[h].r] \cup {u} /\ lost[co[h].r] \subseteq Users
        /\ co'[h].affected = co[h].affected \cup {<<u, holds[u] \ {co[h].k}>>}
    BY <1>1, <1>3, <2>1
  <2>3. ASSUME NEW v \in lost'[co[h].r]
        PROVE  <<v, holds'[v]>> \in co'[h].affected /\ co[h].k \notin holds'[v]
    <3>1. CASE v = u
      BY <2>2, <3>1
    <3>2. CASE v # u
      BY <1>1, <2>2, <2>3, <3>2 DEF Executing, Noted
    <3> QED
      BY <3>1, <3>2
  <2>4. \A v \in co'[h].users : co[h].k \in holds'[v]
    BY <1>1, <1>3, <2>2 DEF Executing
  <2>5. co'[h].r = co[h].r /\ co'[h].k = co[h].k /\ req'[co[h].r].status = "APPROVED"
    BY <1>1 DEF SameRemoval, Executing
  <2> QED
    BY <1>3, <2>3, <2>4, <2>5 DEF Executing, Noted
<1> QED
  BY <1>1, <1>2, <1>3, UnassignDoes

LEMMA ExecutesOnce ==
    ASSUME ApiTyped, Rows, Calm, Once, NEW h \in Handlers, ApiStep(h), Dismantles(h)'
    PROVE  Executing(co[h])'
<1>0. Alone1(h) /\ co[h].job = "execute"
  BY ApiCourse, CoHas, StepAt DEF SameJob, Ends, Dismantles, Over
<1>1. CASE co[h].pc = "pick"
  <2>1. Pick(h)
    BY <1>1, StepAt
  <2>2. PICK r \in Requests :
            /\ co'[h].pc = "list" /\ req[r].status = "APPROVED"
            /\ co'[h].r = r /\ co'[h].affected = {} /\ UNCHANGED <<req, lost>>
    BY <1>0, <2>1, PickDoes DEF Dismantles, Ends
  <2>3. r \notin dismantled
    <3>1. ASSUME NEW g \in Handlers, Dismantles(g)
          PROVE  FALSE
      BY <1>0, <1>1, <3>1, OneReconciles DEF Dismantles
    <3> QED
      BY <2>2, <3>1 DEF Once, Closed
  <2>4. lost[r] = {}
    BY <2>3 DEF Once
  <2> QED
    BY <2>2, <2>4 DEF Executing
<1>2. CASE co[h].pc # "pick"
  <2>1. Dismantles(h) /\ Executing(co[h]) /\ co[h].r \in Requests
    BY <1>0, <1>2, RowOf DEF Dismantles, Once
  <2>2. CASE CleanupFails(h)
    BY <1>0, <2>1, <2>2, CleanupFailsDoes DEF Executing, tables
  <2>3. CASE ListHolders(h)
    <3>1. /\ co[h].pc = "list" /\ UNCHANGED <<req, inventory, holds, lost, deletions>>
          /\ co'[h].r = co[h].r /\ co'[h].k = co[h].k /\ co'[h].affected = co[h].affected
          /\ \/ co'[h].pc = "unassign" /\ co'[h].users = {u \in Users : co[h].k \in holds[u]}
             \/ co'[h].pc = "complete" /\ co[h].k \in Legacy
             \/ co'[h].pc = "orphans"
      BY <1>0, <2>3, ListHoldersDoes, AfterDoes DEF tables, midpoint, history, SameRemoval
    <3> QED
      BY <2>1, <3>1 DEF Executing, Noted
  <2>4. CASE Unassign(h)
    BY <2>1, <2>4, UnassignOnce
  <2>5. CASE DropRole(h)
    <3>1. /\ co[h].pc = "dropRole" /\ UNCHANGED <<req, inventory, holds, lost, deletions>>
          /\ co'[h].r = co[h].r /\ co'[h].k = co[h].k /\ co'[h].affected = co[h].affected
          /\ \/ co'[h].pc = "complete" /\ co[h].k \in Legacy
             \/ co'[h].pc = "orphans"
      BY <1>0, <2>5, DropRoleDoes, AfterDoes DEF tables, history, SameRemoval
    <3> QED
      BY <2>1, <3>1 DEF Executing, Noted
  <2>6. CASE Orphans(h)
    <3>1. /\ co[h].pc = "orphans" /\ UNCHANGED <<req, inventory, holds, lost, deletions>>
          /\ co'[h].r = co[h].r /\ co'[h].pc = "askDelete"
          /\ co'[h].users = {a[1] : a \in {b \in co[h].affected : b[2] \cap (Active \ {co[h].k}) = {}}}
      BY <2>6, OrphansDoes DEF tables, midpoint, history, SameRemoval
    <3>2. ASSUME NEW u \in lost[co[h].r], Orphaned(u)
          PROVE  u \in co'[h].users
      <4>1. <<u, holds[u]>> \in co[h].affected
        BY <2>1, <3>1 DEF Executing, Noted
      <4>2. <<u, holds[u]>> \in {b \in co[h].affected : b[2] \cap (Active \ {co[h].k}) = {}}
        BY <3>2, <4>1 DEF Orphaned
      <4> QED
        BY <3>1, <4>2
    <3>3. UNCHANGED Active
      BY <3>1 DEF Active
    <3> QED
      BY <2>1, <3>1, <3>2, <3>3 DEF Executing, Orphaned
  <2>7. CASE AskDelete(h)
    <3>1. /\ co[h].pc = "askDelete" /\ UNCHANGED <<req, inventory, holds, lost>>
          /\ co'[h].r = co[h].r /\ co'[h].k = co[h].k
          /\ \/ co[h].users = {} /\ co'[h].pc = "shadows" /\ UNCHANGED deletions
             \/ \E u \in co[h].users : /\ deletions' = deletions \cup {u} /\ co'[h].pc = "askDelete"
                                       /\ co'[h].users = co[h].users \ {u}
      BY <2>7, AskDeleteDoes DEF tables, midpoint, history, SameRemoval
    <3>2. UNCHANGED Active
      BY <3>1 DEF Active
    <3> QED
      BY <2>1, <3>1, <3>2 DEF Executing, Orphaned
  <2>8. CASE DeleteShadows(h)
    <3>1. /\ co[h].pc = "shadows" /\ UNCHANGED <<req, inventory, holds, lost, deletions>>
          /\ co'[h].r = co[h].r /\ co'[h].k = co[h].k /\ co'[h].pc = "complete"
      BY <2>8, DeleteShadowsDoes DEF tables, history, SameRemoval
    <3>2. UNCHANGED Active
      BY <3>1 DEF Active
    <3> QED
      BY <2>1, <3>1, <3>2 DEF Executing, Orphaned
  <2>9. CASE Conclude(h)
    <3>1. req[co[h].r].status # "NONE"
      BY <1>0, <1>2 DEF Rows, StepRows
    <3> QED
      BY <2>9, <3>1, ConcludeDoes DEF Dismantles
  <2> QED
    BY <1>0, <1>2, <2>2, <2>3, <2>4, <2>5, <2>6, <2>7, <2>8, <2>9, CoHas, StepAt DEF StepTyped
<1> QED
  BY <1>1, <1>2

LEMMA ComesToCancel ==
    ASSUME ApiTyped, Rows, NEW h \in Handlers, ApiStep(h), co'[h].pc = "cancel"
    PROVE  Items(h)
<1>1. StepRows(co[h]) /\ InOrder
  BY DEF Rows
<1>2. /\ Record(h) => req[co[h].r].status # "NONE"
      /\ Cancel(h) => req[co[h].r].status # "NONE"
      /\ Conclude(h) => req[co[h].r].status # "NONE"
  BY <1>1, CoHas DEF Record, Cancel, Conclude, At, StepRows, OwnSteps
<1>3. CASE ClearLink(h) \/ Record(h) \/ SendRead(h) \/ SendWrite(h)
  BY <1>2, <1>3, ClearLinkDoes, RecordDoes, SendReadDoes, SendWriteDoes DEF Ends
<1>4. CASE Exclude(h) \/ Forget(h) \/ Cancel(h) \/ Missing(h) \/ Create(h)
  BY <1>1, <1>2, <1>4, ExcludeDoes, ForgetDoes, CancelDoes, MissingDoes, CreateDoes DEF Ends
<1>5. CASE Migrate(h) \/ CleanupFails(h)
  BY <1>5, MigrateDoes, CleanupFailsDoes DEF Ends
<1>6. CASE ListHolders(h) \/ Unassign(h) \/ DropRole(h)
  BY <1>6, ListHoldersDoes, UnassignDoes, DropRoleDoes, AfterDoes
<1>7. CASE Pick(h) \/ Orphans(h) \/ AskDelete(h) \/ DeleteShadows(h) \/ Conclude(h)
  BY <1>2, <1>7, PickDoes, OrphansDoes, AskDeleteDoes, DeleteShadowsDoes, ConcludeDoes DEF Ends
<1> QED
  BY <1>3, <1>4, <1>5, <1>6, <1>7 DEF ApiStep

LEMMA OutsideUsers ==
    ASSUME \/ People \/ Discover \/ Upsert \/ DeployRoles \/ Abandon \/ Crash \/ UNCHANGED vars
           \/ \E h \in Handlers : Around(h)
    PROVE  UNCHANGED <<holds, deletions>>
<1>1. People => UNCHANGED <<holds, deletions>>
  BY DEF People, Click, Renew, Expire, ChangeTarget, midpoint
<1>2. Discover \/ Upsert \/ DeployRoles => UNCHANGED <<holds, deletions>>
  BY DEF Discover, Upsert, DeployRoles, outside, midpoint
<1>3. Abandon \/ Crash \/ UNCHANGED vars => UNCHANGED <<holds, deletions>>
  BY DEF Abandon, Crash, ApiCrash, vars, removalVars, outside, midpoint
<1>4. ASSUME NEW h \in Handlers, Around(h)
      PROVE  UNCHANGED <<holds, deletions>>
  BY <1>4 DEF Around, BeginCycle, ExecutionReturns, Post, Save, DeployCall, DeployReturns, outside,
     midpoint
<1> QED
  BY <1>1, <1>2, <1>3, <1>4

\* Coroutines come to hold a request that is pending, and not being dismantled.
LEMMA ApiOpens ==
    ASSUME ApiTyped, Rows, Calm, OneOwner, Once, NEW h \in Handlers, ApiStep(h), NEW g \in Handlers
    PROVE  OpenFor(co[g])'
<1>0. Alone1(h)
  BY ApiCourse
<1>1. ASSUME co'[g].pc \in OwnSteps \cup {"cancel"}
      PROVE  co'[g].r \in Requests
  BY <1>1, ApiStepTyped DEF ApiTyped, CoTyped, StepTyped, OwnSteps
<1>2. ASSUME co'[g].pc \in OwnSteps
      PROVE  /\ req'[co'[g].r].status \in {"PENDING", "CANCELLED"}
             /\ co'[g].r \notin dismantled'
  <2> PICK r \in Requests : r = co'[g].r
    BY <1>1, <1>2
  <2>1. Owns(g, r) \/ (g = h /\ Create(h))
    BY <1>0, <1>2, OwnsAfter DEF Owns, Alone1
  <2>2. CASE g = h /\ Create(h)
    <3>1. req[r].status = "NONE" /\ UNCHANGED history
          /\ req'[r] = [key |-> co[h].k, status |-> "PENDING", level |-> 1, token |-> 0]
      BY <2>2, CreateDoes DEF Rows
    <3>2. req'[r].status = "PENDING"
      BY <3>1
    <3> QED
      BY <3>1, <3>2, NotDismantled DEF history
  <2>3. CASE Owns(g, r)
    <3>1. req[r].status \in {"PENDING", "CANCELLED"} /\ r \notin dismantled
      BY <2>3 DEF Owns, Once, OpenFor
    <3>2. ASSUME Conclude(h)
          PROVE  r # co[h].r
      <4>1. co[h].job = "execute" /\ co[h].pc # "pick"
        BY <3>2, CoHas DEF Conclude
      <4> QED
        BY <3>1, <4>1 DEF Rows, StepRows
    <3>3. ASSUME Record(h), Ends(h, TRUE), r = co[h].r
          PROVE  FALSE
      <4>1. Owns(h, r)
        BY <3>3 DEF Record, At, Owns, OwnSteps
      <4>2. g = h
        BY <2>3, <4>1 DEF OneOwner
      <4> QED
        BY <1>2, <3>3, <4>2 DEF Ends, OwnSteps
    <3>4. req'[r].status \in {"PENDING", "CANCELLED"}
      BY <3>1, <3>2, <3>3, StatusWritten
    <3>5. r \notin dismantled'
      BY <3>1, DismantledWritten
    <3> QED
      BY <3>4, <3>5
  <2> QED
    BY <2>1, <2>2, <2>3
<1>3. ASSUME co'[g].pc = "cancel"
      PROVE  co'[g].r \notin dismantled'
  <2> PICK r \in Requests : r = co'[g].r
    BY <1>1, <1>3
  <2>1. CASE g # h
    <3>1. co[g].pc = "cancel" /\ co[g].r = r /\ co[g].job = "reconcile"
      BY <1>0, <1>3, <2>1, CoHas DEF Alone1
    <3>2. ~Pick(h)
      BY <2>1, <3>1, OneReconciles, PickDoes
    <3> QED
      BY <3>1, <3>2, DismantledWritten DEF Once, OpenFor
  <2>2. CASE g = h
    <3>1. Items(h)
      BY <1>3, <2>2, ComesToCancel
    <3>2. req[r].status = "PENDING" /\ UNCHANGED dismantled
      BY <1>3, <2>2, <3>1, ItemsDoes DEF Of, history
    <3> QED
      BY <3>2, NotDismantled
  <2> QED
    BY <2>1, <2>2
<1> QED
  BY <1>2, <1>3 DEF OpenFor, OwnSteps

LEMMA ApiOnce ==
    ASSUME ApiTyped, Rows, Calm, OneOwner, Once, NEW h \in Handlers, ApiStep(h)
    PROVE  Once'
<1>0. Alone1(h) /\ dismantled \subseteq Requests
  BY ApiCourse DEF ApiTyped, HistoryTyped
<1>1. ASSUME NEW g \in Handlers, Dismantles(g)'
      PROVE  Executing(co[g])'
  <2>1. CASE g = h
    BY <1>1, <2>1, ExecutesOnce
  <2>2. CASE g # h
    <3>1. Dismantles(g)
      BY <1>0, <1>1, <2>2 DEF Dismantles, Alone1
    <3> QED
      BY <2>2, <3>1, OthersOnce
  <2> QED
    BY <2>1, <2>2
<1>2. ASSUME NEW r \in Requests, r \notin dismantled'
      PROVE  lost'[r] = {}
  <2>1. r \notin dismantled /\ lost[r] = {}
    BY <1>2, DismantledWritten DEF Once
  <2>2. co[h].job = "execute" /\ co[h].pc = "unassign" => co[h].r # r
    BY <2>1 DEF Rows, StepRows
  <2> QED
    BY <2>1, <2>2, LostWritten
<1>3. ASSUME NEW r \in dismantled'
      PROVE  Closed(r)'
  <2>1. CASE r \notin dismantled
    <3>0. /\ Pick(h) /\ SameJob(h) /\ co'[h].pc = "list"
          /\ dismantled' = dismantled \cup {co'[h].r}
      BY <1>3, <2>1, DismantledWritten
    <3>1. co'[h].pc = "list" /\ co'[h].r = r /\ co'[h].job = "execute"
      BY <1>3, <2>1, <3>0, PickDoes DEF SameJob
    <3> QED
      BY <3>1 DEF Closed, Dismantles
  <2>2. CASE r \in dismantled /\ req[r].status \in {"COMPLETED", "FAILED"}
    <3>1. Record(h) => r # co[h].r
      BY <2>2 DEF Record, At, Once, OpenFor, OwnSteps
    <3>2. Cancel(h) => r # co[h].r
      BY <2>2 DEF Cancel, At, Once, OpenFor, OwnSteps
    <3>3. req'[r].status \in {"COMPLETED", "FAILED"}
      BY <1>0, <2>2, <3>1, <3>2, StatusWritten
    <3> QED
      BY <3>3 DEF Closed
  <2>3. ASSUME NEW g \in Handlers, Dismantles(g), co[g].r = r
        PROVE  Closed(r)'
    <3>1. CASE g # h
      <4>1. co'[g] = co[g]
        BY <1>0, <3>1 DEF Alone1
      <4> QED
        BY <2>3, <4>1 DEF Closed, Dismantles
    <3>2. CASE g = h
      BY <2>3, <3>2, ExecutionPath DEF Closed
    <3> QED
      BY <3>1, <3>2
  <2> QED
    BY <2>1, <2>2, <2>3 DEF Once, Closed
<1> QED
  BY <1>1, <1>2, <1>3, ApiOpens DEF Once

\* Links open pending requests.
LEMMA PeopleHold ==
    ASSUME ApiTyped, People, NEW g \in Handlers, co'[g] # co[g]
    PROVE  /\ co'[g].r \in Requests /\ req[co'[g].r].status = "PENDING"
           /\ co'[g].job \in {"decide", "renew"} /\ co'[g].pc \in {"clear", "sendRead"}
<1>1. ASSUME NEW h \in Handlers, NEW t \in 1..Len(link), Renew(h, t) \/ \E yes \in BOOLEAN : Click(h, t, yes)
      PROVE  /\ co'[g].r \in Requests /\ req[co'[g].r].status = "PENDING"
             /\ co'[g].job \in {"decide", "renew"} /\ co'[g].pc \in {"clear", "sendRead"}
  <2>1. /\ Alone1(h) /\ co'[h].r = link[t].r /\ link[t].r \in Requests
        /\ req[link[t].r].status = "PENDING"
        /\ co'[h].job \in {"decide", "renew"} /\ co'[h].pc \in {"clear", "sendRead"}
    BY <1>1, ClickDoes, RenewDoes DEF Begins
  <2>2. g = h
    BY <2>1 DEF Alone1
  <2> QED
    BY <2>1, <2>2
<1>2. ASSUME NEW t \in 1..Len(link), Expire(t)
      PROVE  FALSE
  BY <1>2 DEF Expire
<1>3. ASSUME NEW k \in Keys, NEW what, ChangeTarget(k, what)
      PROVE  FALSE
  BY <1>3 DEF ChangeTarget
<1> QED
  BY <1>1, <1>2, <1>3 DEF People

LEMMA OutsideOnce ==
    ASSUME TypeInv, Rows, Calm, Once, ~May("abandon"), ~May("api"),
           \/ People \/ Discover \/ Upsert \/ DeployRoles \/ Abandon \/ Crash \/ UNCHANGED vars
           \/ \E h \in Handlers : Around(h)
    PROVE  Once'
<1>0. ApiTyped /\ UNCHANGED <<req, inventory, dismantled, lost>>
  BY OutsideRequests DEF TypeInv, tables
<1>1. UNCHANGED <<holds, deletions>>
  BY OutsideUsers
<1>2. UNCHANGED Active
  BY <1>0 DEF Active
<1>3. ASSUME NEW g \in Handlers
      PROVE  \/ co'[g] = co[g]
             \/ People /\ co'[g] # co[g]
             \/ /\ co[g].pc \in Over /\ co'[g].pc \in {"idle", "pick", "exclude"}
  BY OutsideCourse, DeployCallDoes DEF Calm, NoDeployment, Over
<1>4. ASSUME NEW g \in Handlers
      PROVE  OpenFor(co[g])'
  <2>1. CASE co'[g] = co[g]
    BY <1>0, <2>1 DEF Once, OpenFor
  <2>2. CASE People /\ co'[g] # co[g]
    <3>1. co'[g].r \in Requests /\ req[co'[g].r].status = "PENDING"
      BY <1>0, <2>2, PeopleHold
    <3>2. co'[g].r \notin dismantled
      BY <1>0, <3>1, NotDismantled
    <3> QED
      BY <1>0, <3>1, <3>2 DEF OpenFor
  <2>3. CASE co'[g].pc \in {"idle", "pick", "exclude"}
    BY <2>3 DEF OpenFor, OwnSteps
  <2> QED
    BY <1>3, <2>1, <2>2, <2>3
<1>5. ASSUME NEW g \in Handlers, Dismantles(g)'
      PROVE  Executing(co[g])'
  <2>1. co'[g] = co[g]
    BY <1>0, <1>3, <1>5, PeopleHold, OutsideCourse, DeployCallDoes DEF Calm, NoDeployment, Dismantles
  <2>2. Executing(co[g])
    BY <1>5, <2>1 DEF Once, Dismantles
  <2> QED
    BY <1>0, <1>1, <1>2, <2>1, <2>2 DEF Executing, Noted, Orphaned
<1>6. ASSUME NEW r \in dismantled
      PROVE  Closed(r)'
  <2>1. ASSUME NEW g \in Handlers, Dismantles(g), co[g].r = r
        PROVE  Closed(r)'
    <3>1. co[g].pc \notin Over
      BY <1>0, <2>1, CoHas DEF Dismantles
    <3>2. co'[g] = co[g]
      BY <1>0, <3>1, OutsideCourse, DeployCallDoes DEF Calm, NoDeployment, Over
    <3> QED
      BY <2>1, <3>2 DEF Closed, Dismantles
  <2> QED
    BY <1>0, <2>1 DEF Once, Closed
<1> QED
  BY <1>0, <1>4, <1>5, <1>6 DEF Once

LEMMA AlwaysOnce ==
    SyncSpec => []({"api", "abandon", "deploy", "double"} \cap faults = {} => Calm /\ Once)
<1>1. SyncInit => Once
  BY DEF SyncInit, RemovalInit, Once, Dismantles, OpenFor, OwnSteps, Idle
<1>2. TypeInv /\ SafeInv /\ Rows /\ ({"abandon", "deploy"} \cap faults = {} => Calm /\ Fresh)
        /\ ({"api", "abandon", "deploy", "double"} \cap faults = {} => Once) /\ [SyncNext]_vars
        => ({"api", "abandon", "deploy", "double"} \cap faults = {} => Once)'
  <2> SUFFICES ASSUME TypeInv, SafeInv, Rows, Calm, Once, [SyncNext]_vars,
                      {"api", "abandon", "deploy", "double"} \cap faults = {}
               PROVE  Once'
    BY FaultsStay
  <2>1. ApiTyped /\ OneOwner /\ ~May("abandon") /\ ~May("api")
    BY DEF TypeInv, SafeInv, Safe, May
  <2> QED
    BY <2>1, ApiOnce, OutsideOnce DEF SyncNext
<1>3. ({"abandon", "deploy"} \cap faults = {} => Calm /\ Fresh)
        /\ ({"api", "abandon", "deploy", "double"} \cap faults = {} => Once)
        => ({"api", "abandon", "deploy", "double"} \cap faults = {} => Calm /\ Once)
  BY DEF Fresh
<1> QED
  BY <1>1, <1>2, <1>3, TypesStay, AlwaysSafe, AlwaysRows, AlwaysFresh, PTL DEF SyncSpec

\* A removal is COMPLETED only after the deletion of every account it left
\* without a role of the target was asked for: each user whose role an
\* execution took is noted with what remains, nobody else changes roles or the
\* inventory meanwhile, and no request is executed twice.
THEOREM OrphansAreAsked == SyncSpec => OrphansAsked
<1>1. TypeInv /\ Rows /\ ({"api", "abandon", "deploy", "double"} \cap faults = {} => Calm /\ Once)
        /\ [SyncNext]_vars
        => [{"api", "abandon", "deploy", "double"} \cap faults = {} =>
              \A r \in Requests :
                  req[r].status = "APPROVED" /\ req'[r].status = "COMPLETED" /\ req[r].key \notin Legacy
                  => \A u \in lost[r] : holds[u] \cap Active = {} => u \in deletions]_vars
  <2> SUFFICES ASSUME TypeInv, Rows, Once, [SyncNext]_vars, NEW r \in Requests,
                      req[r].status = "APPROVED", req'[r].status = "COMPLETED", req[r].key \notin Legacy
               PROVE  \A u \in lost[r] : holds[u] \cap Active = {} => u \in deletions
    OBVIOUS
  <2>1. PICK h \in Handlers : ApiStep(h)
    BY OutsideRequests DEF SyncNext, tables
  <2>2. /\ Record(h) => req[co[h].r].status # "NONE"
        /\ ApiTyped
    BY CoHas DEF Record, At, Rows, StepRows, OwnSteps, TypeInv
  <2>3. Conclude(h) /\ co[h].r = r /\ co[h].pc = "complete"
    BY <2>1, <2>2, RecordDoes, StatusWritten
  <2>4. co[h].job = "execute"
    BY <2>2, <2>3, CoHas
  <2>5. Executing(co[h]) /\ co[h].k = req[r].key
    BY <2>3, <2>4 DEF Once, Dismantles, Rows, StepRows
  <2> QED
    BY <2>3, <2>5 DEF Executing, Orphaned
<1> QED
  BY <1>1, TypesStay, AlwaysRows, AlwaysOnce, PTL DEF SyncSpec, OrphansAsked
===============================================================================
