--------------------------- MODULE EntitlementProofs ---------------------------
(***************************************************************************)
(* Two facts about EntitlementRemoval under EntitlementSync, for every set *)
(* of entitlements, users and requests at once, any number of approval     *)
(* levels and every combination of faults: type correctness, and that      *)
(* every level of the chain has signed before a role goes                  *)
(* (EveryLevelSigned).                                                     *)
(***************************************************************************)
EXTENDS EntitlementSync, FiniteSetTheorems, TLAPS

-----------------------------------------------------------------------------
\* Types.  RemovalTypeOK is not inductive: a step writes what its coroutine holds
\* in memory, and posts what the worker and the deployment hold.

Coroutines ==
    [job : Jobs, pc : Steps, caller : Callers, r : 0..MaxRequests,
     k : Keys \cup {None}, level : 0..Levels, yes : BOOLEAN,
     todo : SUBSET (Keys \cup Requests), items : SUBSET Keys, users : SUBSET Users,
     affected : SUBSET (Users \X SUBSET Keys), quiet : SUBSET Keys]
RequestRows == [key : Keys \cup {None}, status : Statuses, level : Chain, token : 0..MaxLinks]
Links       == [r : Requests, level : 0..Levels, sent : BOOLEAN]
SyncStates  == [known : SUBSET Keys, count : [Keys -> Nat]]

\* The steps of a job, and what each step has in memory.
StepTyped(c) ==
    /\ c.job = "none" => c.pc \in {"idle", "done", "failed"}
    /\ c.job = "decide" => c.pc \in {"clear", "record", "sendRead", "sendWrite"}
    /\ c.job = "renew" => c.pc \in {"sendRead", "sendWrite"}
    /\ c.job = "reconcile" =>
          c.pc \in {"exclude", "list", "unassign", "dropRole", "forget", "items", "cancel",
                    "missing", "create", "sendRead", "sendWrite"}
    /\ c.job = "legacy" => c.pc \in {"migrate", "create", "sendRead", "sendWrite"}
    /\ c.job = "execute" =>
          c.pc \in {"pick", "list", "unassign", "dropRole", "orphans", "askDelete", "shadows",
                    "complete", "fail"}
    /\ c.job \in {"reconcile", "legacy"} => c.todo \subseteq Keys
    /\ c.job = "execute" => c.todo \subseteq Requests
    /\ \/ c.pc \in {"clear", "record", "sendRead", "sendWrite", "cancel"}
       \/ c.job = "execute" /\ c.pc # "pick"
       => c.r \in Requests
    /\ c.pc \in {"clear", "record", "sendWrite"} => c.level \in Chain

RowsTyped ==
    /\ inventory \in [Keys -> {"active", "missing", "none"}]
    /\ req \in [Requests -> RequestRows]
LinksTyped ==
    /\ link \in Seq(Links) /\ Len(link) <= MaxLinks
    /\ \A t \in 1..Len(link) : link[t].level \in Chain
WorldTyped ==
    /\ native \in [Keys -> {"entitlement", "login", "absent"}]
    /\ expired \subseteq 1..MaxLinks /\ faults \subseteq FaultKinds /\ budget \in Nat
MidPointTyped ==
    role \subseteq Keys /\ holds \in [Users -> SUBSET Keys] /\ shadow \subseteq Keys
HistoryTyped ==
    /\ signed \in [Requests -> SUBSET Chain] /\ lost \in [Requests -> SUBSET Users]
    /\ dismantled \subseteq Requests /\ revoked \subseteq Requests
CoTyped == co \in [Handlers -> Coroutines] /\ \A h \in Handlers : StepTyped(co[h])
SyncTyped ==
    /\ file \in SyncStates
    /\ worker \in [pc : Phases, next : SyncStates, adds : SUBSET Keys, items : SUBSET Keys,
                   excluded : SUBSET Keys]
    /\ deploy \in [pc : {"roles", "reconcile", "legacy", "over"}, items : SUBSET Keys]

ApiTyped ==
    /\ RowsTyped /\ LinksTyped /\ WorldTyped /\ MidPointTyped /\ HistoryTyped
    /\ deletions \subseteq Users
    /\ CoTyped
TypeInv == ApiTyped /\ SyncTyped

\* A coroutine's new value replaces its old one and leaves the others alone.
LEMMA CoUpdate ==
    ASSUME co \in [Handlers -> Coroutines], NEW h \in Handlers, NEW c, Becomes(h, c)
    PROVE  co'[h] = c /\ \A g \in Handlers : g # h => co'[g] = co[g]
  BY DEF Becomes

LEMMA CoKeeps ==
    ASSUME CoTyped, NEW h \in Handlers, NEW c \in Coroutines, StepTyped(c), Becomes(h, c)
    PROVE  CoTyped'
<1>1. co' = [co EXCEPT ![h] = c]
  BY DEF Becomes
<1>2. co' \in [Handlers -> Coroutines]
  BY <1>1 DEF CoTyped
<1>3. \A g \in Handlers : StepTyped(co'[g])
  BY <1>1 DEF CoTyped
<1> QED
  BY <1>2, <1>3 DEF CoTyped, StepTyped

\* An answer ends the job, whoever gets it.
LEMMA ReplyTyped ==
    ASSUME NEW c \in Coroutines, NEW ok \in BOOLEAN
    PROVE  /\ Reply(c, ok) \in Coroutines /\ StepTyped(Reply(c, ok))
           /\ Reply(c, ok).job = "none" /\ Reply(c, ok).pc \in {"idle", "done", "failed"}
  <1>1. Idle \in Coroutines /\ Idle.job = "none" /\ Idle.pc = "idle"
    BY RemovalAssumption DEF Idle, Coroutines, Jobs, Steps, Callers
  <1>2. c.caller \in Callers
    BY DEF Coroutines
  <1>3. \A p \in {"done", "failed"}, w \in Callers :
            LET d == [Idle EXCEPT !.caller = w, !.pc = p] IN
            d \in Coroutines /\ d.job = "none" /\ d.pc = p
    BY <1>1 DEF Coroutines, Steps
  <1> QED
    BY <1>1, <1>2, <1>3 DEF Reply, StepTyped

\* The values a coroutine takes when one of its calls returns.
LEMMA StepTo ==
    ASSUME NEW c \in Coroutines, NEW p \in Steps
    PROVE  LET d == [c EXCEPT !.pc = p] IN
           /\ d \in Coroutines /\ d.pc = p
           /\ d.job = c.job /\ d.r = c.r /\ d.k = c.k /\ d.level = c.level /\ d.todo = c.todo
           /\ d.yes = c.yes
  BY DEF Coroutines

LEMMA StepToWith ==
    ASSUME NEW c \in Coroutines, NEW p \in Steps, NEW S \in SUBSET (Keys \cup Requests),
           NEW r \in 0..MaxRequests, NEW k \in Keys \cup {None}
    PROVE  LET d == [c EXCEPT !.pc = p, !.todo = S, !.r = r, !.k = k] IN
           /\ d \in Coroutines /\ d.pc = p /\ d.todo = S /\ d.r = r /\ d.k = k
           /\ d.job = c.job /\ d.level = c.level /\ d.yes = c.yes
  BY DEF Coroutines

LEMMA CoOf ==
    ASSUME CoTyped, NEW h \in Handlers
    PROVE  co[h] \in Coroutines /\ StepTyped(co[h])
  BY DEF CoTyped

LEMMA LinkOf ==
    ASSUME LinksTyped, NEW t \in 1..Len(link)
    PROVE  link[t] \in Links /\ link[t].r \in Requests /\ link[t].level \in Chain
<1>1. link[t] \in Links
  BY DEF LinksTyped
<1> QED
  BY <1>1 DEF Links, LinksTyped

\* A coroutine that answers, or goes on with its next call.
LEMMA AnswerCo ==
    ASSUME CoTyped, NEW h \in Handlers, NEW ok \in BOOLEAN, Answer(h, ok)
    PROVE  CoTyped'
  BY CoOf, ReplyTyped, CoKeeps DEF Answer

LEMMA GotoCo ==
    ASSUME CoTyped, NEW h \in Handlers, NEW p \in Steps, Goto(h, p),
           StepTyped([co[h] EXCEPT !.pc = p])
    PROVE  CoTyped'
  BY CoOf, StepTo, CoKeeps DEF Goto

\* A step that keeps the tables, MidPoint and the rest.
LEMMA OnlyCo ==
    ASSUME ApiTyped, CoTyped', UNCHANGED <<tables, midpoint, deletions, world, history>>
    PROVE  ApiTyped'
  BY DEF ApiTyped, RowsTyped, LinksTyped, WorldTyped, MidPointTyped, HistoryTyped, tables, midpoint,
         world, history

\* A step that writes requests.
LEMMA OnlyReq ==
    ASSUME ApiTyped, CoTyped', req' \in [Requests -> RequestRows],
           UNCHANGED <<inventory, link, midpoint, deletions, world, history>>
    PROVE  ApiTyped'
  BY DEF ApiTyped, RowsTyped, LinksTyped, WorldTyped, MidPointTyped, HistoryTyped, midpoint,
         world, history

\* The values a request takes, and what writing one leaves of the table.
LEMMA RowUpdate ==
    ASSUME RowsTyped, NEW r, NEW row \in RequestRows, req' = [req EXCEPT ![r] = row]
    PROVE  /\ req' \in [Requests -> RequestRows]
           /\ r \in Requests => req'[r] = row
           /\ \A q \in Requests : q # r => req'[q] = req[q]
  BY DEF RowsTyped

\* What each of the writes of one request leaves.
LEMMA WriteToken ==
    ASSUME RowsTyped, NEW r \in Requests, NEW t \in 0..MaxLinks,
           req' = [req EXCEPT ![r].token = t]
    PROVE  /\ req' \in [Requests -> RequestRows]
           /\ req'[r].status = req[r].status /\ req'[r].level = req[r].level /\ req'[r].token = t
           /\ \A q \in Requests : q # r => req'[q] = req[q]
<1> DEFINE row == [req[r] EXCEPT !.token = t]
<1>1. req[r] \in RequestRows
  BY DEF RowsTyped
<1>2. row \in RequestRows /\ row.status = req[r].status /\ row.level = req[r].level /\ row.token = t
  BY <1>1 DEF RequestRows
<1>3. req' = [req EXCEPT ![r] = row]
  OBVIOUS
<1> HIDE DEF row
<1> QED
  BY <1>2, <1>3, RowUpdate

LEMMA WriteStatus ==
    ASSUME RowsTyped, NEW r \in Requests, NEW s \in Statuses,
           req' = [req EXCEPT ![r].status = s]
    PROVE  /\ req' \in [Requests -> RequestRows]
           /\ req'[r].status = s /\ req'[r].level = req[r].level /\ req'[r].token = req[r].token
           /\ \A q \in Requests : q # r => req'[q] = req[q]
<1> DEFINE row == [req[r] EXCEPT !.status = s]
<1>1. req[r] \in RequestRows
  BY DEF RowsTyped
<1>2. row \in RequestRows /\ row.status = s /\ row.level = req[r].level /\ row.token = req[r].token
  BY <1>1 DEF RequestRows
<1>3. req' = [req EXCEPT ![r] = row]
  OBVIOUS
<1> HIDE DEF row
<1> QED
  BY <1>2, <1>3, RowUpdate

LEMMA WriteLevel ==
    ASSUME RowsTyped, NEW r \in Requests, NEW l \in Chain,
           req' = [req EXCEPT ![r].level = l]
    PROVE  /\ req' \in [Requests -> RequestRows]
           /\ req'[r].status = req[r].status /\ req'[r].level = l /\ req'[r].token = req[r].token
           /\ \A q \in Requests : q # r => req'[q] = req[q]
<1> DEFINE row == [req[r] EXCEPT !.level = l]
<1>1. req[r] \in RequestRows
  BY DEF RowsTyped
<1>2. row \in RequestRows /\ row.status = req[r].status /\ row.level = l /\ row.token = req[r].token
  BY <1>1 DEF RequestRows
<1>3. req' = [req EXCEPT ![r] = row]
  OBVIOUS
<1> HIDE DEF row
<1> QED
  BY <1>2, <1>3, RowUpdate

LEMMA WriteCancelled ==
    ASSUME RowsTyped, NEW r \in Requests,
           req' = [req EXCEPT ![r].status = "CANCELLED", ![r].token = 0]
    PROVE  /\ req' \in [Requests -> RequestRows]
           /\ req'[r].status = "CANCELLED" /\ req'[r].level = req[r].level /\ req'[r].token = 0
           /\ \A q \in Requests : q # r => req'[q] = req[q]
<1> DEFINE row == [req[r] EXCEPT !.status = "CANCELLED", !.token = 0]
<1>1. req[r] \in RequestRows /\ "CANCELLED" \in Statuses /\ 0 \in 0..MaxLinks
  BY RemovalAssumption DEF RowsTyped, Statuses
<1>2. /\ row \in RequestRows
      /\ row.status = "CANCELLED" /\ row.level = req[r].level /\ row.token = 0
  BY <1>1 DEF RequestRows
<1>3. req' = [req EXCEPT ![r] = row]
  BY DEF RowsTyped
<1> HIDE DEF row
<1> QED
  BY <1>2, <1>3, RowUpdate

-----------------------------------------------------------------------------
\* One lemma per action of the API.

LEMMA ClickTyped ==
    ASSUME ApiTyped, NEW h \in Handlers, NEW t \in 1..Len(link), NEW yes \in BOOLEAN,
           Click(h, t, yes)
    PROVE  ApiTyped'
<1> DEFINE r == link[t].r
           c == [Idle EXCEPT !.job = "decide", !.pc = "clear", !.r = r,
                             !.level = req[r].level, !.yes = yes]
<1>1. link[t] \in Links /\ link[t].r \in Requests /\ link[t].level \in Chain
  BY LinkOf DEF ApiTyped
<1>2. r \in Requests /\ req[r] \in RequestRows
  BY <1>1 DEF ApiTyped, RowsTyped
<1>3. req[r].level \in Chain /\ req[r].level \in 0..Levels /\ r \in 0..MaxRequests
  BY <1>2, RemovalAssumption DEF RequestRows, Chain, Requests
<1>4. Idle \in Coroutines /\ "decide" \in Jobs /\ "clear" \in Steps
  BY RemovalAssumption DEF Idle, Coroutines, Jobs, Steps, Callers
<1>5. c \in Coroutines /\ c.job = "decide" /\ c.pc = "clear" /\ c.r = r /\ c.level = req[r].level
  <2> HIDE DEF r
  <2> QED
    BY <1>3, <1>4 DEF Coroutines
<1>6. Becomes(h, c) /\ signed' = [signed EXCEPT ![r] = IF yes THEN @ \cup {link[t].level} ELSE @]
  BY DEF Click
<1> HIDE DEF c, r
<1>7. StepTyped(c)
  BY <1>2, <1>3, <1>5 DEF StepTyped
<1>8. CoTyped'
  BY <1>5, <1>6, <1>7, CoKeeps DEF ApiTyped
<1>9. signed' \in [Requests -> SUBSET Chain]
  BY <1>1, <1>2, <1>6 DEF ApiTyped, HistoryTyped
<1> QED
  BY <1>8, <1>9 DEF Click, ApiTyped, RowsTyped, LinksTyped, WorldTyped, MidPointTyped, HistoryTyped,
     tables, midpoint, world

LEMMA ClearLinkTyped ==
    ASSUME ApiTyped, NEW h \in Handlers, ClearLink(h)
    PROVE  ApiTyped'
<1> DEFINE c == [co[h] EXCEPT !.pc = "record"]
<1>1. co[h] \in Coroutines /\ StepTyped(co[h]) /\ co[h].pc = "clear" /\ "record" \in Steps
  BY CoOf DEF ApiTyped, ClearLink, At, Steps
<1>2. c.pc = "record" /\ c.job = co[h].job /\ c.r = co[h].r /\ c.level = co[h].level
  BY <1>1, StepTo
<1>3. co[h].job = "decide" /\ co[h].r \in Requests /\ co[h].level \in Chain
  BY <1>1 DEF StepTyped, Coroutines, Jobs
<1>4. StepTyped(c)
  <2> HIDE DEF c
  <2> QED
    BY <1>2, <1>3 DEF StepTyped
<1>5. CoTyped'
  BY <1>1, <1>4, GotoCo DEF ClearLink, ApiTyped
<1>6. req' \in [Requests -> RequestRows]
  <2>1. 0 \in 0..MaxLinks /\ RowsTyped
    BY RemovalAssumption DEF ApiTyped
  <2> QED
    BY <1>3, <2>1, WriteToken DEF ClearLink
<1> QED
  BY <1>5, <1>6, OnlyReq DEF ClearLink

LEMMA RecordTyped ==
    ASSUME ApiTyped, NEW h \in Handlers, Record(h)
    PROVE  ApiTyped'
<1>1. co[h] \in Coroutines /\ StepTyped(co[h]) /\ co[h].pc = "record" /\ "sendRead" \in Steps
  BY CoOf DEF ApiTyped, Record, At, Steps
<1>2. co[h].job = "decide" /\ co[h].r \in Requests /\ co[h].level \in Chain
  BY <1>1 DEF StepTyped, Coroutines, Jobs
<1>3. CASE req' = [req EXCEPT ![co[h].r].status = "KEPT"] /\ Answer(h, TRUE)
  <2>1. req' \in [Requests -> RequestRows]
    BY <1>2, <1>3, WriteStatus DEF ApiTyped, Statuses
  <2> QED
    BY <1>3, <2>1, AnswerCo, OnlyReq DEF Record, ApiTyped
<1>4. CASE /\ co[h].level < Levels
           /\ req' = [req EXCEPT ![co[h].r].level = co[h].level + 1] /\ Goto(h, "sendRead")
  <2>1. co[h].level + 1 \in Chain
    BY <1>2, <1>4, RemovalAssumption DEF Chain
  <2>2. req' \in [Requests -> RequestRows]
    BY <1>2, <1>4, <2>1, WriteLevel DEF ApiTyped
  <2> DEFINE c == [co[h] EXCEPT !.pc = "sendRead"]
  <2>3. c.pc = "sendRead" /\ c.job = co[h].job /\ c.r = co[h].r
    BY <1>1, StepTo
  <2>4. StepTyped(c)
    <3> HIDE DEF c
    <3> QED
      BY <1>2, <2>3 DEF StepTyped
  <2> QED
    BY <1>1, <1>4, <2>2, <2>4, GotoCo, OnlyReq DEF Record, ApiTyped
<1>5. CASE req' = [req EXCEPT ![co[h].r].status = "APPROVED"] /\ Answer(h, TRUE)
  <2>1. req' \in [Requests -> RequestRows]
    BY <1>2, <1>5, WriteStatus DEF ApiTyped, Statuses
  <2> QED
    BY <1>5, <2>1, AnswerCo, OnlyReq DEF Record, ApiTyped
<1> QED
  BY <1>3, <1>4, <1>5 DEF Record

LEMMA RenewTyped ==
    ASSUME ApiTyped, NEW h \in Handlers, NEW t \in 1..Len(link), Renew(h, t)
    PROVE  ApiTyped'
<1> DEFINE r == link[t].r
           c == [Idle EXCEPT !.job = "renew", !.pc = "sendRead", !.r = r]
<1>1. r \in Requests /\ r \in 0..MaxRequests
  BY LinkOf DEF ApiTyped, Requests
<1>2. Idle \in Coroutines /\ "renew" \in Jobs /\ "sendRead" \in Steps
  BY RemovalAssumption DEF Idle, Coroutines, Jobs, Steps, Callers
<1>3. c \in Coroutines /\ c.job = "renew" /\ c.pc = "sendRead" /\ c.r = r
  <2> HIDE DEF r
  <2> QED
    BY <1>1, <1>2 DEF Coroutines
<1>4. Becomes(h, c) /\ budget' \in Nat
  BY DEF Renew, ApiTyped, WorldTyped
<1> HIDE DEF c, r
<1>5. CoTyped'
  BY <1>1, <1>3, <1>4, CoKeeps DEF ApiTyped, StepTyped
<1> QED
  BY <1>4, <1>5 DEF Renew, ApiTyped, RowsTyped, LinksTyped, WorldTyped, MidPointTyped, HistoryTyped,
     tables, midpoint, history

LEMMA SendReadTyped ==
    ASSUME ApiTyped, NEW h \in Handlers, SendRead(h)
    PROVE  ApiTyped'
<1>1. co[h] \in Coroutines /\ StepTyped(co[h]) /\ co[h].pc = "sendRead"
  BY CoOf DEF ApiTyped, SendRead, At
<1>2. CASE Raise(h)
  BY <1>2, AnswerCo, OnlyCo DEF SendRead, ApiTyped, Raise
<1>3. CASE Becomes(h, [co[h] EXCEPT !.pc = "sendWrite", !.level = req[co[h].r].level])
  <2> DEFINE c == [co[h] EXCEPT !.pc = "sendWrite", !.level = req[co[h].r].level]
  <2>1. co[h].r \in Requests /\ co[h].job \in {"decide", "renew", "reconcile", "legacy"}
    BY <1>1 DEF StepTyped, Coroutines, Jobs
  <2>2. req[co[h].r] \in RequestRows
    BY <2>1 DEF ApiTyped, RowsTyped
  <2>3. req[co[h].r].level \in Chain /\ req[co[h].r].level \in 0..Levels /\ "sendWrite" \in Steps
    BY <2>2, RemovalAssumption DEF RequestRows, Chain, Steps
  <2>4. /\ c \in Coroutines /\ c.pc = "sendWrite" /\ c.level = req[co[h].r].level
        /\ c.job = co[h].job /\ c.r = co[h].r /\ c.todo = co[h].todo
    BY <1>1, <2>3 DEF Coroutines
  <2>5. StepTyped(c)
    <3> HIDE DEF c
    <3> QED
      BY <1>1, <2>1, <2>3, <2>4 DEF StepTyped
  <2>6. CoTyped'
    BY <1>3, <2>4, <2>5, CoKeeps DEF ApiTyped
  <2> QED
    BY <2>6, OnlyCo DEF SendRead
<1> QED
  BY <1>2, <1>3 DEF SendRead

LEMMA SendWriteTyped ==
    ASSUME ApiTyped, NEW h \in Handlers, SendWrite(h)
    PROVE  ApiTyped'
<1> DEFINE r == co[h].r
           t == Len(link) + 1
<1>1. co[h] \in Coroutines /\ StepTyped(co[h]) /\ co[h].pc = "sendWrite"
  BY CoOf DEF ApiTyped, SendWrite, At
<1>2. r \in Requests /\ co[h].level \in Chain /\ co[h].level \in 0..Levels
  BY <1>1, RemovalAssumption DEF StepTyped, Chain
<1>3. t \in 0..MaxLinks /\ t <= MaxLinks
  BY RemovalAssumption DEF ApiTyped, LinksTyped, SendWrite
<1>4. req' \in [Requests -> RequestRows]
  BY <1>2, <1>3, WriteToken DEF SendWrite, ApiTyped
<1>5. PICK sent \in BOOLEAN :
          /\ link' = Append(link, [r |-> r, level |-> co[h].level, sent |-> sent])
          /\ \/ \E ok \in BOOLEAN : Answer(h, ok)
             \/ co[h].job = "reconcile" /\ Goto(h, "missing")
             \/ co[h].job = "legacy" /\ Goto(h, "migrate")
  BY DEF SendWrite, Raise
<1>6. LinksTyped'
  <2> DEFINE l == [r |-> r, level |-> co[h].level, sent |-> sent]
  <2>1. l \in Links /\ l.level \in Chain
    BY <1>2 DEF Links
  <2>2. link \in Seq(Links) /\ link' = Append(link, l)
    BY <1>5 DEF ApiTyped, LinksTyped
  <2> HIDE DEF l, t
  <2>3. link' \in Seq(Links) /\ Len(link') = Len(link) + 1
    BY <2>1, <2>2
  <2>4. \A i \in 1..Len(link') : link'[i].level \in Chain
    BY <2>1, <2>2, <2>3 DEF ApiTyped, LinksTyped
  <2> QED
    BY <1>3, <2>3, <2>4 DEF LinksTyped, t
<1>7. CoTyped'
  <2> "missing" \in Steps /\ "migrate" \in Steps
    BY DEF Steps
  <2>1. CASE \E ok \in BOOLEAN : Answer(h, ok)
    BY <2>1, AnswerCo DEF ApiTyped
  <2>2. CASE co[h].job = "reconcile" /\ Goto(h, "missing")
    <3> DEFINE c == [co[h] EXCEPT !.pc = "missing"]
    <3>1. c.pc = "missing" /\ c.job = co[h].job /\ c.todo = co[h].todo
      BY <1>1, StepTo
    <3>2. StepTyped(c)
      <4> HIDE DEF c
      <4> QED
        BY <1>1, <2>2, <3>1 DEF StepTyped
    <3> QED
      BY <2>2, <3>2, GotoCo DEF ApiTyped
  <2>3. CASE co[h].job = "legacy" /\ Goto(h, "migrate")
    <3> DEFINE c == [co[h] EXCEPT !.pc = "migrate"]
    <3>1. c.pc = "migrate" /\ c.job = co[h].job /\ c.todo = co[h].todo
      BY <1>1, StepTo
    <3>2. StepTyped(c)
      <4> HIDE DEF c
      <4> QED
        BY <1>1, <2>3, <3>1 DEF StepTyped
    <3> QED
      BY <2>3, <3>2, GotoCo DEF ApiTyped
  <2> QED
    BY <1>5, <2>1, <2>2, <2>3
<1> QED
  BY <1>4, <1>6, <1>7
  DEF SendWrite, ApiTyped, RowsTyped, WorldTyped, MidPointTyped, HistoryTyped, midpoint, world,
      history

LEMMA ExcludeTyped ==
    ASSUME ApiTyped, NEW h \in Handlers, Exclude(h)
    PROVE  ApiTyped'
<1>1. co[h] \in Coroutines /\ StepTyped(co[h]) /\ co[h].pc = "exclude"
  BY CoOf DEF ApiTyped, Exclude, At
<1>2. co[h].job = "reconcile" /\ co[h].todo \subseteq Keys /\ co[h].items \subseteq Keys
  BY <1>1 DEF StepTyped, Coroutines, Jobs
<1> "items" \in Steps /\ "list" \in Steps
  BY DEF Steps
<1>3. CASE /\ Becomes(h, [co[h] EXCEPT !.pc = "items", !.todo = co[h].items])
           /\ UNCHANGED req
  <2> DEFINE c == [co[h] EXCEPT !.pc = "items", !.todo = co[h].items]
  <2>1. c \in Coroutines /\ c.pc = "items" /\ c.job = "reconcile" /\ c.todo = co[h].items
    BY <1>1, <1>2 DEF Coroutines
  <2>2. StepTyped(c)
    <3> HIDE DEF c
    <3> QED
      BY <1>2, <2>1 DEF StepTyped
  <2>3. CoTyped'
    BY <1>3, <2>1, <2>2, CoKeeps DEF ApiTyped
  <2> QED
    BY <1>3, <2>3, OnlyCo DEF Exclude, tables
<1>4. ASSUME NEW k \in co[h].todo,
             req' = [r \in Requests |-> IF r \in Of(k, "PENDING")
                         THEN [req[r] EXCEPT !.status = "CANCELLED", !.token = 0] ELSE req[r]],
             Becomes(h, [co[h] EXCEPT !.pc = "list", !.k = k, !.todo = @ \ {k}])
      PROVE  ApiTyped'
  <2> DEFINE c == [co[h] EXCEPT !.pc = "list", !.k = k, !.todo = @ \ {k}]
  <2>1. c \in Coroutines /\ c.pc = "list" /\ c.job = "reconcile" /\ c.todo \subseteq Keys
    BY <1>1, <1>2 DEF Coroutines
  <2>2. StepTyped(c)
    <3> HIDE DEF c
    <3> QED
      BY <1>2, <2>1 DEF StepTyped
  <2>3. CoTyped'
    BY <1>4, <2>1, <2>2, CoKeeps DEF ApiTyped
  <2>4. \A r \in Requests : [req[r] EXCEPT !.status = "CANCELLED", !.token = 0] \in RequestRows
    <3>1. "CANCELLED" \in Statuses /\ 0 \in 0..MaxLinks
      BY RemovalAssumption DEF Statuses
    <3> QED
      BY <3>1 DEF ApiTyped, RowsTyped, RequestRows
  <2>5. req' \in [Requests -> RequestRows]
    BY <1>4, <2>4 DEF ApiTyped, RowsTyped
  <2> QED
    BY <2>3, <2>5, OnlyReq DEF Exclude
<1> QED
  BY <1>3, <1>4 DEF Exclude

LEMMA ForgetTyped ==
    ASSUME ApiTyped, NEW h \in Handlers, Forget(h)
    PROVE  ApiTyped'
<1> DEFINE c == [co[h] EXCEPT !.pc = "exclude"]
<1>1. co[h] \in Coroutines /\ StepTyped(co[h]) /\ co[h].pc = "forget" /\ "exclude" \in Steps
  BY CoOf DEF ApiTyped, Forget, At, Steps
<1>2. c.pc = "exclude" /\ c.job = co[h].job /\ c.todo = co[h].todo
  BY <1>1, StepTo
<1>3. StepTyped(c)
  <2>1. co[h].job = "reconcile"
    BY <1>1 DEF StepTyped, Coroutines, Jobs
  <2> HIDE DEF c
  <2> QED
    BY <1>1, <1>2, <2>1 DEF StepTyped
<1>4. CoTyped'
  BY <1>1, <1>3, GotoCo DEF Forget, ApiTyped
<1>5. inventory' \in [Keys -> {"active", "missing", "none"}]
  BY DEF Forget, ApiTyped, RowsTyped
<1> QED
  BY <1>4, <1>5 DEF Forget, ApiTyped, RowsTyped, LinksTyped, WorldTyped, MidPointTyped, HistoryTyped,
     midpoint, world, history

LEMMA ItemsTyped ==
    ASSUME ApiTyped, NEW h \in Handlers, Items(h)
    PROVE  ApiTyped'
<1>1. co[h] \in Coroutines /\ StepTyped(co[h]) /\ co[h].pc = "items"
  BY CoOf DEF ApiTyped, Items, At
<1>2. co[h].job = "reconcile" /\ co[h].todo \subseteq Keys
  BY <1>1 DEF StepTyped, Coroutines, Jobs
<1> "missing" \in Steps /\ "cancel" \in Steps
  BY DEF Steps
<1>3. inventory' \in [Keys -> {"active", "missing", "none"}]
  BY DEF Items, ApiTyped, RowsTyped
<1>4. CoTyped'
  <2>1. CASE Becomes(h, [co[h] EXCEPT !.pc = "missing", !.todo = Active \ co[h].items])
    <3> DEFINE c == [co[h] EXCEPT !.pc = "missing", !.todo = Active \ co[h].items]
    <3>1. c \in Coroutines /\ c.pc = "missing" /\ c.job = "reconcile" /\ c.todo \subseteq Keys
      BY <1>1, <1>2 DEF Coroutines, Active
    <3>2. StepTyped(c)
      <4> HIDE DEF c
      <4> QED
        BY <1>2, <3>1 DEF StepTyped
    <3> QED
      BY <2>1, <3>1, <3>2, CoKeeps DEF ApiTyped
  <2>2. ASSUME NEW k \in co[h].todo, Becomes(h, [co[h] EXCEPT !.todo = @ \ {k}])
        PROVE  CoTyped'
    <3> DEFINE c == [co[h] EXCEPT !.todo = @ \ {k}]
    <3>1. c \in Coroutines /\ c.pc = "items" /\ c.job = "reconcile" /\ c.todo \subseteq Keys
      BY <1>1, <1>2 DEF Coroutines
    <3>2. StepTyped(c)
      <4> HIDE DEF c
      <4> QED
        BY <1>2, <3>1 DEF StepTyped
    <3> QED
      BY <2>2, <3>1, <3>2, CoKeeps DEF ApiTyped
  <2>3. ASSUME NEW k \in co[h].todo, NEW r \in Of(k, "PENDING"),
               Becomes(h, [co[h] EXCEPT !.pc = "cancel", !.r = r, !.todo = @ \ {k}])
        PROVE  CoTyped'
    <3> DEFINE c == [co[h] EXCEPT !.pc = "cancel", !.r = r, !.todo = @ \ {k}]
    <3>1. r \in Requests /\ r \in 0..MaxRequests
      BY DEF Of, Requests
    <3>2. /\ c \in Coroutines /\ c.pc = "cancel" /\ c.job = "reconcile" /\ c.todo \subseteq Keys
          /\ c.r = r
      BY <1>1, <1>2, <3>1 DEF Coroutines
    <3>3. StepTyped(c)
      <4> HIDE DEF c
      <4> QED
        BY <3>1, <3>2 DEF StepTyped
    <3> QED
      BY <2>3, <3>2, <3>3, CoKeeps DEF ApiTyped
  <2> QED
    BY <2>1, <2>2, <2>3 DEF Items
<1> QED
  BY <1>3, <1>4 DEF Items, ApiTyped, RowsTyped, LinksTyped, WorldTyped, MidPointTyped, HistoryTyped,
     midpoint, world, history

LEMMA CancelTyped ==
    ASSUME ApiTyped, NEW h \in Handlers, Cancel(h)
    PROVE  ApiTyped'
<1> DEFINE c == [co[h] EXCEPT !.pc = "items"]
<1>1. co[h] \in Coroutines /\ StepTyped(co[h]) /\ co[h].pc = "cancel" /\ "items" \in Steps
  BY CoOf DEF ApiTyped, Cancel, At, Steps
<1>2. c.pc = "items" /\ c.job = co[h].job /\ c.todo = co[h].todo
  BY <1>1, StepTo
<1>3. co[h].job = "reconcile" /\ co[h].r \in Requests
  BY <1>1 DEF StepTyped, Coroutines, Jobs
<1>4. StepTyped(c)
  <2> HIDE DEF c
  <2> QED
    BY <1>1, <1>2, <1>3 DEF StepTyped
<1>5. CoTyped'
  BY <1>1, <1>4, GotoCo DEF Cancel, ApiTyped
<1>6. req' \in [Requests -> RequestRows]
  BY <1>3, WriteCancelled DEF Cancel, ApiTyped
<1> QED
  BY <1>5, <1>6, OnlyReq DEF Cancel

LEMMA MissingTyped ==
    ASSUME ApiTyped, NEW h \in Handlers, Missing(h)
    PROVE  ApiTyped'
<1>1. co[h] \in Coroutines /\ StepTyped(co[h]) /\ co[h].pc = "missing"
  BY CoOf DEF ApiTyped, Missing, At
<1>2. co[h].job = "reconcile" /\ co[h].todo \subseteq Keys
  BY <1>1 DEF StepTyped, Coroutines, Jobs
<1>3. inventory' \in [Keys -> {"active", "missing", "none"}]
  BY DEF Missing, ApiTyped, RowsTyped
<1>4. CoTyped'
  <2>1. CASE Answer(h, TRUE)
    BY <2>1, AnswerCo DEF ApiTyped
  <2>2. ASSUME NEW k \in co[h].todo, NEW p \in {"create", "missing"},
               Becomes(h, [co[h] EXCEPT !.k = k, !.todo = @ \ {k}, !.pc = p])
        PROVE  CoTyped'
    <3> DEFINE c == [co[h] EXCEPT !.k = k, !.todo = @ \ {k}, !.pc = p]
    <3>1. p \in Steps
      BY DEF Steps
    <3>2. c \in Coroutines /\ c.pc = p /\ c.job = "reconcile" /\ c.todo \subseteq Keys
      BY <1>1, <1>2, <3>1 DEF Coroutines
    <3>3. StepTyped(c)
      <4> HIDE DEF c
      <4> QED
        BY <3>2 DEF StepTyped
    <3> QED
      BY <2>2, <3>2, <3>3, CoKeeps DEF ApiTyped
  <2> QED
    BY <2>1, <2>2 DEF Missing
<1> QED
  BY <1>3, <1>4 DEF Missing, ApiTyped, RowsTyped, LinksTyped, WorldTyped, MidPointTyped,
     HistoryTyped, midpoint, world, history

LEMMA CreateTyped ==
    ASSUME ApiTyped, NEW h \in Handlers, Create(h)
    PROVE  ApiTyped'
<1>1. co[h] \in Coroutines /\ StepTyped(co[h]) /\ co[h].pc = "create" /\ "sendRead" \in Steps
  BY CoOf DEF ApiTyped, Create, At, Steps
<1> DEFINE row == [NoRequest EXCEPT !.key = co[h].k, !.status = "PENDING"]
<1>2. PICK r \in Requests : /\ req' = [req EXCEPT ![r] = row]
                            /\ Becomes(h, [co[h] EXCEPT !.pc = "sendRead", !.r = r])
  BY DEF Create
<1> DEFINE c == [co[h] EXCEPT !.pc = "sendRead", !.r = r]
<1>3. /\ c \in Coroutines /\ c.pc = "sendRead" /\ c.job = co[h].job /\ c.todo = co[h].todo
      /\ c.r = r
  <2>1. r \in 0..MaxRequests
    BY DEF Requests
  <2> QED
    BY <1>1, <2>1 DEF Coroutines
<1>4. StepTyped(c)
  <2>1. co[h].job \in {"reconcile", "legacy"}
    BY <1>1 DEF StepTyped, Coroutines, Jobs
  <2> HIDE DEF c
  <2> QED
    BY <1>1, <1>3, <2>1 DEF StepTyped
<1>5. CoTyped'
  BY <1>2, <1>3, <1>4, CoKeeps DEF ApiTyped
<1>6. row \in RequestRows
  <2>1. 0 \in 0..MaxLinks /\ 1 \in Chain /\ "PENDING" \in Statuses /\ co[h].k \in Keys \cup {None}
    BY <1>1, RemovalAssumption DEF Chain, Statuses, Coroutines
  <2> QED
    BY <2>1 DEF RequestRows, NoRequest
<1>7. req' \in [Requests -> RequestRows]
  <2> HIDE DEF row
  <2> QED
    BY <1>2, <1>6, RowUpdate DEF ApiTyped
<1> QED
  BY <1>5, <1>7, OnlyReq DEF Create

LEMMA MigrateTyped ==
    ASSUME ApiTyped, NEW h \in Handlers, Migrate(h)
    PROVE  ApiTyped'
<1>1. co[h] \in Coroutines /\ StepTyped(co[h]) /\ co[h].pc = "migrate"
  BY CoOf DEF ApiTyped, Migrate, At
<1>2. co[h].job = "legacy" /\ co[h].todo \subseteq Keys
  BY <1>1 DEF StepTyped, Coroutines, Jobs
<1>3. ASSUME CoTyped', inventory' \in [Keys -> {"active", "missing", "none"}],
             holds' \in [Users -> SUBSET Keys]
      PROVE  ApiTyped'
  BY <1>3 DEF Migrate, ApiTyped, RowsTyped, LinksTyped, WorldTyped, MidPointTyped, HistoryTyped,
     world, history
<1>4. /\ inventory \in [Keys -> {"active", "missing", "none"}]
      /\ holds \in [Users -> SUBSET Keys] /\ role \subseteq Keys /\ CoTyped
  BY DEF ApiTyped, RowsTyped, MidPointTyped
<1>5. CASE \E ok \in BOOLEAN : Answer(h, ok) /\ UNCHANGED <<inventory, holds>>
  BY <1>3, <1>4, <1>5, AnswerCo
<1>6. ASSUME NEW k \in co[h].todo, Becomes(h, [co[h] EXCEPT !.todo = @ \ {k}]),
             UNCHANGED <<inventory, holds>>
      PROVE  ApiTyped'
  <2> DEFINE c == [co[h] EXCEPT !.todo = @ \ {k}]
  <2>1. c \in Coroutines /\ c.pc = "migrate" /\ c.job = "legacy" /\ c.todo \subseteq Keys
    BY <1>1, <1>2 DEF Coroutines
  <2>2. StepTyped(c)
    <3> HIDE DEF c
    <3> QED
      BY <2>1 DEF StepTyped
  <2> QED
    BY <1>3, <1>4, <1>6, <2>1, <2>2, CoKeeps
<1>7. ASSUME NEW k \in co[h].todo, NEW u \in Users, Replacement[k] \in role,
             holds' = [holds EXCEPT ![u] = Reassigned(u, k)], UNCHANGED <<inventory, co>>
      PROVE  ApiTyped'
  <2>1. Reassigned(u, k) \subseteq Keys
    BY <1>4, <1>7 DEF Reassigned
  <2>2. holds' \in [Users -> SUBSET Keys]
    BY <1>4, <1>7, <2>1
  <2>3. CoTyped'
    BY <1>4, <1>7 DEF CoTyped, StepTyped
  <2> QED
    BY <1>3, <1>4, <1>7, <2>2, <2>3
<1>8. ASSUME NEW k \in co[h].todo, NEW p \in {"migrate", "create"},
             inventory' = [inventory EXCEPT ![k] = "missing"],
             Becomes(h, [co[h] EXCEPT !.k = k, !.todo = @ \ {k}, !.pc = p]), UNCHANGED holds
      PROVE  ApiTyped'
  <2> DEFINE c == [co[h] EXCEPT !.k = k, !.todo = @ \ {k}, !.pc = p]
  <2>1. p \in Steps
    BY DEF Steps
  <2>2. c \in Coroutines /\ c.pc = p /\ c.job = "legacy" /\ c.todo \subseteq Keys
    BY <1>1, <1>2, <2>1 DEF Coroutines
  <2>3. StepTyped(c)
    <3> HIDE DEF c
    <3> QED
      BY <2>2 DEF StepTyped
  <2>4. CoTyped'
    BY <1>4, <1>8, <2>2, <2>3, CoKeeps
  <2> QED
    BY <1>3, <1>4, <1>8, <2>4
<1> QED
  BY <1>5, <1>6, <1>7, <1>8 DEF Migrate, Raise

LEMMA CleanupFailsTyped ==
    ASSUME ApiTyped, NEW h \in Handlers, CleanupFails(h)
    PROVE  ApiTyped'
<1>1. /\ co[h] \in Coroutines /\ StepTyped(co[h])
      /\ co[h].pc \in {"list", "unassign", "dropRole", "orphans", "askDelete", "shadows"}
  BY CoOf DEF ApiTyped, CleanupFails
<1>2. CASE Raise(h)
  BY <1>2, AnswerCo, OnlyCo DEF CleanupFails, ApiTyped, Raise
<1>3. CASE co[h].job = "execute" /\ Goto(h, "fail")
  <2> DEFINE c == [co[h] EXCEPT !.pc = "fail"]
  <2>1. "fail" \in Steps
    BY DEF Steps
  <2>2. c.pc = "fail" /\ c.job = co[h].job /\ c.todo = co[h].todo /\ c.r = co[h].r
    BY <1>1, <2>1, StepTo
  <2>3. StepTyped(c)
    <3> HIDE DEF c
    <3> QED
      BY <1>1, <1>3, <2>2 DEF StepTyped
  <2> QED
    BY <1>3, <2>1, <2>3, GotoCo, OnlyCo DEF CleanupFails, ApiTyped
<1> QED
  BY <1>2, <1>3 DEF CleanupFails

\* The step after the removal of a role, or within it.
LEMMA RemovalStepTyped ==
    ASSUME NEW c \in Coroutines, StepTyped(c), c.pc \in {"list", "unassign", "dropRole"},
           NEW d \in Coroutines, d.job = c.job, d.r = c.r, d.todo = c.todo,
           \/ d.pc \in {"unassign", "dropRole"}
           \/ d.pc = "forget" /\ c.job = "reconcile"
           \/ d.pc \in {"complete", "orphans"} /\ c.job # "reconcile"
    PROVE  StepTyped(d)
<1>1. c.job \in {"reconcile", "execute"}
  BY DEF StepTyped, Coroutines, Jobs
<1> QED
  BY <1>1 DEF StepTyped

LEMMA AfterRemovalIs ==
    ASSUME NEW h \in Handlers
    PROVE  /\ AfterRemoval(h) \in Steps
           /\ \/ AfterRemoval(h) = "forget" /\ co[h].job = "reconcile"
              \/ AfterRemoval(h) \in {"complete", "orphans"} /\ co[h].job # "reconcile"
  BY DEF AfterRemoval, Steps

LEMMA ListHoldersTyped ==
    ASSUME ApiTyped, NEW h \in Handlers, ListHolders(h)
    PROVE  ApiTyped'
<1>1. co[h] \in Coroutines /\ StepTyped(co[h]) /\ co[h].pc = "list" /\ "unassign" \in Steps
  BY CoOf DEF ApiTyped, ListHolders, At, Steps
<1>2. CoTyped'
  <2>1. ASSUME NEW U \in SUBSET Users,
               Becomes(h, [co[h] EXCEPT !.pc = "unassign", !.users = U])
        PROVE  CoTyped'
    <3> DEFINE c == [co[h] EXCEPT !.pc = "unassign", !.users = U]
    <3>1. /\ c \in Coroutines /\ c.pc = "unassign" /\ c.job = co[h].job /\ c.todo = co[h].todo
          /\ c.r = co[h].r
      BY <1>1 DEF Coroutines
    <3>2. StepTyped(c)
      <4> HIDE DEF c
      <4> QED
        BY <1>1, <3>1, RemovalStepTyped
    <3> QED
      BY <2>1, <3>1, <3>2, CoKeeps DEF ApiTyped
  <2>2. CASE Becomes(h, [co[h] EXCEPT !.pc = AfterRemoval(h)])
    <3> DEFINE c == [co[h] EXCEPT !.pc = AfterRemoval(h)]
    <3>1. AfterRemoval(h) \in Steps
      BY AfterRemovalIs
    <3>2. /\ c \in Coroutines /\ c.pc = AfterRemoval(h) /\ c.job = co[h].job
          /\ c.todo = co[h].todo /\ c.r = co[h].r
      BY <1>1, <3>1, StepTo
    <3>3. StepTyped(c)
      <4> HIDE DEF c
      <4> QED
        BY <1>1, <3>2, AfterRemovalIs, RemovalStepTyped
    <3> QED
      BY <2>2, <3>2, <3>3, CoKeeps DEF ApiTyped
  <2> QED
    BY <2>1, <2>2 DEF ListHolders
<1> QED
  BY <1>2, OnlyCo DEF ListHolders

LEMMA UnassignTyped ==
    ASSUME ApiTyped, NEW h \in Handlers, Unassign(h)
    PROVE  ApiTyped'
<1>1. co[h] \in Coroutines /\ StepTyped(co[h]) /\ co[h].pc = "unassign" /\ "dropRole" \in Steps
  BY CoOf DEF ApiTyped, Unassign, At, Steps
<1>2. holds \in [Users -> SUBSET Keys] /\ lost \in [Requests -> SUBSET Users] /\ CoTyped
  BY DEF ApiTyped, MidPointTyped, HistoryTyped
<1>3. ASSUME CoTyped', holds' \in [Users -> SUBSET Keys], lost' \in [Requests -> SUBSET Users]
      PROVE  ApiTyped'
  BY <1>3 DEF Unassign, ApiTyped, RowsTyped, LinksTyped, WorldTyped, MidPointTyped, HistoryTyped,
     tables, world
<1>4. CASE Goto(h, "dropRole") /\ UNCHANGED <<holds, lost>>
  <2> DEFINE c == [co[h] EXCEPT !.pc = "dropRole"]
  <2>1. /\ c \in Coroutines /\ c.pc = "dropRole" /\ c.job = co[h].job /\ c.todo = co[h].todo
        /\ c.r = co[h].r
    BY <1>1, StepTo
  <2>2. StepTyped(c)
    <3> HIDE DEF c
    <3> QED
      BY <1>1, <2>1, RemovalStepTyped
  <2> QED
    BY <1>1, <1>2, <1>3, <1>4, <2>2, GotoCo
<1>5. ASSUME NEW u \in co[h].users, NEW A \in SUBSET (Users \X SUBSET Keys),
             holds' = [holds EXCEPT ![u] = @ \ {co[h].k}],
             lost' = IF co[h].job = "execute" THEN [lost EXCEPT ![co[h].r] = @ \cup {u}] ELSE lost,
             Becomes(h, [co[h] EXCEPT !.users = @ \ {u}, !.affected = A])
      PROVE  ApiTyped'
  <2> DEFINE c == [co[h] EXCEPT !.users = @ \ {u}, !.affected = A]
  <2>1. u \in Users
    BY <1>1 DEF Coroutines
  <2>2. /\ c \in Coroutines /\ c.pc = "unassign" /\ c.job = co[h].job /\ c.todo = co[h].todo
        /\ c.r = co[h].r
    BY <1>1 DEF Coroutines
  <2>3. StepTyped(c)
    <3> HIDE DEF c
    <3> QED
      BY <1>1, <2>2, RemovalStepTyped
  <2>4. CoTyped'
    BY <1>2, <1>5, <2>2, <2>3, CoKeeps
  <2>5. holds' \in [Users -> SUBSET Keys] /\ lost' \in [Requests -> SUBSET Users]
    BY <1>2, <1>5, <2>1
  <2> QED
    BY <1>3, <2>4, <2>5
<1>6. ASSUME NEW u \in co[h].users
      PROVE  (IF co[h].k \in holds[u] THEN co[h].affected \cup {<<u, holds[u] \ {co[h].k}>>}
              ELSE co[h].affected) \in SUBSET (Users \X SUBSET Keys)
  <2>1. u \in Users /\ co[h].affected \in SUBSET (Users \X SUBSET Keys)
    BY <1>1 DEF Coroutines
  <2>2. holds[u] \ {co[h].k} \in SUBSET Keys
    BY <1>2, <2>1
  <2>3. <<u, holds[u] \ {co[h].k}>> \in Users \X SUBSET Keys
    BY <2>1, <2>2
  <2> QED
    BY <2>1, <2>3
<1>7. CASE co[h].users = {}
  BY <1>4, <1>7 DEF Unassign
<1>8. CASE co[h].users # {}
  <2>1. PICK u \in co[h].users :
          LET A == IF co[h].k \in holds[u] THEN co[h].affected \cup {<<u, holds[u] \ {co[h].k}>>}
                   ELSE co[h].affected IN
          /\ holds' = [holds EXCEPT ![u] = @ \ {co[h].k}]
          /\ lost' = IF co[h].job = "execute" THEN [lost EXCEPT ![co[h].r] = @ \cup {u}] ELSE lost
          /\ Becomes(h, [co[h] EXCEPT !.users = @ \ {u}, !.affected = A])
    <3>1. \A S : [co[h] EXCEPT !.users = S, !.affected = @].affected = co[h].affected
      BY <1>1 DEF Coroutines
    <3> QED
      BY <1>1, <1>8 DEF Unassign, Coroutines
  <2> QED
    BY <1>5, <1>6, <2>1
<1> QED
  BY <1>7, <1>8

LEMMA DropRoleTyped ==
    ASSUME ApiTyped, NEW h \in Handlers, DropRole(h)
    PROVE  ApiTyped'
<1> DEFINE c == [co[h] EXCEPT !.pc = AfterRemoval(h)]
<1>1. /\ co[h] \in Coroutines /\ StepTyped(co[h]) /\ co[h].pc = "dropRole"
      /\ AfterRemoval(h) \in Steps
  BY CoOf, AfterRemovalIs DEF ApiTyped, DropRole, At
<1>2. /\ c \in Coroutines /\ c.pc = AfterRemoval(h) /\ c.job = co[h].job
      /\ c.todo = co[h].todo /\ c.r = co[h].r
  BY <1>1, StepTo
<1>3. StepTyped(c)
  <2> HIDE DEF c
  <2> QED
    BY <1>1, <1>2, AfterRemovalIs, RemovalStepTyped
<1>4. CoTyped'
  BY <1>1, <1>3, GotoCo DEF DropRole, ApiTyped
<1>5. role' \subseteq Keys
  BY DEF DropRole, ApiTyped, MidPointTyped
<1> QED
  BY <1>4, <1>5 DEF DropRole, ApiTyped, RowsTyped, LinksTyped, WorldTyped, MidPointTyped,
     HistoryTyped, tables, world, history

LEMMA PickTyped ==
    ASSUME ApiTyped, NEW h \in Handlers, Pick(h)
    PROVE  ApiTyped'
<1>1. co[h] \in Coroutines /\ StepTyped(co[h]) /\ co[h].pc = "pick" /\ "list" \in Steps
  BY CoOf DEF ApiTyped, Pick, At, Steps
<1>2. co[h].job = "execute" /\ co[h].todo \subseteq Requests
  BY <1>1 DEF StepTyped, Coroutines, Jobs
<1>3. ASSUME CoTyped', req' \in [Requests -> RequestRows], dismantled' \subseteq Requests,
             revoked' \subseteq Requests
      PROVE  ApiTyped'
  BY <1>3 DEF Pick, ApiTyped, RowsTyped, LinksTyped, WorldTyped, MidPointTyped, HistoryTyped,
     midpoint, world
<1>4. /\ req \in [Requests -> RequestRows] /\ dismantled \subseteq Requests
      /\ revoked \subseteq Requests /\ CoTyped
  BY DEF ApiTyped, RowsTyped, HistoryTyped
<1>5. CASE Answer(h, TRUE) /\ UNCHANGED <<req, dismantled, revoked>>
  BY <1>3, <1>4, <1>5, AnswerCo
<1>6. ASSUME NEW r \in co[h].todo, Becomes(h, [co[h] EXCEPT !.todo = @ \ {r}])
      PROVE  CoTyped'
  <2> DEFINE c == [co[h] EXCEPT !.todo = @ \ {r}]
  <2>1. c \in Coroutines /\ c.pc = "pick" /\ c.job = "execute" /\ c.todo \subseteq Requests
    BY <1>1, <1>2 DEF Coroutines
  <2>2. StepTyped(c)
    <3> HIDE DEF c
    <3> QED
      BY <2>1 DEF StepTyped
  <2> QED
    BY <1>4, <1>6, <2>1, <2>2, CoKeeps
<1>7. ASSUME NEW r \in co[h].todo, req' = [req EXCEPT ![r].status = "CANCELLED"]
      PROVE  req' \in [Requests -> RequestRows]
  <2>1. "CANCELLED" \in Statuses /\ r \in Requests
    BY <1>2 DEF Statuses
  <2> QED
    BY <1>7, <2>1, WriteStatus DEF ApiTyped
<1>8. ASSUME NEW r \in co[h].todo,
             Becomes(h, [co[h] EXCEPT !.pc = "list", !.todo = @ \ {r}, !.r = r, !.k = req[r].key,
                                      !.affected = {}, !.items = Present])
      PROVE  CoTyped'
  <2> DEFINE c == [co[h] EXCEPT !.pc = "list", !.todo = @ \ {r}, !.r = r, !.k = req[r].key,
                                !.affected = {}, !.items = Present]
  <2>1. r \in Requests /\ r \in 0..MaxRequests /\ Present \subseteq Keys
    BY <1>2 DEF Requests, Present
  <2>2. req[r].key \in Keys \cup {None}
    BY <1>4, <2>1 DEF RequestRows
  <2>3. /\ c \in Coroutines /\ c.pc = "list" /\ c.job = "execute" /\ c.todo \subseteq Requests
        /\ c.r = r
    BY <1>1, <1>2, <2>1, <2>2 DEF Coroutines
  <2>4. StepTyped(c)
    <3> HIDE DEF c
    <3> QED
      BY <2>1, <2>3 DEF StepTyped
  <2> QED
    BY <1>4, <1>8, <2>3, <2>4, CoKeeps
<1>9. CASE \E r \in co[h].todo : /\ Becomes(h, [co[h] EXCEPT !.todo = @ \ {r}])
                                 /\ UNCHANGED <<req, dismantled, revoked>>
  BY <1>3, <1>4, <1>6, <1>9
<1>10. CASE \E r \in co[h].todo : /\ req' = [req EXCEPT ![r].status = "CANCELLED"]
                                  /\ revoked' = revoked \cup {r}
                                  /\ Becomes(h, [co[h] EXCEPT !.todo = @ \ {r}])
                                  /\ UNCHANGED dismantled
  BY <1>2, <1>3, <1>4, <1>6, <1>7, <1>10
<1>11. CASE \E r \in co[h].todo :
              /\ dismantled' = dismantled \cup {r}
              /\ Becomes(h, [co[h] EXCEPT !.pc = "list", !.todo = @ \ {r}, !.r = r,
                                          !.k = req[r].key, !.affected = {}, !.items = Present])
              /\ UNCHANGED <<req, revoked>>
  BY <1>2, <1>3, <1>4, <1>8, <1>11
<1> QED
  BY <1>5, <1>9, <1>10, <1>11 DEF Pick

LEMMA OrphansTyped ==
    ASSUME ApiTyped, NEW h \in Handlers, Orphans(h)
    PROVE  ApiTyped'
<1>1. co[h] \in Coroutines /\ StepTyped(co[h]) /\ co[h].pc = "orphans" /\ "askDelete" \in Steps
  BY CoOf DEF ApiTyped, Orphans, At, Steps
<1>2. PICK U : /\ U = {a[1] : a \in {b \in co[h].affected : b[2] \cap (Active \ {co[h].k}) = {}}}
               /\ Becomes(h, [co[h] EXCEPT !.pc = "askDelete", !.users = U])
  BY DEF Orphans
<1>3. U \subseteq Users
  BY <1>1, <1>2 DEF Coroutines
<1> DEFINE c == [co[h] EXCEPT !.pc = "askDelete", !.users = U]
<1>4. /\ c \in Coroutines /\ c.pc = "askDelete" /\ c.job = co[h].job /\ c.todo = co[h].todo
      /\ c.r = co[h].r
  BY <1>1, <1>3 DEF Coroutines
<1>5. StepTyped(c)
  <2>1. co[h].job = "execute"
    BY <1>1 DEF StepTyped, Coroutines, Jobs
  <2> HIDE DEF c
  <2> QED
    BY <1>1, <1>4, <2>1 DEF StepTyped
<1>6. CoTyped'
  BY <1>2, <1>4, <1>5, CoKeeps DEF ApiTyped
<1> QED
  BY <1>6, OnlyCo DEF Orphans

LEMMA AskDeleteTyped ==
    ASSUME ApiTyped, NEW h \in Handlers, AskDelete(h)
    PROVE  ApiTyped'
<1>1. co[h] \in Coroutines /\ StepTyped(co[h]) /\ co[h].pc = "askDelete" /\ "shadows" \in Steps
  BY CoOf DEF ApiTyped, AskDelete, At, Steps
<1>2. co[h].job = "execute" /\ co[h].users \subseteq Users
  BY <1>1 DEF StepTyped, Coroutines, Jobs
<1>3. deletions' \subseteq Users
  BY <1>2 DEF AskDelete, ApiTyped
<1>4. CoTyped'
  <2>1. CASE Goto(h, "shadows")
    <3> DEFINE c == [co[h] EXCEPT !.pc = "shadows"]
    <3>1. c.pc = "shadows" /\ c.job = co[h].job /\ c.todo = co[h].todo /\ c.r = co[h].r
      BY <1>1, StepTo
    <3>2. StepTyped(c)
      <4> HIDE DEF c
      <4> QED
        BY <1>1, <1>2, <3>1 DEF StepTyped
    <3> QED
      BY <1>1, <2>1, <3>2, GotoCo DEF ApiTyped
  <2>2. ASSUME NEW u \in co[h].users, Becomes(h, [co[h] EXCEPT !.users = @ \ {u}])
        PROVE  CoTyped'
    <3> DEFINE c == [co[h] EXCEPT !.users = @ \ {u}]
    <3>1. /\ c \in Coroutines /\ c.pc = co[h].pc /\ c.job = co[h].job /\ c.todo = co[h].todo
          /\ c.r = co[h].r
      BY <1>1 DEF Coroutines
    <3>2. StepTyped(c)
      <4> HIDE DEF c
      <4> QED
        BY <1>1, <1>2, <3>1 DEF StepTyped
    <3> QED
      BY <2>2, <3>1, <3>2, CoKeeps DEF ApiTyped
  <2> QED
    BY <2>1, <2>2 DEF AskDelete
<1> QED
  BY <1>3, <1>4 DEF AskDelete, ApiTyped, RowsTyped, LinksTyped, WorldTyped, MidPointTyped,
     HistoryTyped, tables, midpoint, world, history

LEMMA DeleteShadowsTyped ==
    ASSUME ApiTyped, NEW h \in Handlers, DeleteShadows(h)
    PROVE  ApiTyped'
<1> DEFINE c == [co[h] EXCEPT !.pc = "complete"]
<1>1. co[h] \in Coroutines /\ StepTyped(co[h]) /\ co[h].pc = "shadows" /\ "complete" \in Steps
  BY CoOf DEF ApiTyped, DeleteShadows, At, Steps
<1>2. c.pc = "complete" /\ c.job = co[h].job /\ c.todo = co[h].todo /\ c.r = co[h].r
  BY <1>1, StepTo
<1>3. StepTyped(c)
  <2>1. co[h].job = "execute"
    BY <1>1 DEF StepTyped, Coroutines, Jobs
  <2> HIDE DEF c
  <2> QED
    BY <1>1, <1>2, <2>1 DEF StepTyped
<1>4. CoTyped'
  BY <1>1, <1>3, GotoCo DEF DeleteShadows, ApiTyped
<1>5. shadow' \subseteq Keys
  BY DEF DeleteShadows, ApiTyped, MidPointTyped
<1> QED
  BY <1>4, <1>5 DEF DeleteShadows, ApiTyped, RowsTyped, LinksTyped, WorldTyped, MidPointTyped,
     HistoryTyped, tables, world, history

LEMMA ConcludeTyped ==
    ASSUME ApiTyped, NEW h \in Handlers, Conclude(h)
    PROVE  ApiTyped'
<1> DEFINE c == [co[h] EXCEPT !.pc = "pick"]
<1>1. /\ co[h] \in Coroutines /\ StepTyped(co[h]) /\ co[h].pc \in {"complete", "fail"}
      /\ "pick" \in Steps
  BY CoOf DEF ApiTyped, Conclude, Steps
<1>2. c.pc = "pick" /\ c.job = co[h].job /\ c.todo = co[h].todo
  BY <1>1, StepTo
<1>3. co[h].job = "execute" /\ co[h].r \in Requests
  BY <1>1 DEF StepTyped, Coroutines, Jobs
<1>4. StepTyped(c)
  <2> HIDE DEF c
  <2> QED
    BY <1>1, <1>2, <1>3 DEF StepTyped
<1>5. CoTyped'
  BY <1>1, <1>4, GotoCo DEF Conclude, ApiTyped
<1>6. req' \in [Requests -> RequestRows]
  <2>1. (IF At(h, "complete") THEN "COMPLETED" ELSE "FAILED") \in Statuses
    BY DEF Statuses
  <2> QED
    BY <1>3, <2>1, WriteStatus DEF Conclude, ApiTyped
<1> QED
  BY <1>5, <1>6, OnlyReq DEF Conclude

LEMMA ApiStepTyped ==
    ASSUME ApiTyped, NEW h \in Handlers, ApiStep(h)
    PROVE  ApiTyped'
  BY ClearLinkTyped, RecordTyped, SendReadTyped, SendWriteTyped, ExcludeTyped, ForgetTyped,
     ItemsTyped, CancelTyped, MissingTyped, CreateTyped, MigrateTyped, CleanupFailsTyped,
     ListHoldersTyped, UnassignTyped, DropRoleTyped, PickTyped, OrphansTyped, AskDeleteTyped,
     DeleteShadowsTyped, ConcludeTyped
  DEF ApiStep

-----------------------------------------------------------------------------
\* People, the worker and the deployment.

LEMMA ExpireTyped ==
    ASSUME ApiTyped, NEW t \in 1..Len(link), Expire(t)
    PROVE  ApiTyped'
<1>1. expired' \subseteq 1..MaxLinks
  <2>1. t \in 1..MaxLinks
    BY RemovalAssumption DEF ApiTyped, LinksTyped
  <2> QED
    BY <2>1 DEF Expire, ApiTyped, WorldTyped
<1> QED
  BY <1>1 DEF Expire, ApiTyped, RowsTyped, LinksTyped, WorldTyped, MidPointTyped, HistoryTyped,
     CoTyped, StepTyped, tables, midpoint, history

LEMMA ChangeTargetTyped ==
    ASSUME ApiTyped, NEW k \in Keys, NEW what \in {"entitlement", "login", "absent"},
           ChangeTarget(k, what)
    PROVE  ApiTyped'
<1>1. native' \in [Keys -> {"entitlement", "login", "absent"}] /\ budget' \in Nat
  BY DEF ChangeTarget, ApiTyped, WorldTyped
<1> QED
  BY <1>1 DEF ChangeTarget, ApiTyped, RowsTyped, LinksTyped, WorldTyped, MidPointTyped,
     HistoryTyped, CoTyped, StepTyped, tables, midpoint, history

LEMMA PeopleTyped ==
    ASSUME ApiTyped, People
    PROVE  ApiTyped'
  BY ClickTyped, RenewTyped, ExpireTyped, ChangeTargetTyped DEF People

\* The calls, and the reading of an answer.
LEMMA IdleTyped ==
    Idle \in Coroutines /\ StepTyped(Idle)
<1>1. Idle \in Coroutines /\ Idle.job = "none" /\ Idle.pc = "idle"
  BY RemovalAssumption DEF Idle, Coroutines, Jobs, Steps, Callers
<1> QED
  BY <1>1 DEF StepTyped

LEMMA ProcessApprovedCo ==
    ASSUME CoTyped, NEW h \in Handlers, ProcessApproved(h)
    PROVE  CoTyped'
<1> DEFINE S == {r \in Requests : req[r].status = "APPROVED"}
           c == [Idle EXCEPT !.job = "execute", !.pc = "pick", !.caller = "worker", !.todo = S]
<1>1. c \in Coroutines /\ c.job = "execute" /\ c.pc = "pick" /\ c.todo = S
  <2>1. S \subseteq Requests
    OBVIOUS
  <2> "execute" \in Jobs /\ "pick" \in Steps /\ "worker" \in Callers
    BY DEF Jobs, Steps, Callers
  <2> HIDE DEF S
  <2> QED
    BY <2>1, IdleTyped DEF Coroutines
<1>2. S \subseteq Requests /\ Becomes(h, c)
  BY DEF ProcessApproved, Call
<1> HIDE DEF c, S
<1>3. StepTyped(c)
  BY <1>1, <1>2 DEF StepTyped
<1> QED
  BY <1>1, <1>2, <1>3, CoKeeps

LEMMA ReconcileCo ==
    ASSUME CoTyped, NEW h \in Handlers, NEW caller \in Callers, NEW items \in SUBSET Keys,
           NEW excluded \in SUBSET Keys, NEW quiet \in SUBSET Keys,
           Reconcile(h, caller, items, excluded, quiet)
    PROVE  CoTyped'
<1> DEFINE S == {k \in excluded : inventory[k] # "none"}
           c == [Idle EXCEPT !.job = "reconcile", !.pc = "exclude", !.caller = caller, !.todo = S,
                             !.items = items, !.quiet = quiet]
<1>1. c \in Coroutines /\ c.job = "reconcile" /\ c.pc = "exclude" /\ c.todo = S
  <2>1. S \subseteq Keys
    OBVIOUS
  <2> "reconcile" \in Jobs /\ "exclude" \in Steps
    BY DEF Jobs, Steps
  <2> HIDE DEF S
  <2> QED
    BY <2>1, IdleTyped DEF Coroutines
<1>2. S \subseteq Keys /\ Becomes(h, c)
  BY DEF Reconcile, Call
<1> HIDE DEF c, S
<1>3. StepTyped(c)
  BY <1>1, <1>2 DEF StepTyped
<1> QED
  BY <1>1, <1>2, <1>3, CoKeeps

LEMMA RegisterLegacyCo ==
    ASSUME CoTyped, NEW h \in Handlers, NEW items \in SUBSET Keys, RegisterLegacy(h, items)
    PROVE  CoTyped'
<1> DEFINE c == [Idle EXCEPT !.job = "legacy", !.pc = "migrate", !.caller = "ansible",
                             !.todo = Legacy, !.items = items]
<1>1. c \in Coroutines /\ c.job = "legacy" /\ c.pc = "migrate" /\ c.todo \subseteq Keys
  <2> "legacy" \in Jobs /\ "migrate" \in Steps /\ "ansible" \in Callers
    BY DEF Jobs, Steps, Callers
  <2> QED
    BY IdleTyped, RemovalAssumption DEF Coroutines
<1>2. Becomes(h, c)
  BY DEF RegisterLegacy, Call
<1> HIDE DEF c
<1>3. StepTyped(c)
  BY <1>1 DEF StepTyped
<1> QED
  BY <1>1, <1>2, <1>3, CoKeeps

\* What the worker writes down.
LEMMA ConfirmTyped ==
    ASSUME NEW f \in SyncStates, NEW items \in SUBSET Keys
    PROVE  Confirm(f, items) \in SyncStates
  BY DEF Confirm, SyncStates

LEMMA SleepingTyped ==
    Sleeping \in [pc : Phases, next : SyncStates, adds : SUBSET Keys, items : SUBSET Keys,
                  excluded : SUBSET Keys]
  BY DEF Sleeping, Phases, SyncStates

\* A step of the worker or the deployment that calls the API or reads its answer.
LEMMA AroundTyped ==
    ASSUME TypeInv, NEW h \in Handlers, Around(h)
    PROVE  TypeInv'
<1>1. /\ CoTyped /\ file \in SyncStates
      /\ worker \in [pc : Phases, next : SyncStates, adds : SUBSET Keys, items : SUBSET Keys,
                     excluded : SUBSET Keys]
      /\ deploy \in [pc : {"roles", "reconcile", "legacy", "over"}, items : SUBSET Keys]
  BY DEF TypeInv, ApiTyped, SyncTyped
<1>2. worker.next \in SyncStates /\ worker.excluded \subseteq Keys /\ deploy.items \subseteq Keys
  BY <1>1
<1>3. ASSUME CoTyped', UNCHANGED outside, SyncTyped'
      PROVE  TypeInv'
  BY <1>3, OnlyCo DEF TypeInv, outside
<1> "worker" \in Callers /\ "ansible" \in Callers
  BY DEF Callers
<1> \A p \in {"executing", "discover", "post", "posting"} : p \in Phases
  BY DEF Phases
<1>4. CASE BeginCycle(h)
  <2>1. CoTyped' /\ UNCHANGED outside
    BY <1>1, <1>4, ProcessApprovedCo DEF BeginCycle
  <2>2. SyncTyped'
    BY <1>1, <1>4 DEF BeginCycle, SyncTyped
  <2> QED
    BY <1>3, <2>1, <2>2
<1>5. CASE ExecutionReturns(h)
  <2>1. CoTyped' /\ UNCHANGED outside
    BY <1>1, <1>5, IdleTyped, CoKeeps DEF ExecutionReturns
  <2>2. SyncTyped'
    BY <1>1, <1>5 DEF ExecutionReturns, SyncTyped
  <2> QED
    BY <1>3, <2>1, <2>2
<1>6. CASE Post(h)
  <2>1. worker.next.known \subseteq Keys /\ {k \in Keys : gap[k] >= Confirmations} \subseteq Keys
    BY <1>2 DEF SyncStates
  <2>2. Reconcile(h, "worker", worker.next.known, worker.excluded,
                  {k \in Keys : gap[k] >= Confirmations})
    BY <1>6 DEF Post
  <2>3. CoTyped'
    BY <1>1, <1>2, <2>1, <2>2, ReconcileCo
  <2>4. SyncTyped' /\ UNCHANGED outside
    BY <1>1, <1>6 DEF Post, SyncTyped
  <2> QED
    BY <1>3, <2>3, <2>4
<1>7. CASE Save(h)
  <2>1. CoTyped' /\ UNCHANGED outside
    BY <1>1, <1>7, IdleTyped, CoKeeps DEF Save
  <2>2. SyncTyped'
    BY <1>1, <1>2, <1>7, SleepingTyped DEF Save, SyncTyped
  <2> QED
    BY <1>3, <2>1, <2>2
<1>8. CASE DeployCall(h)
  <2>1. Login \ deploy.items \subseteq Keys
    BY DEF Login
  <2>2. ASSUME Reconcile(h, "ansible", deploy.items, Login \ deploy.items, {})
        PROVE  CoTyped'
    BY <1>1, <1>2, <2>1, <2>2, ReconcileCo
  <2>3. ASSUME RegisterLegacy(h, deploy.items)
        PROVE  CoTyped'
    BY <1>1, <1>2, <2>3, RegisterLegacyCo
  <2>4. CoTyped' /\ UNCHANGED outside
    BY <1>8, <2>2, <2>3 DEF DeployCall
  <2>5. SyncTyped'
    BY <1>1, <1>8 DEF DeployCall, SyncTyped
  <2> QED
    BY <1>3, <2>4, <2>5
<1>9. CASE DeployReturns(h)
  <2>1. CoTyped' /\ UNCHANGED outside
    BY <1>1, <1>9, IdleTyped, CoKeeps DEF DeployReturns
  <2>2. SyncTyped'
    BY <1>1, <1>9 DEF DeployReturns, SyncTyped
  <2> QED
    BY <1>3, <2>1, <2>2
<1> QED
  BY <1>4, <1>5, <1>6, <1>7, <1>8, <1>9 DEF Around

LEMMA DiscoverTyped ==
    ASSUME TypeInv, Discover
    PROVE  TypeInv'
<1>1. Confirm(file, Present) \in SyncStates /\ Present \subseteq Keys /\ Login \subseteq Keys
  BY ConfirmTyped DEF TypeInv, SyncTyped, Present, Login
<1>2. worker' \in [pc : Phases, next : SyncStates, adds : SUBSET Keys, items : SUBSET Keys,
                   excluded : SUBSET Keys]
  BY <1>1, SleepingTyped DEF Discover, Phases
<1>3. SyncTyped'
  BY <1>2 DEF Discover, TypeInv, SyncTyped
<1>4. ApiTyped' /\ UNCHANGED co
  BY OnlyCo DEF Discover, TypeInv, ApiTyped, outside, CoTyped, StepTyped
<1> QED
  BY <1>3, <1>4 DEF TypeInv

LEMMA UpsertTyped ==
    ASSUME TypeInv, Upsert
    PROVE  TypeInv'
<1>1. worker \in [pc : Phases, next : SyncStates, adds : SUBSET Keys, items : SUBSET Keys,
                  excluded : SUBSET Keys] /\ "post" \in Phases
  BY DEF TypeInv, SyncTyped, Phases
<1>2. worker' \in [pc : Phases, next : SyncStates, adds : SUBSET Keys, items : SUBSET Keys,
                   excluded : SUBSET Keys]
  BY <1>1, SleepingTyped DEF Upsert
<1>3. MidPointTyped'
  BY <1>1 DEF Upsert, TypeInv, ApiTyped, MidPointTyped, Present, midpoint
<1>4. SyncTyped'
  BY <1>2 DEF Upsert, TypeInv, SyncTyped
<1>5. ApiTyped'
  BY <1>3 DEF Upsert, TypeInv, ApiTyped, RowsTyped, LinksTyped, WorldTyped, HistoryTyped, CoTyped,
     StepTyped, tables, world, history
<1> QED
  BY <1>4, <1>5 DEF TypeInv

LEMMA DeployRolesTyped ==
    ASSUME TypeInv, DeployRoles
    PROVE  TypeInv'
<1>1. role' \subseteq Keys /\ deploy' \in [pc : {"roles", "reconcile", "legacy", "over"},
                                           items : SUBSET Keys]
  BY DEF DeployRoles, TypeInv, ApiTyped, MidPointTyped, Present
<1> QED
  BY <1>1 DEF DeployRoles, TypeInv, ApiTyped, RowsTyped, LinksTyped, WorldTyped, MidPointTyped,
     HistoryTyped, CoTyped, StepTyped, SyncTyped, tables, world, history

LEMMA AbandonTyped ==
    ASSUME TypeInv, Abandon
    PROVE  TypeInv'
<1>1. co \in [Handlers -> Coroutines] /\ \A h \in Handlers : StepTyped(co[h])
  BY DEF TypeInv, ApiTyped, CoTyped
<1>2. ASSUME NEW h \in Handlers
      PROVE  co'[h] \in Coroutines /\ StepTyped(co'[h])
  <2> DEFINE c == [co[h] EXCEPT !.caller = "people"]
  <2>1. co'[h] = Idle \/ co'[h] = c \/ co'[h] = co[h]
    BY DEF Abandon
  <2>2. /\ c \in Coroutines /\ c.pc = co[h].pc /\ c.job = co[h].job /\ c.todo = co[h].todo
        /\ c.r = co[h].r /\ c.level = co[h].level
    BY <1>1 DEF Coroutines, Callers
  <2>3. StepTyped(c)
    <3> HIDE DEF c
    <3> QED
      BY <1>1, <2>2 DEF StepTyped
  <2> QED
    BY <1>1, <2>1, <2>2, <2>3, IdleTyped
<1>3. CoTyped'
  BY <1>2 DEF Abandon, CoTyped, StepTyped
<1>4. worker' \in [pc : Phases, next : SyncStates, adds : SUBSET Keys, items : SUBSET Keys,
                   excluded : SUBSET Keys]
  BY SleepingTyped DEF Abandon, TypeInv, SyncTyped, Phases
<1>5. SyncTyped' /\ ApiTyped'
  BY <1>3, <1>4, OnlyCo DEF Abandon, TypeInv, SyncTyped, outside
<1> QED
  BY <1>5 DEF TypeInv

LEMMA CrashTyped ==
    ASSUME TypeInv, Crash
    PROVE  TypeInv'
<1>1. co \in [Handlers -> Coroutines] /\ \A h \in Handlers : StepTyped(co[h])
  BY DEF TypeInv, ApiTyped, CoTyped
<1>2. \A h \in Handlers : co'[h] = co[h] \/ co'[h] = Reply(co[h], FALSE)
  BY DEF Crash, ApiCrash
<1>3. \A h \in Handlers : co'[h] \in Coroutines /\ StepTyped(co'[h])
  BY <1>1, <1>2, ReplyTyped
<1>4. CoTyped'
  BY <1>3 DEF Crash, ApiCrash, CoTyped, StepTyped
<1>5. SyncTyped' /\ ApiTyped'
  BY <1>4, OnlyCo DEF Crash, ApiCrash, TypeInv, SyncTyped
<1> QED
  BY <1>5 DEF TypeInv

-----------------------------------------------------------------------------
LEMMA InitTyped ==
    ASSUME SyncInit
    PROVE  TypeInv
<1>1. RowsTyped
  <2>1. NoRequest \in RequestRows
    BY RemovalAssumption DEF NoRequest, RequestRows, Chain, Statuses
  <2> QED
    BY <2>1 DEF SyncInit, RemovalInit, RowsTyped
<1>2. LinksTyped /\ HistoryTyped
  BY RemovalAssumption DEF SyncInit, RemovalInit, LinksTyped, HistoryTyped
<1>3. WorldTyped
  <2>1. faults \in FaultSets /\ budget = Budget[faults]
    BY DEF SyncInit, RemovalInit
  <2>2. faults \subseteq FaultKinds /\ budget \in Nat
    BY <2>1, RemovalAssumption
  <2> QED
    BY <2>2 DEF SyncInit, RemovalInit, WorldTyped
<1>4. MidPointTyped /\ deletions \subseteq Users
  BY RemovalAssumption DEF SyncInit, RemovalInit, MidPointTyped
<1>5. CoTyped
  BY IdleTyped DEF SyncInit, RemovalInit, CoTyped
<1>6. SyncTyped
  BY SleepingTyped DEF SyncInit, SyncTyped, SyncStates, Present
<1> QED
  BY <1>1, <1>2, <1>3, <1>4, <1>5, <1>6 DEF TypeInv, ApiTyped

LEMMA NextTyped ==
    ASSUME TypeInv, [SyncNext]_vars
    PROVE  TypeInv'
<1>1. ASSUME ApiTyped', UNCHANGED <<file, worker, deploy, crashes, gap>>
      PROVE  TypeInv'
  BY <1>1 DEF TypeInv, SyncTyped
<1>2. CASE \E h \in Handlers : ApiStep(h) /\ UNCHANGED <<file, worker, deploy, crashes, gap>>
  BY <1>1, <1>2, ApiStepTyped DEF TypeInv
<1>3. CASE People /\ UNCHANGED <<file, worker, deploy, crashes, gap>>
  BY <1>1, <1>3, PeopleTyped DEF TypeInv
<1>4. CASE UNCHANGED vars
  BY <1>4 DEF vars, removalVars, tables, midpoint, world, history, TypeInv, ApiTyped, RowsTyped,
     LinksTyped, WorldTyped, MidPointTyped, HistoryTyped, CoTyped, StepTyped, SyncTyped
<1> QED
  BY <1>2, <1>3, <1>4, AroundTyped, DiscoverTyped, UpsertTyped, DeployRolesTyped, AbandonTyped,
     CrashTyped
  DEF SyncNext

\* The strengthening: links name existing levels, no more links are mailed than
\* the bound, each step of a job has its request in memory, and so on.
THEOREM TypesStay == SyncSpec => []TypeInv
<1>1. SyncInit => TypeInv
  BY InitTyped
<1>2. TypeInv /\ [SyncNext]_vars => TypeInv'
  BY NextTyped
<1> QED
  BY <1>1, <1>2, PTL DEF SyncSpec

\* Every variable of the removal service and of MidPoint keeps its type, however
\* the API's coroutines, the worker, a deployment and the people's answers are
\* interleaved, and whatever fails.
THEOREM RemovalTypeCorrect == SyncSpec => []RemovalTypeOK
<1>1. TypeInv => RemovalTypeOK
  BY DEF TypeInv, ApiTyped, RowsTyped, LinksTyped, WorldTyped, MidPointTyped, HistoryTyped, CoTyped,
     Coroutines, RequestRows, Links, RemovalTypeOK
<1> QED
  BY <1>1, TypesStay, PTL

-----------------------------------------------------------------------------
\* The strengthening.

OwnSteps == {"clear", "record", "sendRead", "sendWrite"}
Owns(h, r)   == co[h].r = r /\ co[h].pc \in OwnSteps
Signed(r, n) == 1..n \subseteq signed[r]
Decided      == {"APPROVED", "COMPLETED", "FAILED"}

\* What a coroutine in the middle of a job may rely on: the levels up to the one
\* it records have signed, the link it used up stays so until it mails another,
\* and the level it mails is still the request's.
StepSafe(c) ==
    /\ c.pc \in {"clear", "record"} /\ c.yes => Signed(c.r, c.level)
    /\ c.pc = "record" \/ (c.pc \in {"sendRead", "sendWrite"} /\ c.job # "renew")
          => req[c.r].token = 0
    /\ c.pc = "sendWrite" => c.level = req[c.r].level
    /\ c.pc \in OwnSteps \cup {"cancel"} => req[c.r].status # "NONE"
    /\ c.job = "execute" /\ c.pc # "pick" => c.r \in dismantled

\* The levels below the current one have signed, all of them once it is decided;
\* a link that opens the request was mailed to its current level.
RequestSafe(r) ==
    /\ Signed(r, req[r].level - 1)
    /\ req[r].status \in Decided => Signed(r, Levels)
    /\ req[r].token # 0 => /\ req[r].token \in 1..Len(link)
                           /\ link[req[r].token].r = r
                           /\ link[req[r].token].level = req[r].level

\* One coroutine at a time decides or mails a request, and requests are made in
\* the order of their numbers.
OneOwner == \A h, g \in Handlers, r \in Requests : Owns(h, r) /\ Owns(g, r) => h = g
InOrder  == \A q, r \in Requests : q < r /\ req[q].status = "NONE" => req[r].status = "NONE"

Safe ==
    /\ \A h \in Handlers : StepSafe(co[h])
    /\ \A r \in Requests : RequestSafe(r)
    /\ \A r \in dismantled : Signed(r, Levels) /\ req[r].status # "NONE"
    /\ OneOwner /\ InOrder

\* The rest is about the behaviours without overlapping answers.
SafeInv == ~May("double") => Safe

-----------------------------------------------------------------------------
\* What a coroutine holds after it goes on, and after it answers.

LEMMA GotoFields ==
    ASSUME CoTyped, NEW h \in Handlers, NEW p \in Steps, Goto(h, p)
    PROVE  /\ co'[h].pc = p /\ co'[h].job = co[h].job /\ co'[h].r = co[h].r
           /\ co'[h].level = co[h].level /\ co'[h].yes = co[h].yes
           /\ \A g \in Handlers : g # h => co'[g] = co[g]
<1>1. co[h] \in Coroutines /\ co \in [Handlers -> Coroutines]
  BY DEF CoTyped
<1>2. co'[h] = [co[h] EXCEPT !.pc = p] /\ \A g \in Handlers : g # h => co'[g] = co[g]
  BY <1>1 DEF Goto, Becomes
<1> QED
  BY <1>1, <1>2 DEF Coroutines

LEMMA AnswerFields ==
    ASSUME CoTyped, NEW h \in Handlers, NEW ok \in BOOLEAN, Answer(h, ok)
    PROVE  /\ co'[h].job = "none" /\ co'[h].pc \in {"idle", "done", "failed"}
           /\ \A g \in Handlers : g # h => co'[g] = co[g]
<1>1. co[h] \in Coroutines /\ co \in [Handlers -> Coroutines]
  BY DEF CoTyped
<1>2. co'[h] = Reply(co[h], ok) /\ \A g \in Handlers : g # h => co'[g] = co[g]
  BY <1>1 DEF Answer, Becomes
<1> QED
  BY <1>1, <1>2, ReplyTyped

\* The request of a step that needs one exists.
LEMMA RequestOf ==
    ASSUME CoTyped, NEW h \in Handlers, co[h].pc \in OwnSteps \cup {"cancel"}
    PROVE  co[h].r \in Requests
  BY CoOf DEF OwnSteps, StepTyped

\* A step that takes up no request: levels stay, links are at most used up, and
\* what gets decided was signed at every level.
LEMMA CalmStep ==
    ASSUME ApiTyped, Safe, UNCHANGED <<link, signed>>,
           \A r \in Requests :
               /\ req'[r].level = req[r].level
               /\ req'[r].token = req[r].token \/ req'[r].token = 0
               /\ req'[r].status = "NONE" <=> req[r].status = "NONE"
               /\ req'[r].status \in Decided => Signed(r, Levels),
           dismantled \subseteq dismantled',
           \A r \in dismantled' : r \in Requests /\ Signed(r, Levels) /\ req[r].status # "NONE",
           \A g \in Handlers : co'[g] = co[g] \/ StepSafe(co[g])',
           \A g \in Handlers, r \in Requests : Owns(g, r)' => Owns(g, r)
    PROVE  Safe'
<1>1. ASSUME NEW g \in Handlers
      PROVE  StepSafe(co[g])'
  <2>1. CASE StepSafe(co[g])'
    BY <2>1
  <2>2. CASE co'[g] = co[g]
    <3>1. co[g].pc \in OwnSteps \cup {"cancel"} => co[g].r \in Requests
      BY RequestOf DEF ApiTyped
    <3>2. StepSafe(co[g])
      BY DEF Safe
    <3>3. \A n \in Nat : Signed(co[g].r, n)' = Signed(co[g].r, n)
      BY <2>2 DEF Signed
    <3> QED
      BY <2>2, <3>1, <3>2 DEF StepSafe, OwnSteps, Signed
  <2> QED
    BY <2>1, <2>2
<1>2. ASSUME NEW r \in Requests
      PROVE  RequestSafe(r)'
  BY DEF Safe, RequestSafe, Signed
<1>3. \A r \in dismantled' : (Signed(r, Levels) /\ req[r].status # "NONE")'
  BY DEF Signed
<1>4. OneOwner'
  BY DEF Safe, OneOwner
<1>5. InOrder'
  BY DEF Safe, InOrder
<1> QED
  BY <1>1, <1>2, <1>3, <1>4, <1>5 DEF Safe

\* A step of one coroutine that writes no request and ends outside of those that
\* decide or mail.
LEMMA Passes ==
    ASSUME ApiTyped, Safe, NEW h \in Handlers,
           \A g \in Handlers : g # h => co'[g] = co[g],
           co'[h].pc \notin OwnSteps \cup {"cancel"},
           co'[h].job = "execute" /\ co'[h].pc # "pick" => co'[h].r \in dismantled,
           UNCHANGED <<req, link, signed, dismantled>>
    PROVE  Safe'
<1>1. StepSafe(co[h])'
  BY DEF StepSafe, OwnSteps
<1>2. \A r \in Requests : ~Owns(h, r)'
  BY DEF Owns
<1>3. \A g \in Handlers, r \in Requests : Owns(g, r)' => Owns(g, r)
  BY <1>2 DEF Owns
<1>4. \A r \in dismantled' : r \in Requests /\ Signed(r, Levels) /\ req[r].status # "NONE"
  BY DEF Safe, ApiTyped, HistoryTyped
<1>5. \A r \in Requests : req[r].status \in Decided => Signed(r, Levels)
  BY DEF Safe, RequestSafe
<1> QED
  BY <1>1, <1>3, <1>4, <1>5, CalmStep

\* An answer ends the job.
LEMMA AnswerSafe ==
    ASSUME ApiTyped, Safe, NEW h \in Handlers, NEW ok \in BOOLEAN, Answer(h, ok),
           UNCHANGED <<req, link, signed, dismantled>>
    PROVE  Safe'
<1>1. /\ co'[h].job = "none" /\ co'[h].pc \in {"idle", "done", "failed"}
      /\ \A g \in Handlers : g # h => co'[g] = co[g]
  BY AnswerFields DEF ApiTyped
<1> QED
  BY <1>1, Passes DEF OwnSteps

-----------------------------------------------------------------------------
\* Answers and mails.

\* An open link's request is nobody's: who decides or renews is alone, and a
\* reconciliation that still has to mail the request has not stored its token.
LEMMA OpenIsFree ==
    ASSUME ApiTyped, Safe, ~May("double"), NEW h \in Handlers, NEW t \in 1..Len(link),
           Alone(h), At(h, "idle"), Opens(t)
    PROVE  \A g \in Handlers : ~Owns(g, link[t].r)
<1> SUFFICES ASSUME NEW g \in Handlers, Owns(g, link[t].r)
             PROVE  FALSE
  OBVIOUS
<1>1. t # 0 /\ req[link[t].r].token = t
  BY DEF Opens
<1>2. co[g].pc \in OwnSteps /\ co[g].r = link[t].r /\ g # h
  BY DEF Owns, At, OwnSteps
<1>3. co[g].job \notin {"decide", "renew"}
  BY <1>2 DEF Alone
<1>4. co[g] \in Coroutines /\ StepTyped(co[g]) /\ StepSafe(co[g])
  BY CoOf DEF ApiTyped, Safe
<1>5. co[g].pc \in {"sendRead", "sendWrite"}
  BY <1>2, <1>3, <1>4 DEF StepTyped, Coroutines, Jobs, OwnSteps
<1> QED
  BY <1>1, <1>2, <1>3, <1>4, <1>5 DEF StepSafe

\* What the coroutine of a request that comes in holds.
LEMMA ComesIn ==
    ASSUME CoTyped, NEW h \in Handlers, NEW job, NEW pc, NEW r,
           Becomes(h, [Idle EXCEPT !.job = job, !.pc = pc, !.r = r])
    PROVE  /\ co'[h].job = job /\ co'[h].pc = pc /\ co'[h].r = r
           /\ \A g \in Handlers : g # h => co'[g] = co[g]
  BY DEF CoTyped, Becomes, Idle

LEMMA ClickSafe ==
    ASSUME ApiTyped, Safe, ~May("double"), NEW h \in Handlers, NEW t \in 1..Len(link),
           NEW yes \in BOOLEAN, Click(h, t, yes)
    PROVE  Safe'
<1> DEFINE r == link[t].r
<1>1. r \in Requests /\ link[t].level \in Chain /\ signed \in [Requests -> SUBSET Chain]
  BY LinkOf DEF ApiTyped, HistoryTyped
<1>2. t # 0 /\ req[r].token = t /\ req[r].status = "PENDING" /\ req[r].level = link[t].level
  <2>1. t # 0 /\ req[r].token = t /\ req[r].status = "PENDING"
    BY DEF Click, Opens
  <2> QED
    BY <1>1, <2>1 DEF Safe, RequestSafe
<1>3. /\ co'[h].job = "decide" /\ co'[h].pc = "clear" /\ co'[h].r = r
      /\ co'[h].level = req[r].level /\ co'[h].yes = yes
      /\ \A g \in Handlers : g # h => co'[g] = co[g]
  <2> HIDE DEF r
  <2>1. Becomes(h, [Idle EXCEPT !.job = "decide", !.pc = "clear", !.r = r,
                                !.level = req[r].level, !.yes = yes])
    BY DEF Click, r
  <2> QED
    BY <2>1 DEF ApiTyped, CoTyped, Becomes, Idle
<1>4. /\ UNCHANGED <<req, link, dismantled>>
      /\ signed' = [signed EXCEPT ![r] = IF yes THEN @ \cup {link[t].level} ELSE @]
  BY DEF Click, tables
<1> HIDE DEF r
<1>5. ASSUME NEW q \in Requests, NEW n, Signed(q, n)
      PROVE  Signed(q, n)'
  BY <1>1, <1>4, <1>5 DEF Signed
<1>6. yes => Signed(co[h].r, co[h].level)'
  <2> SUFFICES ASSUME yes, NEW i \in 1..req[r].level
               PROVE  i \in signed'[r]
    BY <1>3 DEF Signed
  <2>1. req[r].level \in Nat \ {0} /\ Signed(r, req[r].level - 1)
    BY <1>1, <1>2 DEF Chain, Safe, RequestSafe
  <2>2. signed'[r] = signed[r] \cup {req[r].level}
    BY <1>1, <1>2, <1>4
  <2>3. i = req[r].level \/ i \in 1..(req[r].level - 1)
    BY <2>1
  <2> QED
    BY <2>1, <2>2, <2>3 DEF Signed
<1>7. \A g \in Handlers : ~Owns(g, r)
  BY OpenIsFree DEF Click, r
<1>8. ASSUME NEW g \in Handlers
      PROVE  StepSafe(co[g])'
  <2>1. CASE g = h
    <3>1. req'[co'[h].r].status # "NONE"
      BY <1>2, <1>3, <1>4
    <3> QED
      BY <1>3, <1>6, <2>1, <3>1 DEF StepSafe
  <2>2. CASE g # h
    <3>1. StepSafe(co[g]) /\ co'[g] = co[g]
      BY <1>3, <2>2 DEF Safe
    <3>2. co[g].pc \in OwnSteps => co[g].r \in Requests
      BY RequestOf DEF ApiTyped
    <3> QED
      BY <1>4, <1>5, <3>1, <3>2 DEF StepSafe, OwnSteps
  <2> QED
    BY <2>1, <2>2
<1>9. ASSUME NEW q \in Requests
      PROVE  RequestSafe(q)'
  <2>1. RequestSafe(q)
    BY DEF Safe
  <2> QED
    BY <1>4, <1>5, <2>1 DEF RequestSafe
<1>10. \A q \in dismantled' : (Signed(q, Levels) /\ req[q].status # "NONE")'
  BY <1>4, <1>5 DEF Safe, ApiTyped, HistoryTyped
<1>11. OneOwner'
  BY <1>3, <1>7 DEF Safe, OneOwner, Owns
<1>12. InOrder'
  BY <1>4 DEF Safe, InOrder
<1> QED
  BY <1>8, <1>9, <1>10, <1>11, <1>12 DEF Safe

LEMMA RenewSafe ==
    ASSUME ApiTyped, Safe, ~May("double"), NEW h \in Handlers, NEW t \in 1..Len(link), Renew(h, t)
    PROVE  Safe'
<1> DEFINE r == link[t].r
<1>1. r \in Requests /\ req[r].status = "PENDING"
  BY LinkOf DEF ApiTyped, Renew, Opens
<1>2. /\ co'[h].job = "renew" /\ co'[h].pc = "sendRead" /\ co'[h].r = r
      /\ \A g \in Handlers : g # h => co'[g] = co[g]
  BY ComesIn DEF Renew, ApiTyped
<1>3. UNCHANGED <<req, link, signed, dismantled>>
  BY DEF Renew, tables, history
<1> HIDE DEF r
<1>4. \A g \in Handlers : ~Owns(g, r)
  BY OpenIsFree DEF Renew, r
<1>5. ASSUME NEW g \in Handlers
      PROVE  StepSafe(co[g])'
  <2>1. CASE g = h
    BY <1>1, <1>2, <1>3, <2>1 DEF StepSafe
  <2>2. CASE g # h
    <3>1. StepSafe(co[g]) /\ co'[g] = co[g]
      BY <1>2, <2>2 DEF Safe
    <3> QED
      BY <1>3, <3>1 DEF StepSafe, Signed
  <2> QED
    BY <2>1, <2>2
<1>6. \A q \in Requests : RequestSafe(q)'
  BY <1>3 DEF Safe, RequestSafe, Signed
<1>7. \A q \in dismantled' : (Signed(q, Levels) /\ req[q].status # "NONE")'
  BY <1>3 DEF Safe, Signed
<1>8. OneOwner'
  BY <1>2, <1>4 DEF Safe, OneOwner, Owns
<1>9. InOrder'
  BY <1>3 DEF Safe, InOrder
<1> QED
  BY <1>5, <1>6, <1>7, <1>8, <1>9 DEF Safe

\* What Safe says of the requests that are decided or dismantled.
LEMMA DecidedSigned ==
    ASSUME ApiTyped, Safe
    PROVE  /\ \A r \in Requests : req[r].status \in Decided => Signed(r, Levels)
           /\ \A r \in dismantled : r \in Requests /\ Signed(r, Levels) /\ req[r].status # "NONE"
  BY DEF Safe, RequestSafe, ApiTyped, HistoryTyped

LEMMA ClearLinkSafe ==
    ASSUME ApiTyped, Safe, NEW h \in Handlers, ClearLink(h)
    PROVE  Safe'
<1>1. co[h].pc = "clear" /\ co[h].r \in Requests /\ StepSafe(co[h]) /\ "record" \in Steps
  BY RequestOf DEF ClearLink, At, ApiTyped, OwnSteps, Safe, Steps
<1>2. /\ co'[h].pc = "record" /\ co'[h].job = co[h].job /\ co'[h].r = co[h].r
      /\ co'[h].level = co[h].level /\ co'[h].yes = co[h].yes
      /\ \A g \in Handlers : g # h => co'[g] = co[g]
  BY <1>1, GotoFields DEF ClearLink, ApiTyped
<1>3. /\ req'[co[h].r].status = req[co[h].r].status /\ req'[co[h].r].level = req[co[h].r].level
      /\ req'[co[h].r].token = 0 /\ \A q \in Requests : q # co[h].r => req'[q] = req[q]
  <2>1. 0 \in 0..MaxLinks /\ RowsTyped
    BY RemovalAssumption DEF ApiTyped
  <2> QED
    BY <1>1, <2>1, WriteToken DEF ClearLink
<1>4. UNCHANGED <<link, signed, dismantled>>
  BY DEF ClearLink, history
<1>5. StepSafe(co[h])'
  <2>1. co[h].job # "execute"
    BY <1>1, CoOf DEF ApiTyped, StepTyped
  <2> QED
    BY <1>1, <1>2, <1>3, <1>4, <2>1 DEF StepSafe, Signed, OwnSteps
<1>6. \A g \in Handlers, r \in Requests : Owns(g, r)' => Owns(g, r)
  BY <1>1, <1>2 DEF Owns, OwnSteps
<1> QED
  BY <1>2, <1>3, <1>4, <1>5, <1>6, DecidedSigned, CalmStep

\* A decision, and the level it leads to.
LEMMA RecordSafe ==
    ASSUME ApiTyped, Safe, NEW h \in Handlers, Record(h)
    PROVE  Safe'
<1> DEFINE r == co[h].r
<1>1. co[h].pc = "record" /\ r \in Requests /\ StepSafe(co[h]) /\ "sendRead" \in Steps
  BY RequestOf DEF Record, At, ApiTyped, OwnSteps, Safe, Steps
<1>2. /\ co[h].level \in Chain /\ req[r].status # "NONE" /\ req[r].token = 0
      /\ co[h].yes => Signed(r, co[h].level)
  BY <1>1, CoOf DEF ApiTyped, StepTyped, StepSafe, OwnSteps
<1>3. UNCHANGED <<link, signed, dismantled>>
  BY DEF Record, history
<1>4. ASSUME NEW s \in Statuses, req' = [req EXCEPT ![r].status = s], s # "NONE",
             s \in Decided => Signed(r, Levels), Answer(h, TRUE)
      PROVE  Safe'
  <2>1. /\ co'[h].job = "none" /\ co'[h].pc \in {"idle", "done", "failed"}
        /\ \A g \in Handlers : g # h => co'[g] = co[g]
    BY <1>4, AnswerFields DEF ApiTyped
  <2>2. /\ req'[r].status = s /\ req'[r].level = req[r].level /\ req'[r].token = req[r].token
        /\ \A q \in Requests : q # r => req'[q] = req[q]
    BY <1>1, <1>4, WriteStatus DEF ApiTyped
  <2>3. StepSafe(co[h])'
    BY <2>1 DEF StepSafe, OwnSteps
  <2>4. \A g \in Handlers, q \in Requests : Owns(g, q)' => Owns(g, q)
    BY <2>1 DEF Owns, OwnSteps
  <2> HIDE DEF r
  <2> QED
    BY <1>2, <1>3, <1>4, <2>1, <2>2, <2>3, <2>4, DecidedSigned, CalmStep
<1>5. CASE co[h].yes /\ co[h].level < Levels /\ Goto(h, "sendRead")
           /\ req' = [req EXCEPT ![r].level = co[h].level + 1]
  <2>1. /\ co'[h].pc = "sendRead" /\ co'[h].job = co[h].job /\ co'[h].r = r
        /\ \A g \in Handlers : g # h => co'[g] = co[g]
    BY <1>1, <1>5, GotoFields DEF ApiTyped
  <2>2. /\ req'[r].status = req[r].status /\ req'[r].level = co[h].level + 1
        /\ req'[r].token = req[r].token /\ \A q \in Requests : q # r => req'[q] = req[q]
    <3>1. co[h].level + 1 \in Chain
      BY <1>2, <1>5, RemovalAssumption DEF Chain
    <3> QED
      BY <1>1, <1>5, <3>1, WriteLevel DEF ApiTyped
  <2>3. Owns(h, r) /\ co[h].job # "execute"
    BY <1>1, CoOf DEF Owns, OwnSteps, ApiTyped, StepTyped
  <2> HIDE DEF r
  <2>4. ASSUME NEW g \in Handlers
        PROVE  StepSafe(co[g])'
    <3>1. CASE g = h
      BY <1>2, <2>1, <2>2, <2>3, <3>1 DEF StepSafe
    <3>2. CASE g # h
      <4>1. StepSafe(co[g]) /\ co'[g] = co[g]
        BY <2>1, <3>2 DEF Safe
      <4>2. co[g].pc \in OwnSteps => co[g].r \in Requests /\ co[g].r # r
        BY <1>1, <2>3, <3>2, RequestOf DEF ApiTyped, Safe, OneOwner, Owns, r
      <4>3. co[g].pc = "cancel" => co[g].r \in Requests
        BY RequestOf DEF ApiTyped
      <4> QED
        BY <1>3, <2>2, <4>1, <4>2, <4>3 DEF StepSafe, OwnSteps, Signed
    <3> QED
      BY <3>1, <3>2
  <2>5. ASSUME NEW q \in Requests
        PROVE  RequestSafe(q)'
    <3>1. RequestSafe(q)
      BY DEF Safe
    <3>2. CASE q = r
      <4>1. (co[h].level + 1) - 1 = co[h].level
        BY <1>2 DEF Chain
      <4> QED
        BY <1>2, <1>3, <1>5, <2>2, <3>1, <3>2, <4>1 DEF RequestSafe, Signed
    <3> QED
      BY <1>3, <2>2, <3>1, <3>2 DEF RequestSafe, Signed
  <2>6. \A q \in dismantled' : (Signed(q, Levels) /\ req[q].status # "NONE")'
    BY <1>3, <2>2, DecidedSigned DEF Signed
  <2>7. OneOwner'
    BY <2>1, <2>3 DEF Safe, OneOwner, Owns
  <2>8. InOrder'
    BY <2>2 DEF Safe, InOrder
  <2> QED
    BY <2>4, <2>5, <2>6, <2>7, <2>8 DEF Safe
<1>6. CASE req' = [req EXCEPT ![r].status = "KEPT"] /\ Answer(h, TRUE)
  BY <1>4, <1>6 DEF Statuses, Decided
<1>7. CASE /\ co[h].yes /\ co[h].level >= Levels
           /\ req' = [req EXCEPT ![r].status = "APPROVED"] /\ Answer(h, TRUE)
  <2>1. co[h].level = Levels
    BY <1>2, <1>7, RemovalAssumption DEF Chain
  <2> QED
    BY <1>2, <1>4, <1>7, <2>1 DEF Statuses
<1> QED
  BY <1>5, <1>6, <1>7 DEF Record

LEMMA SendReadSafe ==
    ASSUME ApiTyped, Safe, NEW h \in Handlers, SendRead(h)
    PROVE  Safe'
<1>1. UNCHANGED <<req, link, signed, dismantled>>
  BY DEF SendRead, tables, history
<1>2. CASE Raise(h)
  BY <1>1, <1>2, AnswerSafe DEF Raise
<1>3. CASE Becomes(h, [co[h] EXCEPT !.pc = "sendWrite", !.level = req[co[h].r].level])
  <2>1. co[h].pc = "sendRead" /\ co[h] \in Coroutines /\ StepTyped(co[h]) /\ StepSafe(co[h])
    BY CoOf DEF SendRead, At, ApiTyped, Safe
  <2>2. /\ co'[h].pc = "sendWrite" /\ co'[h].job = co[h].job /\ co'[h].r = co[h].r
        /\ co'[h].level = req[co[h].r].level /\ \A g \in Handlers : g # h => co'[g] = co[g]
    BY <1>3, <2>1 DEF ApiTyped, CoTyped, Becomes, Coroutines
  <2>3. StepSafe(co[h])'
    <3>1. co[h].job # "execute"
      BY <2>1 DEF StepTyped
    <3> QED
      BY <1>1, <2>1, <2>2, <3>1 DEF StepSafe, OwnSteps
  <2>4. \A g \in Handlers, r \in Requests : Owns(g, r)' => Owns(g, r)
    BY <2>1, <2>2 DEF Owns, OwnSteps
  <2> QED
    BY <1>1, <2>2, <2>3, <2>4, DecidedSigned, CalmStep
<1> QED
  BY <1>2, <1>3 DEF SendRead

\* The new link is mailed to the level the request is at.
LEMMA SendWriteSafe ==
    ASSUME ApiTyped, Safe, NEW h \in Handlers, SendWrite(h)
    PROVE  Safe'
<1> DEFINE r == co[h].r
           t == Len(link) + 1
<1>1. co[h].pc = "sendWrite" /\ r \in Requests /\ StepSafe(co[h]) /\ StepTyped(co[h])
  BY RequestOf, CoOf DEF SendWrite, At, ApiTyped, OwnSteps, Safe
<1>2. /\ co[h].level = req[r].level /\ req[r].status # "NONE" /\ co[h].job # "execute"
      /\ Owns(h, r)
  BY <1>1 DEF StepSafe, StepTyped, OwnSteps, Owns
<1>3. t \in 1..MaxLinks /\ t \in 0..MaxLinks /\ link \in Seq(Links)
  BY RemovalAssumption DEF ApiTyped, LinksTyped, SendWrite
<1>4. /\ req'[r].status = req[r].status /\ req'[r].level = req[r].level /\ req'[r].token = t
      /\ \A q \in Requests : q # r => req'[q] = req[q]
  BY <1>1, <1>3, WriteToken DEF SendWrite, ApiTyped
<1>5. PICK sent \in BOOLEAN :
          /\ link' = Append(link, [r |-> r, level |-> co[h].level, sent |-> sent])
          /\ \/ \E ok \in BOOLEAN : Answer(h, ok)
             \/ Goto(h, "missing") \/ Goto(h, "migrate")
  BY DEF SendWrite, Raise
<1>6. /\ Len(link') = t /\ link'[t].r = r /\ link'[t].level = co[h].level
      /\ \A i \in 1..Len(link) : link'[i] = link[i]
  <2> DEFINE l == [r |-> r, level |-> co[h].level, sent |-> sent]
  <2>1. l.r = r /\ l.level = co[h].level /\ link' = Append(link, l)
    BY <1>5
  <2> HIDE DEF l, r
  <2> QED
    BY <1>3, <2>1
<1>7. /\ co'[h].pc \in {"idle", "done", "failed", "missing", "migrate"}
      /\ co'[h].job # "execute" /\ \A g \in Handlers : g # h => co'[g] = co[g]
  <2> "missing" \in Steps /\ "migrate" \in Steps
    BY DEF Steps
  <2> QED
    BY <1>2, <1>5, GotoFields, AnswerFields DEF ApiTyped
<1>8. UNCHANGED <<signed, dismantled>>
  BY DEF SendWrite, history
<1> HIDE DEF r, t
<1>9. ASSUME NEW g \in Handlers
      PROVE  StepSafe(co[g])'
  <2>1. CASE g = h
    BY <1>7, <2>1 DEF StepSafe, OwnSteps
  <2>2. CASE g # h
    <3>1. StepSafe(co[g]) /\ co'[g] = co[g]
      BY <1>7, <2>2 DEF Safe
    <3>2. co[g].pc \in OwnSteps => co[g].r \in Requests /\ co[g].r # r
      BY <1>1, <1>2, <2>2, RequestOf DEF ApiTyped, Safe, OneOwner, Owns
    <3>3. co[g].pc = "cancel" => co[g].r \in Requests
      BY RequestOf DEF ApiTyped
    <3> QED
      BY <1>4, <1>8, <3>1, <3>2, <3>3 DEF StepSafe, OwnSteps, Signed
  <2> QED
    BY <2>1, <2>2
<1>10. ASSUME NEW q \in Requests
       PROVE  RequestSafe(q)'
  <2>1. RequestSafe(q)
    BY DEF Safe
  <2>2. CASE q = r
    <3>1. t \in 1..Len(link')
      BY <1>3, <1>6
    <3> QED
      BY <1>2, <1>4, <1>6, <1>8, <2>1, <2>2, <3>1 DEF RequestSafe, Signed
  <2>3. CASE q # r
    <3>1. \A i \in 1..Len(link) : i \in 1..Len(link')
      BY <1>3, <1>6 DEF t
    <3> QED
      BY <1>4, <1>6, <1>8, <2>1, <2>3, <3>1 DEF RequestSafe, Signed
  <2> QED
    BY <2>2, <2>3
<1>11. \A q \in dismantled' : (Signed(q, Levels) /\ req[q].status # "NONE")'
  BY <1>4, <1>8, DecidedSigned DEF Signed
<1>12. OneOwner'
  BY <1>7 DEF Safe, OneOwner, Owns, OwnSteps
<1>13. InOrder'
  BY <1>4 DEF Safe, InOrder
<1> QED
  BY <1>9, <1>10, <1>11, <1>12, <1>13 DEF Safe

-----------------------------------------------------------------------------
\* Reconciliations.

\* The rows in use are the first ones, so the next number is free.
LEMMA NextIsFree ==
    ASSUME ApiTyped, InOrder, NEW r \in Requests, r = Cardinality(Used) + 1
    PROVE  /\ req[r].status = "NONE"
           /\ \A q \in Requests : q < r => req[q].status # "NONE"
<1>1. Used \subseteq 1..MaxRequests /\ IsFiniteSet(1..MaxRequests) /\ IsFiniteSet(Used)
  <2>1. IsFiniteSet(1..MaxRequests)
    BY RemovalAssumption, FS_Interval
  <2> QED
    BY <2>1, FS_Subset DEF Used, Requests
<1> Cardinality(Used) \in Nat
  BY <1>1, FS_CardinalityType
<1>2. ASSUME req[r].status # "NONE"
      PROVE  FALSE
  <2>1. ASSUME NEW q \in 1..r
        PROVE  q \in Used
    <3>1. q \in Requests /\ (q = r \/ q < r)
      BY RemovalAssumption DEF Requests
    <3> QED
      BY <1>2, <3>1 DEF InOrder, Used
  <2>2. Cardinality(1..r) = r /\ r \in Nat
    BY FS_Interval DEF Requests
  <2>3. Cardinality(1..r) <= Cardinality(Used)
    <3>1. 1..r \in SUBSET Used
      BY <2>1
    <3> QED
      BY <1>1, <3>1, FS_Subset
  <2> QED
    BY <2>2, <2>3
<1>3. ASSUME NEW q \in Requests, q < r, req[q].status = "NONE"
      PROVE  FALSE
  <2>1. Used \subseteq 1..(q - 1)
    BY <1>3, RemovalAssumption DEF InOrder, Used, Requests
  <2>2. IsFiniteSet(1..(q - 1)) /\ Cardinality(1..(q - 1)) = q - 1
    <3>1. q \in Int /\ q >= 1 /\ q - 1 \in Int
      BY DEF Requests
    <3>2. IsFiniteSet(1..(q - 1))
      BY <3>1, FS_Interval
    <3>3. Cardinality(1..(q - 1)) = IF 1 > q - 1 THEN 0 ELSE (q - 1) - 1 + 1
      BY <3>1, FS_Interval
    <3> QED
      BY <3>1, <3>2, <3>3
  <2>3. Cardinality(Used) <= q - 1
    BY <2>1, <2>2, FS_Subset
  <2> QED
    BY <1>3, <2>3 DEF Requests
<1> QED
  BY <1>2, <1>3

LEMMA CreateSafe ==
    ASSUME ApiTyped, Safe, NEW h \in Handlers, Create(h)
    PROVE  Safe'
<1> DEFINE row == [NoRequest EXCEPT !.key = co[h].k, !.status = "PENDING"]
<1>1. PICK r \in Requests : /\ r = Cardinality(Used) + 1 /\ req' = [req EXCEPT ![r] = row]
                            /\ Becomes(h, [co[h] EXCEPT !.pc = "sendRead", !.r = r])
  BY DEF Create
<1>2. row.status = "PENDING" /\ row.token = 0 /\ row.level = 1
  BY DEF NoRequest
<1>3. req'[r] = row /\ \A q \in Requests : q # r => req'[q] = req[q]
  BY <1>1 DEF ApiTyped, RowsTyped
<1> HIDE DEF row
<1>4. req[r].status = "NONE" /\ \A q \in Requests : q < r => req[q].status # "NONE"
  BY <1>1, NextIsFree DEF Safe
<1>5. /\ co'[h].pc = "sendRead" /\ co'[h].r = r /\ co'[h].job # "execute"
      /\ \A g \in Handlers : g # h => co'[g] = co[g]
  <2>1. co[h].pc = "create" /\ co[h] \in Coroutines /\ StepTyped(co[h])
    BY CoOf DEF Create, At, ApiTyped
  <2>2. co[h].job # "execute"
    BY <2>1 DEF StepTyped
  <2> QED
    BY <1>1, <2>1, <2>2 DEF ApiTyped, CoTyped, Becomes, Coroutines
<1>6. UNCHANGED <<link, signed, dismantled>>
  BY DEF Create, history
<1>7. \A g \in Handlers : co[g].pc \in OwnSteps \cup {"cancel"}
                          => co[g].r \in Requests /\ co[g].r # r
  BY <1>4, RequestOf DEF ApiTyped, Safe, StepSafe
<1>8. ASSUME NEW g \in Handlers
      PROVE  StepSafe(co[g])'
  <2>1. CASE g = h
    BY <1>2, <1>3, <1>5, <2>1 DEF StepSafe
  <2>2. CASE g # h
    <3>1. StepSafe(co[g]) /\ co'[g] = co[g]
      BY <1>5, <2>2 DEF Safe
    <3> QED
      BY <1>3, <1>6, <1>7, <3>1 DEF StepSafe, OwnSteps, Signed
  <2> QED
    BY <2>1, <2>2
<1>9. ASSUME NEW q \in Requests
      PROVE  RequestSafe(q)'
  <2>1. RequestSafe(q)
    BY DEF Safe
  <2>2. CASE q = r
    <3>1. 1..(req'[r].level - 1) = {}
      BY <1>2, <1>3
    <3> QED
      BY <1>2, <1>3, <2>2, <3>1 DEF RequestSafe, Signed, Decided
  <2> QED
    BY <1>3, <1>6, <2>1, <2>2 DEF RequestSafe, Signed
<1>10. \A q \in dismantled' : (Signed(q, Levels) /\ req[q].status # "NONE")'
  BY <1>2, <1>3, <1>6, DecidedSigned DEF Signed
<1>11. OneOwner'
  BY <1>5, <1>7 DEF Safe, OneOwner, Owns
<1>12. InOrder'
  BY <1>3, <1>4 DEF Safe, InOrder, Requests
<1> QED
  BY <1>8, <1>9, <1>10, <1>11, <1>12 DEF Safe

LEMMA ExcludeSafe ==
    ASSUME ApiTyped, Safe, NEW h \in Handlers, Exclude(h)
    PROVE  Safe'
<1>1. co[h].pc = "exclude" /\ co[h] \in Coroutines /\ StepTyped(co[h])
  BY CoOf DEF Exclude, At, ApiTyped
<1>2. co[h].job = "reconcile"
  BY <1>1 DEF StepTyped, Coroutines, Jobs
<1>3. /\ co'[h].pc \in {"items", "list"} /\ co'[h].job = "reconcile"
      /\ \A g \in Handlers : g # h => co'[g] = co[g]
  <2>1. CASE Becomes(h, [co[h] EXCEPT !.pc = "items", !.todo = co[h].items])
    BY <1>1, <1>2, <2>1 DEF ApiTyped, CoTyped, Becomes, Coroutines
  <2>2. ASSUME NEW k \in co[h].todo,
               Becomes(h, [co[h] EXCEPT !.pc = "list", !.k = k, !.todo = @ \ {k}])
        PROVE  /\ co'[h].pc = "list" /\ co'[h].job = "reconcile"
               /\ \A g \in Handlers : g # h => co'[g] = co[g]
    BY <1>1, <1>2, <2>2 DEF ApiTyped, CoTyped, Becomes, Coroutines
  <2> QED
    BY <2>1, <2>2 DEF Exclude
<1>4. UNCHANGED <<link, signed, dismantled>>
  BY DEF Exclude, history
<1>5. \A r \in Requests : \/ req'[r] = req[r]
                          \/ /\ req[r].status = "PENDING"
                             /\ req'[r] = [req[r] EXCEPT !.status = "CANCELLED", !.token = 0]
  <2>1. CASE UNCHANGED req
    BY <2>1
  <2>2. CASE \E k \in co[h].todo :
             req' = [r \in Requests |-> IF r \in Of(k, "PENDING")
                         THEN [req[r] EXCEPT !.status = "CANCELLED", !.token = 0] ELSE req[r]]
    BY <2>2 DEF Of
  <2> QED
    BY <2>1, <2>2 DEF Exclude
<1>6. \A r \in Requests :
          /\ req'[r].level = req[r].level
          /\ req'[r].token = req[r].token \/ req'[r].token = 0
          /\ req'[r].status = "NONE" <=> req[r].status = "NONE"
          /\ req'[r].status \in Decided => Signed(r, Levels)
  <2> SUFFICES ASSUME NEW r \in Requests
               PROVE  /\ req'[r].level = req[r].level
                      /\ req'[r].token = req[r].token \/ req'[r].token = 0
                      /\ req'[r].status = "NONE" <=> req[r].status = "NONE"
                      /\ req'[r].status \in Decided => Signed(r, Levels)
    OBVIOUS
  <2>1. req[r] \in RequestRows
    BY DEF ApiTyped, RowsTyped
  <2>2. CASE req'[r] = req[r]
    BY <2>2, DecidedSigned
  <2>3. CASE /\ req[r].status = "PENDING"
             /\ req'[r] = [req[r] EXCEPT !.status = "CANCELLED", !.token = 0]
    BY <2>1, <2>3 DEF RequestRows, Decided
  <2> QED
    BY <1>5, <2>2, <2>3
<1>7. StepSafe(co[h])'
  BY <1>3 DEF StepSafe, OwnSteps
<1>8. \A g \in Handlers, r \in Requests : Owns(g, r)' => Owns(g, r)
  BY <1>3 DEF Owns, OwnSteps
<1> QED
  BY <1>3, <1>4, <1>6, <1>7, <1>8, DecidedSigned, CalmStep

LEMMA ItemsSafe ==
    ASSUME ApiTyped, Safe, NEW h \in Handlers, Items(h)
    PROVE  Safe'
<1>1. co[h].pc = "items" /\ co[h] \in Coroutines /\ StepTyped(co[h])
  BY CoOf DEF Items, At, ApiTyped
<1>2. co[h].job = "reconcile"
  BY <1>1 DEF StepTyped, Coroutines, Jobs
<1>3. /\ \/ co'[h].pc \in {"missing", "items"}
         \/ co'[h].pc = "cancel" /\ co'[h].r \in Requests /\ req[co'[h].r].status = "PENDING"
      /\ co'[h].job = "reconcile" /\ \A g \in Handlers : g # h => co'[g] = co[g]
  <2>1. CASE Becomes(h, [co[h] EXCEPT !.pc = "missing", !.todo = Active \ co[h].items])
    BY <1>1, <1>2, <2>1 DEF ApiTyped, CoTyped, Becomes, Coroutines
  <2>2. ASSUME NEW k \in co[h].todo, Becomes(h, [co[h] EXCEPT !.todo = @ \ {k}])
        PROVE  /\ co'[h].pc = "items" /\ co'[h].job = "reconcile"
               /\ \A g \in Handlers : g # h => co'[g] = co[g]
    BY <1>1, <1>2, <2>2 DEF ApiTyped, CoTyped, Becomes, Coroutines
  <2>3. ASSUME NEW k \in co[h].todo, NEW r \in Of(k, "PENDING"),
               Becomes(h, [co[h] EXCEPT !.pc = "cancel", !.r = r, !.todo = @ \ {k}])
        PROVE  /\ co'[h].pc = "cancel" /\ co'[h].r = r /\ co'[h].job = "reconcile"
               /\ \A g \in Handlers : g # h => co'[g] = co[g]
    BY <1>1, <1>2, <2>3 DEF ApiTyped, CoTyped, Becomes, Coroutines
  <2> QED
    BY <2>1, <2>2, <2>3 DEF Items, Of
<1>4. UNCHANGED <<req, link, signed, dismantled>>
  BY DEF Items, history
<1>5. StepSafe(co[h])'
  BY <1>3, <1>4 DEF StepSafe, OwnSteps
<1>6. \A g \in Handlers, r \in Requests : Owns(g, r)' => Owns(g, r)
  BY <1>3 DEF Owns, OwnSteps
<1> QED
  BY <1>3, <1>4, <1>5, <1>6, DecidedSigned, CalmStep

LEMMA CancelSafe ==
    ASSUME ApiTyped, Safe, NEW h \in Handlers, Cancel(h)
    PROVE  Safe'
<1>1. /\ co[h].pc = "cancel" /\ co[h].r \in Requests /\ StepSafe(co[h]) /\ StepTyped(co[h])
      /\ "items" \in Steps
  BY RequestOf, CoOf DEF Cancel, At, ApiTyped, Safe, Steps
<1>2. req[co[h].r].status # "NONE" /\ co[h].job # "execute"
  BY <1>1 DEF StepSafe, StepTyped
<1>3. /\ co'[h].pc = "items" /\ co'[h].job = co[h].job
      /\ \A g \in Handlers : g # h => co'[g] = co[g]
  BY <1>1, GotoFields DEF Cancel, ApiTyped
<1>4. /\ req'[co[h].r].status = "CANCELLED" /\ req'[co[h].r].level = req[co[h].r].level
      /\ req'[co[h].r].token = 0 /\ \A q \in Requests : q # co[h].r => req'[q] = req[q]
  BY <1>1, WriteCancelled DEF Cancel, ApiTyped
<1>5. UNCHANGED <<link, signed, dismantled>>
  BY DEF Cancel, history
<1>6. StepSafe(co[h])'
  BY <1>2, <1>3 DEF StepSafe, OwnSteps
<1>7. \A g \in Handlers, r \in Requests : Owns(g, r)' => Owns(g, r)
  BY <1>3 DEF Owns, OwnSteps
<1>8. "CANCELLED" \notin Decided
  BY DEF Decided
<1> QED
  BY <1>2, <1>3, <1>4, <1>5, <1>6, <1>7, <1>8, DecidedSigned, CalmStep

LEMMA ForgetSafe ==
    ASSUME ApiTyped, Safe, NEW h \in Handlers, Forget(h)
    PROVE  Safe'
<1>1. co[h].pc = "forget" /\ StepTyped(co[h]) /\ "exclude" \in Steps
  BY CoOf DEF Forget, At, ApiTyped, Steps
<1>2. /\ co'[h].pc = "exclude" /\ co'[h].job = co[h].job
      /\ \A g \in Handlers : g # h => co'[g] = co[g]
  BY <1>1, GotoFields DEF Forget, ApiTyped
<1>3. co[h].job # "execute" /\ UNCHANGED <<req, link, signed, dismantled>>
  BY <1>1 DEF StepTyped, Forget, history
<1> QED
  BY <1>2, <1>3, Passes DEF OwnSteps

LEMMA MissingSafe ==
    ASSUME ApiTyped, Safe, NEW h \in Handlers, Missing(h)
    PROVE  Safe'
<1>1. co[h].pc = "missing" /\ co[h] \in Coroutines /\ StepTyped(co[h])
  BY CoOf DEF Missing, At, ApiTyped
<1>2. co[h].job # "execute" /\ UNCHANGED <<req, link, signed, dismantled>>
  BY <1>1 DEF StepTyped, Missing, history
<1>3. CASE Answer(h, TRUE)
  BY <1>2, <1>3, AnswerSafe
<1>4. ASSUME NEW k \in co[h].todo, NEW p \in {"create", "missing"},
             Becomes(h, [co[h] EXCEPT !.k = k, !.todo = @ \ {k}, !.pc = p])
      PROVE  Safe'
  <2>1. /\ co'[h].pc = p /\ co'[h].job = co[h].job
        /\ \A g \in Handlers : g # h => co'[g] = co[g]
    BY <1>1, <1>4 DEF ApiTyped, CoTyped, Becomes, Coroutines
  <2> QED
    BY <1>2, <2>1, Passes DEF OwnSteps
<1> QED
  BY <1>3, <1>4 DEF Missing

LEMMA MigrateSafe ==
    ASSUME ApiTyped, Safe, NEW h \in Handlers, Migrate(h)
    PROVE  Safe'
<1>1. co[h].pc = "migrate" /\ co[h] \in Coroutines /\ StepTyped(co[h])
  BY CoOf DEF Migrate, At, ApiTyped
<1>2. co[h].job # "execute" /\ UNCHANGED <<req, link, signed, dismantled>>
  BY <1>1 DEF StepTyped, Migrate, history
<1>3. CASE \E ok \in BOOLEAN : Answer(h, ok)
  BY <1>2, <1>3, AnswerSafe
<1>4. ASSUME NEW k \in co[h].todo, Becomes(h, [co[h] EXCEPT !.todo = @ \ {k}])
      PROVE  Safe'
  <2>1. /\ co'[h].pc = "migrate" /\ co'[h].job = co[h].job
        /\ \A g \in Handlers : g # h => co'[g] = co[g]
    BY <1>1, <1>4 DEF ApiTyped, CoTyped, Becomes, Coroutines
  <2> QED
    BY <1>2, <2>1, Passes DEF OwnSteps
<1>5. CASE UNCHANGED co
  BY <1>1, <1>2, <1>5, Passes DEF OwnSteps
<1>6. ASSUME NEW k \in co[h].todo, NEW p \in {"create", "migrate"},
             Becomes(h, [co[h] EXCEPT !.k = k, !.todo = @ \ {k}, !.pc = p])
      PROVE  Safe'
  <2>1. /\ co'[h].pc = p /\ co'[h].job = co[h].job
        /\ \A g \in Handlers : g # h => co'[g] = co[g]
    BY <1>1, <1>6 DEF ApiTyped, CoTyped, Becomes, Coroutines
  <2> QED
    BY <1>2, <2>1, Passes DEF OwnSteps
<1> QED
  BY <1>3, <1>4, <1>5, <1>6 DEF Migrate, Raise

-----------------------------------------------------------------------------
\* Removals.

\* A step of a removal, in whichever job it is called.
LEMMA RemovalStepSafe ==
    ASSUME ApiTyped, Safe, NEW h \in Handlers,
           co[h].pc \in {"list", "unassign", "dropRole", "orphans", "askDelete", "shadows"},
           \A g \in Handlers : g # h => co'[g] = co[g],
           co'[h].pc \in {"unassign", "dropRole", "forget", "orphans", "askDelete", "shadows",
                          "complete", "fail"},
           co'[h].job = co[h].job, co'[h].r = co[h].r,
           UNCHANGED <<req, link, signed, dismantled>>
    PROVE  Safe'
<1>1. co[h].job = "execute" => co[h].r \in dismantled
  BY DEF Safe, StepSafe
<1> QED
  BY <1>1, Passes DEF OwnSteps

LEMMA CleanupFailsSafe ==
    ASSUME ApiTyped, Safe, NEW h \in Handlers, CleanupFails(h)
    PROVE  Safe'
<1>1. UNCHANGED <<req, link, signed, dismantled>> /\ "fail" \in Steps
  BY DEF CleanupFails, tables, history, Steps
<1>2. CASE Raise(h)
  BY <1>1, <1>2, AnswerSafe DEF Raise
<1>3. CASE Goto(h, "fail")
  <2>1. /\ co'[h].pc = "fail" /\ co'[h].job = co[h].job /\ co'[h].r = co[h].r
        /\ \A g \in Handlers : g # h => co'[g] = co[g]
    BY <1>1, <1>3, GotoFields DEF ApiTyped
  <2> QED
    BY <1>1, <2>1, RemovalStepSafe DEF CleanupFails
<1> QED
  BY <1>2, <1>3 DEF CleanupFails

LEMMA ListHoldersSafe ==
    ASSUME ApiTyped, Safe, NEW h \in Handlers, ListHolders(h)
    PROVE  Safe'
<1>1. co[h].pc = "list" /\ co[h] \in Coroutines
  BY CoOf DEF ListHolders, At, ApiTyped
<1>2. AfterRemoval(h) \in {"forget", "complete", "orphans"}
  BY DEF AfterRemoval
<1>3. /\ co'[h].pc \in {"unassign", AfterRemoval(h)}
      /\ co'[h].job = co[h].job /\ co'[h].r = co[h].r
      /\ \A g \in Handlers : g # h => co'[g] = co[g]
  BY <1>1 DEF ListHolders, ApiTyped, CoTyped, Becomes, Coroutines
<1>4. UNCHANGED <<req, link, signed, dismantled>>
  BY DEF ListHolders, tables, history
<1> QED
  BY <1>1, <1>2, <1>3, <1>4, RemovalStepSafe

LEMMA UnassignSafe ==
    ASSUME ApiTyped, Safe, NEW h \in Handlers, Unassign(h)
    PROVE  Safe'
<1>1. co[h].pc = "unassign" /\ co[h] \in Coroutines
  BY CoOf DEF Unassign, At, ApiTyped
<1>2. /\ co'[h].pc \in {"unassign", "dropRole"}
      /\ co'[h].job = co[h].job /\ co'[h].r = co[h].r
      /\ \A g \in Handlers : g # h => co'[g] = co[g]
  <2>1. CASE Goto(h, "dropRole")
    BY <2>1, GotoFields DEF ApiTyped, Steps
  <2>2. ASSUME NEW U, NEW A, Becomes(h, [co[h] EXCEPT !.users = U, !.affected = A])
        PROVE  /\ co'[h].pc = "unassign" /\ co'[h].job = co[h].job /\ co'[h].r = co[h].r
               /\ \A g \in Handlers : g # h => co'[g] = co[g]
    BY <1>1, <2>2 DEF ApiTyped, CoTyped, Becomes, Coroutines
  <2> QED
    BY <2>1, <2>2 DEF Unassign
<1>3. UNCHANGED <<req, link, signed, dismantled>>
  BY DEF Unassign, tables
<1> QED
  BY <1>1, <1>2, <1>3, RemovalStepSafe

LEMMA DropRoleSafe ==
    ASSUME ApiTyped, Safe, NEW h \in Handlers, DropRole(h)
    PROVE  Safe'
<1>1. /\ co[h].pc = "dropRole" /\ AfterRemoval(h) \in Steps
      /\ AfterRemoval(h) \in {"forget", "complete", "orphans"}
  BY AfterRemovalIs DEF DropRole, At, AfterRemoval
<1>2. /\ co'[h].pc = AfterRemoval(h) /\ co'[h].job = co[h].job /\ co'[h].r = co[h].r
      /\ \A g \in Handlers : g # h => co'[g] = co[g]
  BY <1>1, GotoFields DEF DropRole, ApiTyped
<1>3. UNCHANGED <<req, link, signed, dismantled>>
  BY DEF DropRole, tables, history
<1> QED
  BY <1>1, <1>2, <1>3, RemovalStepSafe

LEMMA OrphansSafe ==
    ASSUME ApiTyped, Safe, NEW h \in Handlers, Orphans(h)
    PROVE  Safe'
<1>1. co[h].pc = "orphans" /\ co[h] \in Coroutines
  BY CoOf DEF Orphans, At, ApiTyped
<1>2. /\ co'[h].pc = "askDelete" /\ co'[h].job = co[h].job /\ co'[h].r = co[h].r
      /\ \A g \in Handlers : g # h => co'[g] = co[g]
  BY <1>1 DEF Orphans, ApiTyped, CoTyped, Becomes, Coroutines
<1>3. UNCHANGED <<req, link, signed, dismantled>>
  BY DEF Orphans, tables, history
<1> QED
  BY <1>1, <1>2, <1>3, RemovalStepSafe

LEMMA AskDeleteSafe ==
    ASSUME ApiTyped, Safe, NEW h \in Handlers, AskDelete(h)
    PROVE  Safe'
<1>1. co[h].pc = "askDelete" /\ co[h] \in Coroutines
  BY CoOf DEF AskDelete, At, ApiTyped
<1>2. /\ co'[h].pc \in {"askDelete", "shadows"}
      /\ co'[h].job = co[h].job /\ co'[h].r = co[h].r
      /\ \A g \in Handlers : g # h => co'[g] = co[g]
  BY <1>1 DEF AskDelete, ApiTyped, CoTyped, Goto, Becomes, Coroutines
<1>3. UNCHANGED <<req, link, signed, dismantled>>
  BY DEF AskDelete, tables, history
<1> QED
  BY <1>1, <1>2, <1>3, RemovalStepSafe

LEMMA DeleteShadowsSafe ==
    ASSUME ApiTyped, Safe, NEW h \in Handlers, DeleteShadows(h)
    PROVE  Safe'
<1>1. co[h].pc = "shadows" /\ "complete" \in Steps
  BY DEF DeleteShadows, At, Steps
<1>2. /\ co'[h].pc = "complete" /\ co'[h].job = co[h].job /\ co'[h].r = co[h].r
      /\ \A g \in Handlers : g # h => co'[g] = co[g]
  BY <1>1, GotoFields DEF DeleteShadows, ApiTyped
<1>3. UNCHANGED <<req, link, signed, dismantled>>
  BY DEF DeleteShadows, tables, history
<1> QED
  BY <1>1, <1>2, <1>3, RemovalStepSafe

\* The removal of a role begins with an approved request, which every level signed.
LEMMA PickSafe ==
    ASSUME ApiTyped, Safe, NEW h \in Handlers, Pick(h)
    PROVE  Safe'
<1>1. co[h].pc = "pick" /\ co[h] \in Coroutines /\ StepTyped(co[h])
  BY CoOf DEF Pick, At, ApiTyped
<1>2. co[h].job = "execute" /\ co[h].todo \subseteq Requests
  BY <1>1 DEF StepTyped, Coroutines, Jobs
<1>3. UNCHANGED <<link, signed>>
  BY DEF Pick
<1>4. ASSUME NEW r \in co[h].todo, Becomes(h, [co[h] EXCEPT !.todo = @ \ {r}])
      PROVE  /\ co'[h].pc = "pick" /\ \A g \in Handlers : g # h => co'[g] = co[g]
             /\ StepSafe(co[h])' /\ \A g \in Handlers, q \in Requests : Owns(g, q)' => Owns(g, q)
  <2>1. co'[h].pc = "pick" /\ \A g \in Handlers : g # h => co'[g] = co[g]
    BY <1>1, <1>4 DEF ApiTyped, CoTyped, Becomes, Coroutines
  <2>2. StepSafe(co[h])'
    BY <2>1 DEF StepSafe, OwnSteps
  <2>3. \A g \in Handlers, q \in Requests : Owns(g, q)' => Owns(g, q)
    BY <2>1 DEF Owns, OwnSteps
  <2> QED
    BY <2>1, <2>2, <2>3
<1>5. CASE Answer(h, TRUE) /\ UNCHANGED <<req, dismantled, revoked>>
  BY <1>3, <1>5, AnswerSafe
<1>6. ASSUME NEW r \in co[h].todo, Becomes(h, [co[h] EXCEPT !.todo = @ \ {r}]),
             UNCHANGED <<req, dismantled, revoked>>
      PROVE  Safe'
  <2>1. /\ co'[h].pc = "pick" /\ \A g \in Handlers : g # h => co'[g] = co[g]
    BY <1>4, <1>6
  <2> QED
    BY <1>3, <1>6, <2>1, Passes DEF OwnSteps
<1>7. ASSUME NEW r \in co[h].todo, req[r].status = "APPROVED",
             req' = [req EXCEPT ![r].status = "CANCELLED"],
             Becomes(h, [co[h] EXCEPT !.todo = @ \ {r}]), UNCHANGED dismantled
      PROVE  Safe'
  <2>1. /\ req'[r].status = "CANCELLED" /\ req'[r].level = req[r].level
        /\ req'[r].token = req[r].token /\ \A q \in Requests : q # r => req'[q] = req[q]
    BY <1>2, <1>7, WriteStatus DEF ApiTyped, Statuses
  <2>2. "CANCELLED" \notin Decided
    BY DEF Decided
  <2>3. /\ StepSafe(co[h])' /\ \A g \in Handlers : g # h => co'[g] = co[g]
        /\ \A g \in Handlers, q \in Requests : Owns(g, q)' => Owns(g, q)
    BY <1>4, <1>7
  <2> QED
    BY <1>3, <1>7, <2>1, <2>2, <2>3, DecidedSigned, CalmStep
<1>8. ASSUME NEW r \in co[h].todo, req[r].status = "APPROVED",
             dismantled' = dismantled \cup {r},
             Becomes(h, [co[h] EXCEPT !.pc = "list", !.todo = @ \ {r}, !.r = r, !.k = req[r].key,
                                      !.affected = {}, !.items = Present]),
             UNCHANGED <<req, revoked>>
      PROVE  Safe'
  <2>1. r \in Requests /\ Signed(r, Levels)
    BY <1>2, <1>8, DecidedSigned DEF Decided
  <2>2. /\ co'[h].pc = "list" /\ co'[h].r = r /\ \A g \in Handlers : g # h => co'[g] = co[g]
    BY <1>1, <1>8 DEF ApiTyped, CoTyped, Becomes, Coroutines
  <2>3. StepSafe(co[h])'
    BY <1>8, <2>2 DEF StepSafe, OwnSteps
  <2>4. \A g \in Handlers, q \in Requests : Owns(g, q)' => Owns(g, q)
    BY <2>2 DEF Owns, OwnSteps
  <2>5. \A q \in dismantled' : q \in Requests /\ Signed(q, Levels) /\ req[q].status # "NONE"
    BY <1>8, <2>1, DecidedSigned
  <2> QED
    BY <1>3, <1>8, <2>2, <2>3, <2>4, <2>5, DecidedSigned, CalmStep
<1> QED
  BY <1>5, <1>6, <1>7, <1>8 DEF Pick

LEMMA ConcludeSafe ==
    ASSUME ApiTyped, Safe, NEW h \in Handlers, Conclude(h)
    PROVE  Safe'
<1> DEFINE s == IF At(h, "complete") THEN "COMPLETED" ELSE "FAILED"
<1>1. /\ co[h].pc \in {"complete", "fail"} /\ StepTyped(co[h]) /\ StepSafe(co[h])
      /\ co[h] \in Coroutines /\ "pick" \in Steps
  BY CoOf DEF Conclude, ApiTyped, Safe, Steps
<1>2. co[h].job = "execute" /\ co[h].r \in Requests
  BY <1>1 DEF StepTyped, Coroutines, Jobs
<1>3. Signed(co[h].r, Levels) /\ req[co[h].r].status # "NONE"
  BY <1>1, <1>2, DecidedSigned DEF StepSafe
<1>4. s \in Statuses /\ s # "NONE"
  BY DEF Statuses
<1>5. /\ req'[co[h].r].status = s /\ req'[co[h].r].level = req[co[h].r].level
      /\ req'[co[h].r].token = req[co[h].r].token
      /\ \A q \in Requests : q # co[h].r => req'[q] = req[q]
  <2>1. req' = [req EXCEPT ![co[h].r].status = s]
    BY DEF Conclude
  <2> HIDE DEF s
  <2> QED
    BY <1>2, <1>4, <2>1, WriteStatus DEF ApiTyped
<1>6. co'[h].pc = "pick" /\ \A g \in Handlers : g # h => co'[g] = co[g]
  BY <1>1, GotoFields DEF Conclude, ApiTyped
<1>7. UNCHANGED <<link, signed, dismantled>>
  BY DEF Conclude, history
<1>8. StepSafe(co[h])'
  BY <1>6 DEF StepSafe, OwnSteps
<1>9. \A g \in Handlers, r \in Requests : Owns(g, r)' => Owns(g, r)
  BY <1>6 DEF Owns, OwnSteps
<1> HIDE DEF s
<1> QED
  BY <1>3, <1>4, <1>5, <1>6, <1>7, <1>8, <1>9, DecidedSigned, CalmStep

LEMMA ApiStepSafe ==
    ASSUME ApiTyped, Safe, NEW h \in Handlers, ApiStep(h)
    PROVE  Safe'
  BY ClearLinkSafe, RecordSafe, SendReadSafe, SendWriteSafe, ExcludeSafe, ForgetSafe, ItemsSafe,
     CancelSafe, MissingSafe, CreateSafe, MigrateSafe, CleanupFailsSafe, ListHoldersSafe,
     UnassignSafe, DropRoleSafe, PickSafe, OrphansSafe, AskDeleteSafe, DeleteShadowsSafe,
     ConcludeSafe
  DEF ApiStep

-----------------------------------------------------------------------------
\* People, the worker and the deployment.

\* A step that leaves the coroutines alone.
LEMMA Untouched ==
    ASSUME ApiTyped, Safe, UNCHANGED <<req, link, signed, dismantled, co>>
    PROVE  Safe'
<1>1. \A g \in Handlers, r \in Requests : Owns(g, r)' => Owns(g, r)
  BY DEF Owns
<1> QED
  BY <1>1, DecidedSigned, CalmStep

LEMMA PeopleSafe ==
    ASSUME ApiTyped, Safe, ~May("double"), People
    PROVE  Safe'
<1>1. ASSUME NEW t \in 1..Len(link), Expire(t)
      PROVE  Safe'
  BY <1>1, Untouched DEF Expire, tables, history
<1>2. ASSUME NEW k \in Keys, NEW what \in {"entitlement", "login", "absent"},
             ChangeTarget(k, what)
      PROVE  Safe'
  BY <1>2, Untouched DEF ChangeTarget, tables, history
<1> QED
  BY <1>1, <1>2, ClickSafe, RenewSafe DEF People

\* A call the API takes up, or an answer that is read.
LEMMA CallSafe ==
    ASSUME ApiTyped, Safe, NEW h \in Handlers, Around(h)
    PROVE  Safe'
<1>1. /\ co'[h].pc \in {"idle", "pick", "exclude", "migrate"}
      /\ co'[h].job = "execute" => co'[h].pc = "pick"
      /\ \A g \in Handlers : g # h => co'[g] = co[g]
  <2>1. CASE BeginCycle(h)
    BY <2>1 DEF BeginCycle, ProcessApproved, Call, ApiTyped, CoTyped, Becomes, Idle
  <2>2. CASE ExecutionReturns(h) \/ Save(h) \/ DeployReturns(h)
    BY <2>2
    DEF ExecutionReturns, Save, DeployReturns, ApiTyped, CoTyped, Becomes, Idle
  <2>3. CASE Post(h)
    BY <2>3 DEF Post, Reconcile, Call, ApiTyped, CoTyped, Becomes, Idle
  <2>4. CASE DeployCall(h)
    <3>1. CASE Reconcile(h, "ansible", deploy.items, Login \ deploy.items, {})
      BY <3>1 DEF Reconcile, Call, ApiTyped, CoTyped, Becomes, Idle
    <3>2. CASE RegisterLegacy(h, deploy.items)
      BY <3>2 DEF RegisterLegacy, Call, ApiTyped, CoTyped, Becomes, Idle
    <3> QED
      BY <2>4, <3>1, <3>2 DEF DeployCall
  <2> QED
    BY <2>1, <2>2, <2>3, <2>4 DEF Around
<1>2. UNCHANGED <<req, link, signed, dismantled>>
  BY DEF Around, BeginCycle, ExecutionReturns, Post, Save, DeployCall, DeployReturns, outside,
     tables, history
<1> QED
  BY <1>1, <1>2, Passes DEF OwnSteps

LEMMA WorkerSafe ==
    ASSUME ApiTyped, Safe, Discover \/ Upsert \/ DeployRoles
    PROVE  Safe'
<1>1. UNCHANGED <<req, link, signed, dismantled, co>>
  BY DEF Discover, Upsert, DeployRoles, outside, tables, history
<1> QED
  BY <1>1, Untouched

\* The coroutines go on for nobody, or are lost.
LEMMA BreakSafe ==
    ASSUME ApiTyped, Safe, Abandon \/ Crash
    PROVE  Safe'
<1>1. UNCHANGED <<req, link, signed, dismantled>>
  BY DEF Abandon, Crash, ApiCrash, outside, tables, history
<1>2. ASSUME NEW g \in Handlers
      PROVE  \/ co'[g].pc = co[g].pc /\ co'[g].job = co[g].job /\ co'[g].r = co[g].r
                /\ co'[g].level = co[g].level /\ co'[g].yes = co[g].yes
             \/ co'[g].pc \in {"idle", "done", "failed"} /\ co'[g].job = "none"
  <2>1. co[g] \in Coroutines
    BY CoOf DEF ApiTyped
  <2>2. CASE Abandon
    <3>1. co'[g] = Idle \/ co'[g] = co[g] \/ co'[g] = [co[g] EXCEPT !.caller = "people"]
      BY <2>2 DEF Abandon
    <3> QED
      BY <2>1, <3>1 DEF Idle, Coroutines
  <2>3. CASE Crash
    <3>1. co'[g] = co[g] \/ co'[g] = Reply(co[g], FALSE)
      BY <2>3 DEF Crash, ApiCrash
    <3> QED
      BY <2>1, <3>1, ReplyTyped
  <2> QED
    BY <2>2, <2>3
<1>3. ASSUME NEW g \in Handlers
      PROVE  StepSafe(co[g])'
  <2>1. CASE co'[g].pc \in {"idle", "done", "failed"} /\ co'[g].job = "none"
    BY <2>1 DEF StepSafe, OwnSteps
  <2>2. CASE /\ co'[g].pc = co[g].pc /\ co'[g].job = co[g].job /\ co'[g].r = co[g].r
             /\ co'[g].level = co[g].level /\ co'[g].yes = co[g].yes
    <3>1. StepSafe(co[g])
      BY DEF Safe
    <3> QED
      BY <1>1, <2>2, <3>1 DEF StepSafe, Signed
  <2> QED
    BY <1>2, <2>1, <2>2
<1>4. \A g \in Handlers, r \in Requests : Owns(g, r)' => Owns(g, r)
  BY <1>2 DEF Owns, OwnSteps
<1> QED
  BY <1>1, <1>3, <1>4, DecidedSigned, CalmStep

-----------------------------------------------------------------------------
LEMMA InitSafe ==
    ASSUME SyncInit
    PROVE  Safe
<1>1. co = [h \in Handlers |-> Idle] /\ Idle.pc = "idle" /\ Idle.job = "none"
  BY DEF SyncInit, RemovalInit, Idle
<1>2. /\ \A r \in Requests : req[r].status = "NONE" /\ req[r].token = 0 /\ req[r].level = 1
      /\ dismantled = {}
  BY DEF SyncInit, RemovalInit, NoRequest
<1>3. \A h \in Handlers : StepSafe(co[h])
  BY <1>1 DEF StepSafe, OwnSteps
<1>4. \A r \in Requests : RequestSafe(r)
  BY <1>2 DEF RequestSafe, Signed, Decided
<1>5. OneOwner /\ InOrder
  BY <1>1, <1>2 DEF OneOwner, InOrder, Owns, OwnSteps
<1> QED
  BY <1>2, <1>3, <1>4, <1>5 DEF Safe

\* What may go wrong in a behaviour is settled when it begins.
LEMMA FaultsStay ==
    ASSUME [SyncNext]_vars
    PROVE  faults' = faults
<1>1. ASSUME NEW h \in Handlers, ApiStep(h)
      PROVE  faults' = faults
  BY <1>1 DEF ApiStep, ClearLink, Record, SendRead, SendWrite, Exclude, Forget, Items, Cancel,
     Missing, Create, Migrate, CleanupFails, ListHolders, Unassign, DropRole, Pick, Orphans,
     AskDelete, DeleteShadows, Conclude, world
<1>2. ASSUME People
      PROVE  faults' = faults
  BY <1>2 DEF People, Click, Renew, Expire, ChangeTarget, world
<1>3. ASSUME NEW h \in Handlers, Around(h)
      PROVE  faults' = faults
  BY <1>3 DEF Around, BeginCycle, ExecutionReturns, Post, Save, DeployCall, DeployReturns, outside,
     world
<1>4. ASSUME Discover \/ Upsert \/ DeployRoles \/ Abandon \/ Crash
      PROVE  faults' = faults
  BY <1>4 DEF Discover, Upsert, DeployRoles, Abandon, Crash, ApiCrash, outside, world
<1> QED
  BY <1>1, <1>2, <1>3, <1>4 DEF SyncNext, vars, removalVars, world

LEMMA NextSafe ==
    ASSUME TypeInv, SafeInv, [SyncNext]_vars
    PROVE  SafeInv'
<1> SUFFICES ASSUME ~May("double"), Safe
             PROVE  Safe'
  BY FaultsStay DEF SafeInv, May
<1>1. ApiTyped
  BY DEF TypeInv
<1>2. CASE \E h \in Handlers : ApiStep(h)
  BY <1>1, <1>2, ApiStepSafe
<1>3. CASE People
  BY <1>1, <1>3, PeopleSafe
<1>4. CASE \E h \in Handlers : Around(h)
  BY <1>1, <1>4, CallSafe
<1>5. CASE Discover \/ Upsert \/ DeployRoles
  BY <1>1, <1>5, WorkerSafe
<1>6. CASE Abandon \/ Crash
  BY <1>1, <1>6, BreakSafe
<1>7. CASE UNCHANGED vars
  BY <1>1, <1>7, Untouched DEF vars, removalVars, tables, history
<1> QED
  BY <1>2, <1>3, <1>4, <1>5, <1>6, <1>7 DEF SyncNext

\* No role is removed from MidPoint on behalf of a request, and none is recorded
\* as approved, completed or failed, before the approver of every level has
\* answered yes through the link mailed to that level: for any length of the
\* chain, any number of requests served at once, crashes, lost mails and
\* deployments, as long as answers are not served at the same time.
THEOREM LevelsSigned == SyncSpec => []EveryLevelSigned
<1>1. SyncInit => SafeInv
  BY InitSafe DEF SafeInv
<1>2. TypeInv /\ SafeInv /\ [SyncNext]_vars => SafeInv'
  BY NextSafe
<1>3. TypeInv /\ SafeInv => EveryLevelSigned
  <2> SUFFICES ASSUME TypeInv, Safe
               PROVE  /\ \A r \in Requests : req[r].status \in Decided => signed[r] = Chain
                      /\ \A r \in dismantled : signed[r] = Chain
    BY DEF SafeInv, EveryLevelSigned, Decided
  <2>1. \A r \in Requests : Signed(r, Levels) => signed[r] = Chain
    BY DEF Signed, Chain, TypeInv, ApiTyped, HistoryTyped
  <2> QED
    BY <2>1, DecidedSigned DEF TypeInv
<1> QED
  BY <1>1, <1>2, <1>3, TypesStay, PTL DEF SyncSpec
===============================================================================
