------------------------------- MODULE Console ------------------------------
(***************************************************************************)
(* The admin console against the gateway: the recorders' newest-first      *)
(* logs, the routes that page through them, and the browser script that    *)
(* refreshes a list, loads more of it, filters it, signs in and out.       *)
(*                                                                         *)
(* A behaviour follows one list page (view) on one kind of storage; the    *)
(* three logs are independent.  Fetches overlap, fail, and are answered    *)
(* and applied in any order.                                               *)
(*                                                                         *)
(* An entry keeps its identity, its time and one class, the value a list's *)
(* filter is about (outcome of a request or of an audit entry, level of a  *)
(* health event); the other filters work alike.  The clock counts hours.   *)
(* Left out: other tabs of the browser, which share its localStorage; the  *)
(* statistics beside a list; and the pages of keys, pools and settings,    *)
(* which only show what GET /admin/api/state returned.                     *)
(***************************************************************************)
EXTENDS Integers, Sequences, FiniteSets

CONSTANTS
  Settings,    \* what behaviours follow: a view on a kind of storage and the
               \* pages visited, with bounds on entries, ticks, list fetches
               \* and state fetches
  Classes,     \* what an entry can be filtered by
  AnyClass,    \* no filter
  Choices,     \* classes a user filters by
  Tokens,      \* tokens an administrator may type
  Valid,       \* the one the server accepts
  NoToken,     \* localStorage holds none
  Cap,         \* records a recorder in memory keeps
  PageSize,    \* limit=50 of a list
  StateSize,   \* audit entries GET /admin/api/state returns
  MaxInFlight  \* bound: fetches in flight that a user adds to

ASSUME ConsoleAssumption ==
  /\ Settings \subseteq
       [view : {"requests", "health", "audit"}, storage : {"memory", "sqlite"},
        routes : SUBSET {"home", "usage", "list"},
        entries : Nat, time : Nat, reads : Nat, loads : Nat]
  /\ AnyClass \notin Classes /\ Choices \subseteq Classes \cup {AnyClass}
  /\ Valid \in Tokens /\ NoToken \notin Tokens
  /\ {Cap, PageSize, StateSize} \subseteq Nat \ {0}
  /\ MaxInFlight \in Nat

VARIABLES
  \* the server
  setting,   \* one of Settings, fixed
  log,       \* entries the recorder holds, newest first
  recorded,  \* entries recorded so far, the id of the newest one
  now,
  \* the browser tab
  token,     \* localStorage
  overlay,   \* the sign-in form covers the page
  route,     \* "home", "usage" or "list", the page that shows the view
  filter,    \* the class and the range chosen on the page
  older,     \* rows the page shows first: on the audit page a refresh that is
             \* clicked leaves them there
  items,     \* rows after them: what the last refresh and the pages loaded
             \* since have brought
  page,      \* page of the last list answer
  fetches,   \* requests in flight
  \* history and bounds
  coherent,  \* the last refresh arrived, and no fetch of the list was in
             \* flight with it or with one of the pages loaded since
  answers,   \* the query and the newest id the shown list answers
  raced,     \* two sign-ins have been in flight together
  reads, loads

server  == <<setting, log, recorded, now>>
list    == <<older, items, page, coherent, answers>>
session == <<token, overlay, raced>>
bounds  == <<reads, loads>>
vars    == <<server, list, session, route, filter, fetches, bounds>>

view    == setting.view
storage == setting.storage

-----------------------------------------------------------------------------
(* Recorders and pagination                                                 *)

Entry(c) == [id |-> recorded + 1, class |-> c, at |-> now]

\* slice() of an array, whose end may lie beyond the array.
Slice(s, first, last) ==
  SubSeq(s, first, IF last < Len(s) THEN last ELSE Len(s))

\* Mutant: the array is truncated one entry late.
RecordedTooMany(records, e) == Slice(<<e>> \o records, 1, Cap + 1)

\* A recorder in memory puts the entry first and truncates the array.
Recorded(records, e) == Slice(<<e>> \o records, 1, Cap)

\* A row is inserted, and never deleted.
Inserted(rows, e) == <<e>> \o rows

Held == {log[i] : i \in DOMAIN log}

OfClass(e, q) == q.class \in {AnyClass, e.class}

\* Mutant: the filter is left out.
MatchesSince(e, q) == e.at >= q.since

UsageMatches(e, q) == OfClass(e, q) /\ e.at >= q.since

HealthMatches(e, q) == OfClass(e, q) /\ e.at >= q.since

AuditMatches(e, q) == OfClass(e, q)

\* The WHERE clauses filter by column and leave since out.
RowMatches(e, q) == OfClass(e, q)

Matches(e, q) ==
  CASE storage = "sqlite" -> RowMatches(e, q)
    [] view = "requests"  -> UsageMatches(e, q)
    [] view = "health"    -> HealthMatches(e, q)
    [] OTHER              -> AuditMatches(e, q)

\* filter(): the entries of s that belong to wanted, in their order.
Filtered(s, wanted) ==
  LET first[n \in 0 .. Len(s)] ==
        IF n = 0 THEN <<>>
        ELSE IF s[n] \in wanted THEN Append(first[n - 1], s[n])
                                ELSE first[n - 1]
  IN  first[Len(s)]

Matching(q) == Filtered(log, {e \in Held : Matches(e, q)})

\* No page information (null), and that of a last page.
NoPage   == [hasMore |-> FALSE, next |-> 0, known |-> FALSE]
LastPage == [hasMore |-> FALSE, next |-> 0, known |-> TRUE]

\* Mutant: the entry read beyond the page is counted as shown.
PageInfoPast(found, offset) ==
  IF Len(found) > PageSize
  THEN [hasMore |-> TRUE, next |-> offset + Len(found), known |-> TRUE]
  ELSE LastPage

\* found holds up to PageSize + 1 entries from offset on; cursor 0 is none.
PageInfo(found, offset) ==
  IF Len(found) > PageSize
  THEN [hasMore |-> TRUE, next |-> offset + PageSize, known |-> TRUE]
  ELSE LastPage

\* Mutant: nothing is read beyond the page.
WindowOfPage(q, offset) == Slice(Matching(q), offset + 1, offset + PageSize)

Window(q, offset) == Slice(Matching(q), offset + 1, offset + PageSize + 1)

PageItems(found) == Slice(found, 1, PageSize)

-----------------------------------------------------------------------------
(* The query strings                                                        *)

\* A tick puts what was recorded before it out of the range "1h".
Since(range) == IF range = "1h" THEN now ELSE 0

RequestsQuery(chosen) == [class |-> chosen.class, since |-> Since(chosen.range)]
HealthQuery(chosen)   == [class |-> chosen.class, since |-> Since(chosen.range)]
AuditQuery(chosen)    == [class |-> chosen.class, since |-> 0]

Query(chosen) == CASE view = "requests" -> RequestsQuery(chosen)
                   [] view = "health"   -> HealthQuery(chosen)
                   [] OTHER             -> AuditQuery(chosen)

Unfiltered == [class |-> AnyClass, since |-> 0]

-----------------------------------------------------------------------------
(* Fetches                                                                  *)

ListKinds  == {"replace", "append"}
SignIns    == {"init", "submit"}
Loads      == SignIns \cup {"reload"}

\* On the audit page a state fetch replaces the list, too.
ForList(kind) == kind \in ListKinds \/ view = "audit"

\* alone and asOf are history: no other fetch of the list was in flight with
\* this one; the newest entry when the server read the page.
Request(id, kind, cursor, query, tok) ==
  [id |-> id, kind |-> kind, token |-> tok, query |-> query, cursor |-> cursor,
   phase |-> "sent", items |-> <<>>, page |-> NoPage, asOf |-> 0,
   alone |-> TRUE]

\* requestJson takes the token when the fetch is sent.
Sent(others, kind, cursor, query, tok) ==
  LET clash == {g \in others : ForList(kind) /\ ForList(g.kind)}
      f     == Request(reads + loads + 1, kind, cursor, query, tok)
  IN  (others \ clash) \cup {[g EXCEPT !.alone = FALSE] : g \in clash}
        \cup {[f EXCEPT !.alone = (clash = {})]}

Init ==
  /\ setting \in Settings
  /\ log = <<>> /\ recorded = 0 /\ now = 0
  /\ token \in Tokens \cup {NoToken} /\ overlay = TRUE
  /\ route \in setting.routes
  /\ filter = [class |-> AnyClass, range |-> "all"]
  /\ older = <<>> /\ items = <<>> /\ page = NoPage
  /\ coherent = FALSE
  /\ answers = [first |-> Unfiltered, last |-> Unfiltered, asOf |-> 0]
  /\ raced = FALSE
  /\ reads = 0
  \* the script asks for the state at once when it finds a token
  /\ IF token = NoToken
     THEN loads = 0 /\ fetches = {}
     ELSE /\ loads = 1
          /\ fetches = {Request(1, "init", 0, Unfiltered, token)}

-----------------------------------------------------------------------------
(* The server                                                               *)

Tick == /\ now < setting.time
        /\ now' = now + 1
        /\ UNCHANGED <<setting, log, recorded, list, session, route,
                       filter, fetches, bounds>>

Record(c) ==
  /\ recorded < setting.entries
  /\ recorded' = recorded + 1
  /\ log' = IF storage = "memory" THEN Recorded(log, Entry(c))
                                  ELSE Inserted(log, Entry(c))
  /\ UNCHANGED <<setting, now, list, session, route, filter, fetches,
                 bounds>>

Step(f, g) ==
  /\ fetches' = (fetches \ {f}) \cup {g}
  /\ UNCHANGED <<server, list, session, route, filter, bounds>>

\* The preHandler hook lets a request with the token through.
Authorized(f) == f.token = Valid

\* Mutant: the hook ends without a reply.
RefuseSilently(f) == FALSE

Refuse(f) == /\ f.phase = "sent" /\ ~Authorized(f)
             /\ Step(f, [f EXCEPT !.phase = "failed"])

\* A connection lost, a storage error: the script cannot tell them apart.
Lose(f) == f.phase = "sent" /\ Step(f, [f EXCEPT !.phase = "failed"])

ReadPage(f) ==
  /\ f.phase = "sent" /\ f.kind \in ListKinds /\ Authorized(f)
  /\ LET found == Window(f.query, f.cursor)
     IN  Step(f, [f EXCEPT !.phase = "answered",
                           !.items = PageItems(found),
                           !.page = PageInfo(found, f.cursor),
                           !.asOf = recorded])

\* GET /admin/api/state, as far as the audit page uses it.
ReadState(f) ==
  /\ f.phase = "sent" /\ f.kind \in Loads /\ Authorized(f)
  /\ Step(f, [f EXCEPT !.phase = "answered",
                       !.items = IF view = "audit"
                                 THEN Slice(log, 1, StateSize) ELSE <<>>,
                       !.asOf = recorded])

Serve(f) == Refuse(f) \/ ReadPage(f) \/ ReadState(f)

-----------------------------------------------------------------------------
(* The list page                                                            *)

ReadList(kind, cursor) ==
  /\ fetches' = Sent(fetches, kind, cursor, Query(filter'), token)
  /\ reads' = reads + 1
  /\ UNCHANGED loads

\* The audit page's listeners pass the click itself as the cursor: the answer
\* is appended (see ShowBelow), and the server takes such a cursor for none.
Refresh == ReadList(IF view = "audit" THEN "append" ELSE "replace", 0)

MayRead == reads < setting.reads /\ Cardinality(fetches) < MaxInFlight
Usable  == route = "list" /\ ~overlay /\ MayRead

ClickRefresh ==
  /\ Usable
  /\ UNCHANGED <<server, list, session, route, filter>>
  /\ Refresh

\* Enter in the audit page's target filter refreshes without a cursor.
EnterTarget ==
  /\ Usable /\ view = "audit"
  /\ UNCHANGED <<server, list, session, route, filter>>
  /\ ReadList("replace", 0)

ChooseClass(c) ==
  /\ Usable /\ c # filter.class
  /\ filter' = [filter EXCEPT !.class = c]
  /\ Refresh
  /\ UNCHANGED <<server, list, session, route>>

ChooseRange(r) ==
  /\ Usable /\ view # "audit" /\ r # filter.range
  /\ filter' = [filter EXCEPT !.range = r]
  /\ Refresh
  /\ UNCHANGED <<server, list, session, route>>

LoadMore ==
  /\ Usable /\ page.hasMore
  /\ UNCHANGED <<server, list, session, route, filter>>
  /\ ReadList("append", page.next)

\* Opening the page of the list refreshes it.
Navigate(r) ==
  /\ r # route
  /\ route' = r
  /\ UNCHANGED <<server, list, session, filter>>
  /\ IF r = "list" THEN MayRead /\ ReadList("replace", 0)
                   ELSE UNCHANGED <<fetches, bounds>>

-----------------------------------------------------------------------------
(* Answers                                                                  *)

Begin(f) ==
  /\ items' = f.items /\ page' = f.page
  /\ coherent' = f.alone
  /\ answers' = [first |-> f.query, last |-> f.query, asOf |-> f.asOf]

Show(f) == Begin(f) /\ older' = <<>>

\* concat() where the list should be replaced: a click's Event is truthy.
ShowBelow(f) == Begin(f) /\ older' = older \o items

\* Mutant: the cursor stays where it was.
ShowMoreAgain(f) ==
  /\ items' = items \o f.items /\ UNCHANGED <<older, page>>
  /\ coherent' = (coherent /\ f.alone)
  /\ answers' = [answers EXCEPT !.last = f.query]

ShowMore(f) ==
  /\ items' = items \o f.items /\ page' = f.page /\ UNCHANGED older
  /\ coherent' = (coherent /\ f.alone)
  /\ answers' = [answers EXCEPT !.last = f.query]

\* A list that could not be refreshed may no longer answer the filter.
KeepList(f) ==
  /\ coherent' = (coherent /\ f.cursor > 0)
  /\ UNCHANGED <<older, items, page, answers>>

ApplyList(f) ==
  /\ f.kind \in ListKinds
  /\ \/ f.phase = "answered" /\ f.kind = "replace" /\ Show(f)
     \/ f.phase = "answered" /\ f.kind = "append" /\ f.cursor = 0 /\ ShowBelow(f)
     \/ f.phase = "answered" /\ f.kind = "append" /\ f.cursor > 0 /\ ShowMore(f)
     \/ f.phase = "failed" /\ KeepList(f)
  /\ fetches' = fetches \ {f}
  /\ UNCHANGED <<server, session, route, filter, bounds>>

\* refreshState puts the newest audit entries, of any class, on the audit page
\* without a cursor to go on from.
ShowState(f) ==
  IF view = "audit"
  THEN /\ older' = <<>> /\ items' = f.items /\ page' = NoPage
       /\ coherent' = (f.alone /\ filter.class = AnyClass)
       /\ answers' = [first |-> Unfiltered, last |-> Unfiltered,
                      asOf |-> f.asOf]
  ELSE UNCHANGED list

SignedOut == token' = NoToken /\ overlay' = TRUE /\ UNCHANGED raced

\* refreshState calls a function the script does not have when the usage page
\* is open, and a sign-in takes the exception for a refusal.
ApplyLoad(f) ==
  /\ f.kind \in Loads /\ f.phase = "answered"
  /\ ShowState(f)
  /\ LET others == fetches \ {f} IN
       IF f.kind = "reload"
       THEN fetches' = others /\ UNCHANGED <<session, bounds>>
       ELSE IF route = "usage"
       THEN SignedOut /\ fetches' = others /\ UNCHANGED bounds
       ELSE /\ overlay' = FALSE
            /\ IF f.kind = "init" /\ route = "list"
               THEN /\ fetches' = Sent(others, "replace", 0, Query(filter),
                                       token)
                    /\ reads' = reads + 1
               ELSE fetches' = others /\ UNCHANGED reads
            /\ UNCHANGED <<token, raced, loads>>
  /\ UNCHANGED <<server, route, filter>>

FailLoad(f) ==
  /\ f.kind \in Loads /\ f.phase = "failed"
  /\ IF f.kind = "reload" THEN UNCHANGED session ELSE SignedOut
  /\ fetches' = fetches \ {f}
  /\ UNCHANGED <<server, list, route, filter, bounds>>

Apply(f) == ApplyList(f) \/ ApplyLoad(f) \/ FailLoad(f)

-----------------------------------------------------------------------------
(* The session                                                              *)

SigningIn == \E f \in fetches : f.kind \in SignIns

Load(kind, tok) ==
  /\ loads < setting.loads /\ Cardinality(fetches) < MaxInFlight
  /\ fetches' = Sent(fetches, kind, 0, Unfiltered, tok)
  /\ loads' = loads + 1
  /\ UNCHANGED <<server, list, route, filter, reads>>

\* Mutant: the form closes before the answer.
SubmitHiding(t) ==
  /\ overlay
  /\ token' = t /\ overlay' = FALSE
  /\ raced' = (raced \/ SigningIn)
  /\ Load("submit", t)

\* The form is open while the script's own sign-in is under way.
Submit(t) ==
  /\ overlay
  /\ token' = t
  /\ raced' = (raced \/ SigningIn)
  /\ Load("submit", t)
  /\ UNCHANGED overlay

\* The refresh button, and every change of a key.
Reload == ~overlay /\ Load("reload", token) /\ UNCHANGED session

\* Bound: only while the user may still sign in again.
LogOut ==
  /\ ~overlay /\ loads < setting.loads
  /\ token' = NoToken /\ overlay' = TRUE
  /\ raced' = SigningIn
  /\ UNCHANGED <<server, list, route, filter, fetches, bounds>>

-----------------------------------------------------------------------------
Next ==
  \/ Tick
  \/ \E c \in Classes : Record(c)
  \/ \E f \in fetches : Serve(f) \/ Lose(f) \/ Apply(f)
  \/ ClickRefresh \/ EnterTarget \/ LoadMore
  \/ \E c \in Choices : ChooseClass(c)
  \/ \E r \in {"all", "1h"} : ChooseRange(r)
  \/ \E r \in setting.routes : Navigate(r)
  \/ \E t \in Tokens : Submit(t)
  \/ Reload \/ LogOut

\* A request reaches the server or fails, and the browser runs the callbacks
\* of an answer.
Fairness == WF_vars(\E f \in fetches : Serve(f) \/ Apply(f))

Spec == Init /\ [][Next]_vars /\ Fairness

-----------------------------------------------------------------------------
(* Properties                                                               *)

\* The variables keep their shape, and a recorder in memory keeps at most Cap
\* records (the truncation of record()).
TypeOK ==
  /\ setting \in Settings
  /\ \A i \in DOMAIN log : log[i].id \in 1 .. recorded
  /\ storage = "memory" => Len(log) <= Cap
  /\ token \in Tokens \cup {NoToken} /\ overlay \in BOOLEAN
  /\ filter.class \in Classes \cup {AnyClass} /\ filter.range \in {"all", "1h"}
  /\ \A i \in DOMAIN items : items[i].id \in 1 .. recorded
  /\ \A i \in DOMAIN older : older[i].id \in 1 .. recorded
  /\ \A f \in fetches : /\ f.kind \in ListKinds \cup Loads
                        /\ f.id \in 1 .. (reads + loads)
                        /\ f.phase \in {"sent", "answered", "failed"}
  /\ coherent \in BOOLEAN /\ raced \in BOOLEAN

Quiet == ~\E f \in fetches : ForList(f.kind)

\* The properties of a list are about the rows of the last refresh and of the
\* pages loaded since.  On the pages of requests and health events those are
\* all rows; the audit page may show older ones before them, about which they
\* say nothing.  They do not hold, either, after fetches of the list that
\* overlapped or a refresh that failed: the page has no defence against those.
Shown == {items[i] : i \in DOMAIN items}

AllRows == view # "audit" => older = <<>>

\* The pages loaded one after the other leave no entry out, though the log
\* moves under their offsets: of the entries there were when the list was
\* refreshed, every one the recorder still holds that matches and is newer
\* than some entry shown is shown, as long as no fetch of the list overlapped
\* another.  (An entry recorded since may be missing between two others: with
\* more of them than a page holds, the next page starts among them.)
NoneSkipped ==
  coherent =>
    \A e \in Held :
      (/\ Matches(e, answers.last)
       /\ e.id <= answers.asOf
       /\ \E b \in Shown : e.id > b.id) => e \in Shown

\* A list without a "load more" button is complete: it shows every matching
\* entry the recorder held when the list was refreshed and still holds.  A
\* list filled by refreshState is not meant.
EndIsEnd ==
  coherent /\ page = LastPage =>
    \A e \in Held :
      Matches(e, answers.last) /\ e.id <= answers.asOf => e \in Shown

\* What a refresh and the pages loaded since have brought repeats an entry only
\* because another was recorded in between: there are at most as many
\* repetitions as new entries.  On the pages of requests and health events no
\* row is left from before; on the audit page a refresh that is clicked leaves
\* them all, and shows them again with nothing recorded.
RepeatsBounded ==
  /\ AllRows
  /\ coherent => Len(items) - Cardinality(Shown) <= recorded - answers.asOf

\* When no fetch of the list is in flight, and none overlapped or failed, what
\* the last refresh and the pages since have brought is of the class chosen on
\* the page, and in memory of its range.  On the pages of requests and health
\* events that is the whole list; the audit page may show rows of another
\* class before them, or the newest entries after refreshState.
ShownMatchesFilter ==
  /\ AllRows
  /\ coherent /\ Quiet =>
       \A e \in Shown :
         /\ filter.class \in {AnyClass, e.class}
         /\ storage = "memory" => e.at >= answers.first.since

\* The pages of the console are open only with the token the server accepts in
\* store, unless a sign-in was sent while another one was under way.
OpenMeansSignedIn == ~overlay /\ ~raced => token = Valid

\* The console comes to rest again and again: no fetch stays in flight forever.
EveryFetchEnds == []<>(fetches = {})

=============================================================================
