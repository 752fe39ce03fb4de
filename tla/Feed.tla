-------------------------------- MODULE Feed --------------------------------
(* The feed of the site: src/api/feed.py pages through the events that are  *)
(* synced and not spam, src/core/services/anti_scam.py hides what readers   *)
(* complain of, src/admin/routes.py publishes, dismisses and sends again.   *)
EXTENDS Integers, Sequences, FiniteSets, FiniteSetsExt, Order

CONSTANTS
  Reader,
  Phone,
  Admin,      \* requests of administrators in flight
  Limit,      \* items of a page
  Threshold,  \* complaints that hide: 3 in the code
  MostEvents, MostPosts  \* bounds

ASSUME FeedAssumption ==
  Limit \in Nat \ {0} /\ Threshold \in Nat /\ MostEvents \in Nat /\ MostPosts \in Nat

VARIABLES
  events,      \* parser_ingest_events in order of their ids
  complaints,  \* id -> readers with a row of feed_complaints
  filing,      \* reader -> complaint in flight
  blacklist,   \* phone -> rows of counterparty_lists
  admin,       \* request of an administrator -> what it does and the row it loaded
  posted,      \* id -> orders the site was sent for it by the administrators
  scroll       \* the pages one reader takes, one after another

feedVars == <<events, complaints, filing, blacklist, admin, posted, scroll>>

Id == 1..MostEvents
Status == {"synced", "manual_review", "sync_failed", "ignored"}
FeedRow == [hot : BOOLEAN, manual : BOOLEAN, phone : Phone, status : Status, spam : BOOLEAN]
Calm == [step |-> "idle"]
Top == MostEvents + 1
NoScroll == [step |-> "idle", cursor |-> Top, shown |-> {}, through |-> {}]

Ids == 1..Len(events)
Visible == {e \in Ids : events[e].status = "synced" /\ ~events[e].spam}

FeedInit ==
  /\ events = <<>> /\ complaints = [e \in Id |-> {}]
  /\ filing = [u \in Reader |-> Calm] /\ blacklist = [p \in Phone |-> 0]
  /\ admin = [a \in Admin |-> Calm] /\ posted = [e \in Id |-> 0]
  /\ scroll = NoScroll

\* What the scroll has been able to see from its first page to now.
StillThere == [scroll EXCEPT !.through = @ \cap Visible']

\* The parser writes an event, or a user his cargo.
Arrive(hot, manual, phone, status) ==
  /\ Len(events) < MostEvents /\ (manual => status = "synced")
  /\ events' = Append(events, [hot |-> hot, manual |-> manual, phone |-> phone,
                               status |-> status, spam |-> FALSE])
  /\ UNCHANGED <<complaints, filing, blacklist, admin, posted, scroll>>

-----------------------------------------------------------------------------
(* get_feed                                                                 *)

NewestFirst == Descending
HotFirst ==
  {p \in Ids \X Ids : IF events[p[1]].hot = events[p[2]].hot THEN p[1] > p[2]
                      ELSE events[p[1]].hot}

\* One row more than the page, and beside them the newest cargos of users, which the cursor
\* does not filter; with them the rows are in order of their ids alone.
RowsFor(cursor) ==
  LET found == FirstOf({e \in Visible : e < cursor}, Limit + 1, HotFirst)
      own == FirstOf({e \in Visible : events[e].manual}, Limit + 5, NewestFirst)
  IN InOrder(found \cup own, IF own = {} THEN HotFirst ELSE NewestFirst)

\* Mutant: the cursor is the row that did not fit.
CursorOfNext(rows) == rows[Limit + 1]

NextCursor(rows) == rows[Limit]

Open ==
  /\ scroll.step # "reading"
  /\ scroll' = [NoScroll EXCEPT !.step = "reading", !.through = Visible]
  /\ UNCHANGED <<events, complaints, filing, blacklist, admin, posted>>

NextPage ==
  LET rows == RowsFor(scroll.cursor) IN
  /\ scroll.step = "reading"
  /\ scroll' = [scroll EXCEPT
       !.shown = @ \cup {rows[k] : k \in 1..Min({Limit, Len(rows)})},
       !.step = IF Len(rows) > Limit THEN "reading" ELSE "end",
       !.cursor = IF Len(rows) > Limit THEN NextCursor(rows) ELSE @]
  /\ UNCHANGED <<events, complaints, filing, blacklist, admin, posted>>

-----------------------------------------------------------------------------
(* report_feed_item                                                         *)

BeginComplaint(u, e) ==
  /\ filing[u] = Calm /\ u \notin complaints[e]
  /\ filing' = [filing EXCEPT ![u] = [step |-> "loaded", id |-> e, spam |-> events[e].spam]]
  /\ UNCHANGED <<events, complaints, blacklist, admin, posted, scroll>>

\* The query that counts flushes the new row first, so it is counted, and then once more.
CountComplaint(u) ==
  LET f == filing[u]
      total == Cardinality(complaints[f.id] \cup {u}) + 1
  IN
  /\ f.step = "loaded"
  /\ filing' = [filing EXCEPT ![u] =
       [step |-> "counted", id |-> f.id, hides |-> total >= Threshold /\ ~f.spam,
        listed |-> blacklist[events[f.id].phone] > 0]]
  /\ UNCHANGED <<events, complaints, blacklist, admin, posted, scroll>>

CommitComplaint(u) ==
  LET f == filing[u]
      phone == events[f.id].phone
  IN
  /\ f.step = "counted"
  /\ complaints' = [complaints EXCEPT ![f.id] = @ \cup {u}]
  /\ events' = IF f.hides THEN [events EXCEPT ![f.id].spam = TRUE] ELSE events
  /\ blacklist' = IF f.hides /\ ~f.listed THEN [blacklist EXCEPT ![phone] = @ + 1] ELSE blacklist
  /\ filing' = [filing EXCEPT ![u] = Calm]
  /\ scroll' = StillThere
  /\ UNCHANGED <<admin, posted>>

-----------------------------------------------------------------------------
(* The administrator: each request loads the row and commits later, a retry *)
(* after the site has answered.  A request sends only the columns it set to *)
(* something else than it had loaded.                                       *)

AdminLoads(a, op, e) ==
  /\ admin[a] = Calm
  /\ admin' = [admin EXCEPT ![a] = [step |-> op, id |-> e, seen |-> events[e]]]
  /\ UNCHANGED <<events, complaints, filing, blacklist, posted, scroll>>

\* Mutant: the whole row is written.
SetAll(row, seen, status, spam) == [row EXCEPT !.status = status, !.spam = spam]

SetChanged(row, seen, status, spam) ==
  [row EXCEPT !.status = IF status = seen.status THEN @ ELSE status,
              !.spam = IF spam = seen.spam THEN @ ELSE spam]

AdminCommits(a, status, spam) ==
  LET q == admin[a] IN
  /\ events' = [events EXCEPT ![q.id] = SetChanged(@, q.seen, status, spam)]
  /\ admin' = [admin EXCEPT ![a] = Calm]
  /\ scroll' = StillThere
  /\ UNCHANGED <<complaints, filing, blacklist>>

Publish(a) ==
  /\ admin[a].step = "publish" /\ AdminCommits(a, "synced", FALSE) /\ UNCHANGED posted

\* dismiss and ignore
Dismiss(a) ==
  /\ admin[a].step = "ignore"
  /\ AdminCommits(a, "ignored", admin[a].seen.spam) /\ UNCHANGED posted

\* The site takes every retry for a new order: its event_id is new.
RetryTaken(a) ==
  /\ admin[a].step = "retry" /\ posted[admin[a].id] < MostPosts
  /\ posted' = [posted EXCEPT ![admin[a].id] = @ + 1]
  /\ AdminCommits(a, "synced", FALSE)

\* An event without a route is not sent.
RetryUnrouted(a) ==
  /\ admin[a].step = "retry"
  /\ AdminCommits(a, "manual_review", admin[a].seen.spam) /\ UNCHANGED posted

\* No answer, though the order may have been made.
RetryFails(a) ==
  /\ admin[a].step = "retry"
  /\ \E n \in {0, 1} :
       /\ posted[admin[a].id] + n <= MostPosts
       /\ posted' = [posted EXCEPT ![admin[a].id] = @ + n]
  /\ AdminCommits(a, "sync_failed", admin[a].seen.spam)

-----------------------------------------------------------------------------

FeedNext ==
  \/ \E hot, manual \in BOOLEAN, p \in Phone, s \in Status : Arrive(hot, manual, p, s)
  \/ Open \/ NextPage
  \/ \E u \in Reader : \/ \E e \in Ids : BeginComplaint(u, e)
                       \/ CountComplaint(u) \/ CommitComplaint(u)
  \/ \E a \in Admin :
       \/ \E e \in Ids, op \in {"publish", "ignore", "retry"} : AdminLoads(a, op, e)
       \/ Publish(a) \/ Dismiss(a) \/ RetryTaken(a) \/ RetryUnrouted(a) \/ RetryFails(a)

FeedSpec == FeedInit /\ [][FeedNext]_feedVars

FeedTypeOK ==
  /\ \A e \in Ids : events[e] \in FeedRow
  /\ complaints \in [Id -> SUBSET Reader] /\ posted \in [Id -> 0..MostPosts]
  /\ \A p \in Phone : blacklist[p] \in Nat
  /\ \A u \in Reader : filing[u].step \in {"idle", "loaded", "counted"}
  /\ \A a \in Admin : admin[a].step \in {"idle", "publish", "ignore", "retry"}
  /\ scroll.step \in {"idle", "reading", "end"} /\ scroll.cursor \in 1..Top
  /\ scroll.shown \subseteq Id /\ scroll.through \subseteq Id

\* A reader who has come to the end of the feed was shown every event that was there from his
\* first page to his last, however many arrived or went in between; only what is newer than a
\* hot deal may be missing, for the page that ends with the hot deal moves the cursor past it.
ScrollIsComplete ==
  scroll.step = "end" =>
    \A e \in scroll.through \ scroll.shown : \E h \in Id : h < e /\ events[h].hot

\* An event is hidden only when two readers have complained of it (the third complaint of the
\* threshold is one of theirs counted twice), and comes back only by a request of an
\* administrator that loaded it hidden: a retry that was waiting for the site does not bring
\* back what was hidden meanwhile.
HidingIsEarned ==
  [][\A e \in Ids :
       /\ ~events[e].spam /\ events'[e].spam => Cardinality(complaints'[e]) >= Threshold - 1
       /\ events[e].spam /\ ~events'[e].spam =>
            \E a \in Admin : admin[a] # Calm /\ admin[a].id = e /\ admin[a].seen.spam]_feedVars
=============================================================================
