----------------------------- MODULE UpdatesFeed -----------------------------
(***************************************************************************)
(* The announcements page (web/src/pages/shared/Announcements.tsx) over    *)
(* the announcements API: a feed filtered and paged by the address, staff  *)
(* publishing and archiving, readers opening one update or marking all of  *)
(* them read.  A request is answered by the server first and reaches the   *)
(* page later, in any order.                                               *)
(***************************************************************************)
EXTENDS Integers, Sequences, FiniteSets

CONSTANTS PerPage,       \* per_page (12 in the code)
          MaxPosts,      \* bound on the announcements
          MaxFeedActs    \* bound on what the user does
ASSUME FeedAssumption == PerPage \in Nat \ {0} /\ MaxPosts \in Nat /\ MaxFeedActs \in Nat

VARIABLES posts,         \* the server's announcements, by id: [status, read]
          query,         \* the address: [manage, status, read, page]
          feed,          \* announcements (live: not archived), unreadCount and pagination
          spinner, savingPost, archivingId,     \* loading, saving, archivingId
          selectedId,    \* the update in the address, 0 for none
          asked,         \* the update the archive question is about, with its query, or NoQuestion
          feedRequests,      \* handlers under way
          feedActs
feedVars == <<posts, query, feed, spinner, savingPost, archivingId, selectedId, asked, feedRequests, feedActs>>
feedFlags == <<savingPost, archivingId>>

(***************************************************************************)
(* The server's index.                                                     *)
(***************************************************************************)
Matches(q, id) ==
    /\ IF q.manage THEN q.status = "all" \/ posts[id].status = q.status ELSE posts[id].status = "published"
    /\ q.manage \/ q.read = "all" \/ posts[id].read = (q.read = "read")
Matching(q) == {id \in DOMAIN posts: Matches(q, id)}
\* Newest first.
PlaceOf(q, id) == Cardinality({i \in Matching(q): i >= id})
PageItems(q) == {id \in Matching(q): PlaceOf(q, id) > (q.page - 1) * PerPage /\ PlaceOf(q, id) <= q.page * PerPage}
Unread == Cardinality({id \in DOMAIN posts: posts[id].status = "published" /\ ~posts[id].read})
Index(q) ==
    [items |-> PageItems(q), live |-> {id \in PageItems(q): posts[id].status # "archived"},
     unread |-> Unread, total |-> Cardinality(Matching(q)), page |-> q.page]
TotalPages(f) == (f.total + PerPage - 1) \div PerPage

(***************************************************************************)
(* Handlers.  A request is [n, kind, pc, q, bg, id, answer]; pc "write" is *)
(* the call that changes something, "list" the reload, "listed" a reload   *)
(* the server has answered.                                                *)
(***************************************************************************)
NoAnswer == [items |-> {}, live |-> {}, unread |-> 0, total |-> 0, page |-> 0]
RequestNumber == CHOOSE n \in 1 .. Cardinality(feedRequests) + 1: \A r \in feedRequests: r.n # n
FeedRequest(kind, pc, q, bg, id) ==
    [n |-> RequestNumber, kind |-> kind, pc |-> pc, q |-> q, bg |-> bg, id |-> id, answer |-> NoAnswer]
FeedAct == feedActs < MaxFeedActs /\ feedActs' = feedActs + 1
\* Every control of the page is replaced by the spinner while the feed loads.
OnPage == ~spinner

FirstQuery == [manage |-> FALSE, status |-> "published", read |-> "all", page |-> 1]
FeedInit ==
    /\ posts = [id \in 1 .. 2 |-> [status |-> "published", read |-> FALSE]]
    /\ query = FirstQuery /\ feed = NoAnswer /\ spinner = TRUE /\ savingPost = FALSE /\ archivingId = 0
    /\ selectedId = 0 /\ asked = [id |-> 0, q |-> FirstQuery] /\ feedActs = 0
    /\ feedRequests = {[n |-> 1, kind |-> "load", pc |-> "list", q |-> FirstQuery, bg |-> FALSE, id |-> 0, answer |-> NoAnswer]}

\* updateQuery; the effect on loadAnnouncements loads the feed under the new query.
Navigate(q) ==
    /\ q # query /\ query' = q /\ spinner' = TRUE
    /\ feedRequests' = feedRequests \cup {FeedRequest("load", "list", q, FALSE, 0)}
    /\ UNCHANGED <<posts, feed, selectedId, asked>> /\ UNCHANGED feedFlags
\* The Inbox and Manage buttons.
SwitchScope ==
    /\ OnPage /\ asked.id = 0 /\ FeedAct
    /\ Navigate([FirstQuery EXCEPT !.manage = ~query.manage])
\* The filters, and Clear filters: each goes to the first page.
FilterFeed(status, read) ==
    /\ OnPage /\ asked.id = 0 /\ FeedAct
    /\ IF query.manage THEN read = query.read ELSE status = query.status
    /\ Navigate([query EXCEPT !.status = status, !.read = read, !.page = 1])
\* The pager is drawn when there are several pages.
PagerOffered == OnPage /\ asked.id = 0 /\ TotalPages(feed) > 1
PreviousPage == PagerOffered /\ feed.page > 1 /\ FeedAct /\ Navigate([query EXCEPT !.page = feed.page - 1])
NextPage == PagerOffered /\ feed.page < TotalPages(feed) /\ FeedAct /\ Navigate([query EXCEPT !.page = feed.page + 1])

\* A title in the list is a link to the update; the effect on its id reads it.
OpenUpdate(id) ==
    /\ OnPage /\ asked.id = 0 /\ id \in feed.items /\ id # selectedId /\ FeedAct
    /\ selectedId' = id
    /\ feedRequests' = feedRequests \cup {FeedRequest("show", "write", query, TRUE, id)}
    /\ UNCHANGED <<posts, query, feed, spinner, asked>> /\ UNCHANGED feedFlags
MarkAllRead ==
    /\ OnPage /\ asked.id = 0 /\ feed.unread > 0 /\ FeedAct
    /\ feedRequests' = feedRequests \cup {FeedRequest("markAll", "write", query, TRUE, 0)}
    /\ UNCHANGED <<posts, query, feed, spinner, selectedId, asked>> /\ UNCHANGED feedFlags
\* handleCreate; the form is drawn in manage mode.
HandleCreate ==
    /\ OnPage /\ asked.id = 0 /\ query.manage /\ ~savingPost /\ FeedAct /\ savingPost' = TRUE
    /\ feedRequests' = feedRequests \cup {FeedRequest("create", "write", query, FALSE, 0)}
    /\ UNCHANGED <<posts, query, feed, spinner, archivingId, selectedId, asked>>
\* handleArchive: the question, then the call with the query of the render that asked.
AskArchivePost(id) ==
    /\ OnPage /\ asked.id = 0 /\ query.manage /\ archivingId = 0 /\ FeedAct
    /\ id \in feed.live
    /\ asked' = [id |-> id, q |-> query]
    /\ UNCHANGED <<posts, query, feed, spinner, selectedId, feedRequests>> /\ UNCHANGED feedFlags
DeclineArchive ==
    /\ asked.id # 0 /\ asked' = [asked EXCEPT !.id = 0]
    /\ UNCHANGED <<posts, query, feed, spinner, selectedId, feedRequests, feedActs>> /\ UNCHANGED feedFlags
ConfirmArchive ==
    /\ asked.id # 0 /\ archivingId' = asked.id /\ asked' = [asked EXCEPT !.id = 0]
    /\ feedRequests' = feedRequests \cup {FeedRequest("archive", "write", asked.q, TRUE, asked.id)}
    /\ UNCHANGED <<posts, query, feed, spinner, savingPost, selectedId, feedActs>>

\* The flags a handler lifts as its last step.
Lifted(r) ==
    /\ savingPost' = (savingPost /\ r.kind # "create")
    /\ archivingId' = IF r.kind = "archive" THEN 0 ELSE archivingId
\* What the server writes for a call.
ServerWrites(r) ==
    CASE r.kind = "create" -> Append(posts, [status |-> "published", read |-> FALSE])
      [] r.kind = "archive" -> [posts EXCEPT ![r.id].status = "archived"]
      [] r.kind = "markAll" -> [i \in DOMAIN posts |-> [posts[i] EXCEPT !.read = TRUE]]
      [] OTHER -> [posts EXCEPT ![r.id].read = TRUE]
\* The page on the answer: mark-all shows no unread, a shown update joins the list.
PageAfter(r) ==
    CASE r.kind = "markAll" -> [feed EXCEPT !.unread = 0]
      [] r.kind = "show" -> [feed EXCEPT !.items = @ \cup {r.id},
                                         !.live = IF posts[r.id].status = "archived" THEN @ \ {r.id} ELSE @ \cup {r.id}]
      [] OTHER -> feed
\* The call succeeds and the handler goes on to reload the feed: with the query it was
\* called under, except that opening an update takes the latest (loadAnnouncementsRef).
PostAnswered(r) ==
    /\ r \in feedRequests /\ r.pc = "write" /\ (r.kind = "create" => Len(posts) < MaxPosts)
    /\ posts' = ServerWrites(r) /\ feed' = PageAfter(r)
    /\ spinner' = (spinner \/ ~r.bg)
    /\ feedRequests' = (feedRequests \ {r}) \cup {[r EXCEPT !.pc = "list", !.q = IF r.kind = "show" THEN query ELSE @]}
    /\ UNCHANGED <<query, selectedId, asked, feedActs>> /\ UNCHANGED feedFlags
WriteFailed(r) ==
    /\ r \in feedRequests /\ r.pc = "write" /\ feedRequests' = feedRequests \ {r} /\ Lifted(r)
    /\ UNCHANGED <<posts, query, feed, spinner, selectedId, asked, feedActs>>
FeedServed(r) ==
    /\ r \in feedRequests /\ r.pc = "list"
    /\ feedRequests' = (feedRequests \ {r}) \cup {[r EXCEPT !.pc = "listed", !.answer = Index(r.q)]}
    /\ UNCHANGED <<posts, query, feed, spinner, selectedId, asked, feedActs>> /\ UNCHANGED feedFlags
\* The end of loadAnnouncements, and of the handler that awaited it.
ListArrives(r, ok) ==
    /\ r \in feedRequests /\ r.pc = "listed" /\ feedRequests' = feedRequests \ {r} /\ Lifted(r)
    /\ feed' = IF ok THEN r.answer ELSE feed
    /\ spinner' = (spinner /\ r.bg)
    /\ UNCHANGED <<posts, query, selectedId, asked, feedActs>>

FeedReplies(r) == PostAnswered(r) \/ WriteFailed(r) \/ FeedServed(r) \/ \E ok \in BOOLEAN: ListArrives(r, ok)
FeedNext ==
    \/ SwitchScope \/ PreviousPage \/ NextPage
    \/ \E status \in {"published", "archived", "all"}, read \in {"all", "unread", "read"}: FilterFeed(status, read)
    \/ \E id \in DOMAIN posts: OpenUpdate(id) \/ AskArchivePost(id)
    \/ MarkAllRead \/ HandleCreate \/ DeclineArchive \/ ConfirmArchive
    \/ \E r \in feedRequests: FeedReplies(r)
\* Every request is answered or fails.
FeedFairness == WF_feedVars(\E r \in feedRequests: FeedReplies(r))
FeedSpec == FeedInit /\ [][FeedNext]_feedVars /\ FeedFairness

(***************************************************************************)
(* Properties.                                                             *)
(***************************************************************************)
\* The spinner that hides the page stands for a load under way: whatever handlers overlap,
\* none ends with the page still hidden.
SpinnerHasLoad ==
    spinner => \E r \in feedRequests: r.pc \in {"list", "listed"} /\ ~r.bg
=============================================================================
