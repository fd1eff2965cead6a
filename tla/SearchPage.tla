----------------------------- MODULE SearchPage -----------------------------
(***************************************************************************)
(* The search panel of a station's page (YouTubeSearch) with its search    *)
(* bar and its list of results, on top of the route that answers it.  The  *)
(* answers of the route arrive in any order, or are lost on the way.       *)
(*                                                                         *)
(* The bar is disabled while a search is under way and the page buttons    *)
(* while a page turn is, so the panel awaits at most one of each.  Adding  *)
(* a result to the queue is a call of the station's page (StationPage).    *)
(***************************************************************************)
EXTENDS SearchCache

VARIABLES
    currentQuery,           \* the last search, or NoQuery before the first
    results,                \* key of the results, or <<>>
    nextPageToken,
    pageTokens,
    pageIndex,
    searching,              \* the request of the search under way, or NoRequest
    pageLoading,            \* the request of the page turn under way, or NoRequest
    searchError,
    crossed                 \* history: see HistoryOfATurn

CONSTANTS NoRequest, NoQuery

ASSUME NoneAssumption == NoRequest \notin Requests /\ NoQuery \notin Queries

panelVars == <<currentQuery, results, nextPageToken, pageTokens, pageIndex,
              searching, pageLoading, searchError, crossed>>

searchVars == <<cacheVars, panelVars>>

Errors == {"not configured", "limit reached", "search failed", "went wrong"}

SearchTypeOK ==
    /\ CacheTypeOK
    /\ currentQuery \in Queries \cup {NoQuery}
    /\ results \in Keys \cup {<<>>}
    /\ nextPageToken \in Tokens
    /\ pageTokens \in Seq(Tokens)
    /\ pageIndex \in Nat
    /\ pageIndex < Len(pageTokens)
    /\ searching \in Requests \cup {NoRequest}
    /\ pageLoading \in Requests \cup {NoRequest}
    /\ searchError \in Errors \cup {""}
    /\ crossed \in {"no", "started", "landed"}

SearchInit ==
    /\ CacheInit
    /\ currentQuery = NoQuery
    /\ results = <<>>
    /\ nextPageToken = NoToken
    /\ pageTokens = <<NoToken>>
    /\ pageIndex = 0
    /\ searching = NoRequest
    /\ pageLoading = NoRequest
    /\ searchError = ""
    /\ crossed = "no"

-----------------------------------------------------------------------------

\* The list of results and its buttons are rendered.
ShowsResults ==
    currentQuery # NoQuery /\ searchError = "" /\ searching = NoRequest

resetPagination ==
    /\ results' = <<>>
    /\ nextPageToken' = NoToken
    /\ pageTokens' = <<NoToken>>
    /\ pageIndex' = 0

\* runSearch up to its await.
AskRoute(r, query, token) ==
    /\ Send(r, cacheKey(query, token))
    /\ searchError' = ""
    /\ UNCHANGED <<now, apiKey, cache, history, refreshed>>

\* The form of the search bar can be submitted; a blank query is not.
CanSearch == searching = NoRequest

handleSearch(r, query) ==
    /\ CanSearch
    /\ currentQuery' = query
    /\ resetPagination
    /\ AskRoute(r, query, NoToken)
    /\ searching' = r
    /\ crossed' = IF pageLoading # NoRequest THEN "started" ELSE "no"
    /\ UNCHANGED pageLoading

CanTurn == ShowsResults /\ pageLoading = NoRequest

handleNext(r) ==
    /\ CanTurn
    /\ nextPageToken # NoToken
    /\ pageTokens' = Append(SubSeq(pageTokens, 1, pageIndex + 1), nextPageToken)
    /\ pageIndex' = pageIndex + 1
    /\ AskRoute(r, currentQuery, nextPageToken)
    /\ pageLoading' = r
    /\ UNCHANGED <<currentQuery, results, nextPageToken, searching, crossed>>

\* Mutant: the token is read with the index of the page that is left.
HandlePrevOldToken(r) ==
    /\ CanTurn
    /\ pageIndex > 0
    /\ pageIndex' = pageIndex - 1
    /\ AskRoute(r, currentQuery, pageTokens[pageIndex + 1])
    /\ pageLoading' = r
    /\ UNCHANGED <<currentQuery, results, nextPageToken, pageTokens, searching, crossed>>

handlePrev(r) ==
    /\ CanTurn
    /\ pageIndex > 0
    /\ pageIndex' = pageIndex - 1
    /\ AskRoute(r, currentQuery, pageTokens[pageIndex])
    /\ pageLoading' = r
    /\ UNCHANGED <<currentQuery, results, nextPageToken, pageTokens, searching, crossed>>

\* The panel gets the route's answer ...
Answered(r) ==
    /\ r \in Requests
    /\ request[r].stage = "answered"
    /\ request' = [request EXCEPT ![r] = Closed]
    /\ UNCHANGED <<now, apiKey, cache, history, refreshed>>

\* ... or its fetch fails, and the route goes on for nobody.
Lost(r) ==
    /\ r \in Requests
    /\ request' = [request EXCEPT ![r] = IF @.stage = "answered" THEN Closed
                                         ELSE [@ EXCEPT !.awaited = FALSE]]
    /\ UNCHANGED <<now, apiKey, cache, history, refreshed>>

\* runSearch on a 200 ...
TakeResults(r) ==
    /\ Answered(r)
    /\ request[r].status = 200
    /\ results' = request[r].key
    /\ nextPageToken' = NextToken(request[r].key)
    /\ UNCHANGED searchError

\* ... on another status, and on a fetch that fails.
StatusError(status) ==
    CASE status = 503 -> "not configured"
      [] status = 429 -> "limit reached"
      [] OTHER -> "search failed"

TakeError(r) ==
    \/ /\ Answered(r)
       /\ request[r].status # 200
       /\ searchError' = StatusError(request[r].status)
    \/ /\ Lost(r)
       /\ searchError' = "went wrong"

SearchSucceeds ==
    /\ TakeResults(searching)
    /\ searching' = NoRequest
    /\ crossed' = IF crossed = "landed" THEN "no" ELSE crossed
    /\ UNCHANGED <<currentQuery, pageTokens, pageIndex, pageLoading>>

\* A search that failed has nothing worth keeping.
SearchFails ==
    /\ TakeError(searching)
    /\ resetPagination
    /\ searching' = NoRequest
    /\ UNCHANGED <<currentQuery, pageLoading, crossed>>

\* HistoryOfATurn: a page turn that a newer search has overtaken lands.
HistoryOfATurn ==
    crossed' = IF crossed = "started" THEN "landed" ELSE crossed

PageArrives ==
    /\ TakeResults(pageLoading)
    /\ pageLoading' = NoRequest
    /\ HistoryOfATurn
    /\ UNCHANGED <<currentQuery, pageTokens, pageIndex, searching>>

PageFails ==
    /\ TakeError(pageLoading)
    /\ pageLoading' = NoRequest
    /\ HistoryOfATurn
    /\ UNCHANGED <<currentQuery, results, nextPageToken, pageTokens, pageIndex, searching>>

PanelNext ==
    \/ \E r \in Requests, q \in Queries : handleSearch(r, q)
    \/ \E r \in Requests : handleNext(r) \/ handlePrev(r)
    \/ SearchSucceeds \/ SearchFails \/ PageArrives \/ PageFails

SearchNext == (RouteNext /\ UNCHANGED panelVars) \/ PanelNext

SearchSpec == SearchInit /\ [][SearchNext]_searchVars

-----------------------------------------------------------------------------

(* What the panel shows is what it was asked for: with no page turn under way
   the results are the page of the last search that pageIndex stands for, the
   next button leads to the page after it and the previous one to the page
   before, unless the turn of an earlier search landed after the search
   (runSearch applies every answer, whatever was searched since). *)
Turned == SubSeq(pageTokens, 1, pageIndex + 1)

ShowsThePageAskedFor ==
    ShowsResults /\ pageLoading = NoRequest /\ crossed # "landed" =>
        /\ results = cacheKey(currentQuery, pageTokens[pageIndex + 1])
        /\ nextPageToken = NextToken(results)
        /\ \A i \in 1..Len(Turned) : Turned[i] = i - 1
=============================================================================
