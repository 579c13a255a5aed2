------------------------------- MODULE WebUI -------------------------------
(***************************************************************************)
(* The Web UI: sessions kept in cookies, the middlewares in front of the   *)
(* protected routes, the pages that list, show and search the objects with *)
(* the session's own token, and the permissions page (ui/ui.go and         *)
(* ui/internal/http).  A handler is one step per call it makes to the      *)
(* Kubernetes API server; the markup of a page is left out.                *)
(***************************************************************************)
EXTENDS Integers, Sequences, FiniteSets, SequencesExt

CONSTANTS Browsers,
          Tokens,          \* service account tokens, strings
          TokenOf(_),      \* [sa : the namespace in the token or "", exp : has an expiry,
                           \*  cluster : verbs it may use in every namespace,
                           \*  home, scoped : the verbs it may use in namespace home,
                           \*  namespaces : may list namespaces]
          AutoToken,       \* the client of auto-login
          Namespaces,      \* of the cluster, a sequence
          InitialObjects,  \* sequence of [ns, name]; every kind has these objects
          UiQueries,       \* [page, per, ns, htmx, key, word]
          UiRoutes,        \* the routes of an instance
          UiServers,       \* what is typed as the API server
          DefaultItemsPerPage, MaxItemsPerPage,
          MaxSearchResultsPerType, MaxSearchResults,
          MaxUiChanges, MaxUiFaults

ASSUME UiAssumption ==
  /\ DefaultItemsPerPage \in Nat \ {0} /\ MaxItemsPerPage \in Nat \ {0}
  /\ AutoToken \in Tokens /\ "" \notin Tokens /\ MaxUiChanges \in Nat /\ MaxUiFaults \in Nat

ASSUME DataAssumption ==
  /\ InitialObjects \in Seq([ns : STRING, name : STRING])
  /\ \A q \in UiQueries : q.page \in Int /\ q.per \in Int

\* No namespace is named "All": the names of namespaces are in lower case.
ASSUME NamespaceAssumption == \A t \in Tokens : TokenOf(t).sa # "All"

VARIABLES uiAuto,     \* EnableAutoLogin
          uiValid,    \* the tokens the API server accepts
          uiObjects,  \* the objects, in the API server's order
          uiCookie,   \* the cookies of a browser, "" when absent
          uiNs,       \* the namespace a browser keeps in its local storage, or ""
          uiReq,      \* the request of a browser in a handler
          uiPage,     \* what was last answered to it
          uiWalk,     \* the pages turned since the first one: [ns, page, seen]
          uiOut,      \* logged out, and not in again
          uiChanges, uiFaults

uiVars == <<uiAuto, uiValid, uiObjects, uiCookie, uiNs, uiReq, uiPage, uiWalk, uiOut,
            uiChanges, uiFaults>>
uiWorld == <<uiAuto, uiValid, uiObjects, uiChanges>>

Cookies == {"auth_token", "auth_apiserver", "sa_namespace", "sa_namespace_display",
            "token_expiry", "apiserver_display", "insecure_skip_verify"}
NoCookies == [c \in Cookies |-> ""]

-----------------------------------------------------------------------------
(* The routes: what the handlers of ui.go differ in.                       *)

Kinds == <<"hardware", "workflows", "templates", "bmc/machines", "bmc/jobs", "bmc/tasks">>

\* selects: an absent namespace gets GetSelectedNamespace's default.  capped: per_page
\* has a maximum.  onAuth: what follows a failed list.  sidebar: the namespaces are
\* listed first.
UiRoute(kind, type) ==
  [kind |-> kind, type |-> type, selects |-> FALSE, capped |-> TRUE, onAuth |-> "stops",
   missing |-> 404, sidebar |-> kind \notin {"data", "check", "search", "dashboard-data"}]

HandleHardwareList == [UiRoute("list", "hardware") EXCEPT !.selects = TRUE, !.onAuth = "renders"]
HandleHardwareData == [UiRoute("data", "hardware") EXCEPT !.onAuth = "ignored"]
HandleHardwareDetail == UiRoute("detail", "hardware")
HandleWorkflowList == [UiRoute("list", "workflows") EXCEPT !.selects = TRUE]
HandleWorkflowData == UiRoute("data", "workflows")
HandleWorkflowDetail == UiRoute("detail", "workflows")
HandleTemplateList == [UiRoute("list", "templates") EXCEPT !.selects = TRUE]
HandleTemplateData == UiRoute("data", "templates")
HandleTemplateDetail == UiRoute("detail", "templates")
HandleWorkflowRuleSetList == [UiRoute("list", "workflows/rulesets") EXCEPT !.selects = TRUE]
HandleWorkflowRuleSetData == UiRoute("data", "workflows/rulesets")
HandleWorkflowRuleSetDetail == [UiRoute("detail", "workflows/rulesets") EXCEPT !.missing = 200]
HandleBMCMachineList == [UiRoute("list", "bmc/machines") EXCEPT !.capped = FALSE]
HandleBMCMachineData == [UiRoute("data", "bmc/machines") EXCEPT !.capped = FALSE]
HandleBMCMachineDetail == UiRoute("detail", "bmc/machines")
HandleBMCJobList == [UiRoute("list", "bmc/jobs") EXCEPT !.capped = FALSE]
HandleBMCJobData == [UiRoute("data", "bmc/jobs") EXCEPT !.capped = FALSE]
HandleBMCJobDetail == UiRoute("detail", "bmc/jobs")
HandleBMCTaskList == [UiRoute("list", "bmc/tasks") EXCEPT !.capped = FALSE]
HandleBMCTaskData == [UiRoute("data", "bmc/tasks") EXCEPT !.capped = FALSE]
HandleBMCTaskDetail == UiRoute("detail", "bmc/tasks")
HandleGlobalSearch == UiRoute("search", "")
HandlePermissions == UiRoute("permissions", "")
HandlePermissionCheck == UiRoute("check", "hardware")
HandleDashboard == UiRoute("dashboard", "")
HandleDashboardData == UiRoute("dashboard-data", "")

Protected ==
  {HandleHardwareList, HandleHardwareData, HandleHardwareDetail, HandleWorkflowList,
   HandleWorkflowData, HandleWorkflowDetail, HandleTemplateList, HandleTemplateData,
   HandleTemplateDetail, HandleWorkflowRuleSetList, HandleWorkflowRuleSetData,
   HandleWorkflowRuleSetDetail, HandleBMCMachineList, HandleBMCMachineData,
   HandleBMCMachineDetail, HandleBMCJobList, HandleBMCJobData, HandleBMCJobDetail,
   HandleBMCTaskList, HandleBMCTaskData, HandleBMCTaskDetail, HandleGlobalSearch,
   HandlePermissions, HandlePermissionCheck, HandleDashboard, HandleDashboardData}

ASSUME RouteAssumption == UiRoutes \subseteq Protected

\* ResourcePath of the pagination: the buttons of a page lead to the list of its kind,
\* below the URL prefix, which the page's script puts before every path of htmx.
ResourcePath(type) == CHOOSE r \in Protected : r.kind = "list" /\ r.type = type

-----------------------------------------------------------------------------
(* Pages of a list.                                                        *)

Least(a, b) == IF a < b THEN a ELSE b
Most(a, b) == IF a > b THEN a ELSE b

ValidateItemsPerPage(n) ==
  IF n < 1 THEN DefaultItemsPerPage ELSE Least(n, MaxItemsPerPage)

\* A number that does not parse is 0 here: it leads where 0 leads.
ItemsPerPage(r, n) ==
  IF r.capped THEN ValidateItemsPerPage(n) ELSE IF n < 1 THEN DefaultItemsPerPage ELSE n

\* A fault: the last page is rounded down.
PaginatedDown(items, p, per) ==
  LET total == Len(items)
      pages == Most(total \div per, 1)
      page  == Least(Most(p, 1), pages)
      start == (page - 1) * per
      end   == Least(start + per, total)
  IN [items |-> SubSeq(items, start + 1, end), page |-> page, pages |-> pages,
      startItem |-> start + 1, endItem |-> end, total |-> total]

\* GetPaginatedHardware and the six functions like it.
Paginated(items, p, per) ==
  LET total == Len(items)
      pages == IF total = 0 THEN 1 ELSE (total + per - 1) \div per
      page  == Least(Most(p, 1), pages)
      start == Least((page - 1) * per, total)
      end   == Least((page - 1) * per + per, total)
  IN [items |-> SubSeq(items, start + 1, end), page |-> page, pages |-> pages,
      startItem |-> IF total > 0 THEN start + 1 ELSE 0,
      endItem |-> IF total > 0 THEN end ELSE 0, total |-> total]

\* PaginationNav: the pages that have a button.
Buttons(page, pages) ==
  {p \in {page - 1, page + 1} \cup (page - 2)..(page + 2) \cup {1, pages} :
     p \in 1..pages /\ p # page}

-----------------------------------------------------------------------------
(* The API server, with the rights of a token.                             *)

May(t, verb, ns) ==
  \/ verb \in TokenOf(t).cluster
  \/ ns = TokenOf(t).home /\ verb \in TokenOf(t).scoped

\* What a call may end in: an answer, a refusal, or a failure on the way.
Calls(t, allowed) ==
  (IF t \notin uiValid THEN {"unauthorized"} ELSE IF allowed THEN {"ok"} ELSE {"forbidden"})
    \cup (IF uiFaults < MaxUiFaults THEN {"certificate", "unreachable"} ELSE {})

Faulty(o) == o \in {"certificate", "unreachable"}
Counted(n) == uiFaults' = uiFaults + n

\* IsAuthError: 401 and everything about certificates, but not 403.
IsAuthError(o) == o \in {"unauthorized", "certificate"}

\* ListHardware and the others: "" and "All" are every namespace.
EveryNamespace(ns) == ns \in {"", "All"}
SameList(ns, other) == ns = other \/ (EveryNamespace(ns) /\ EveryNamespace(other))
MayList(t, ns) == IF EveryNamespace(ns) THEN "list" \in TokenOf(t).cluster ELSE May(t, "list", ns)

\* The nth object of a namespace is the one with n - 1 of them before it.
ObjectsIn(objects, ns) ==
  LET at == {i \in DOMAIN objects : EveryNamespace(ns) \/ objects[i].ns = ns}
  IN [n \in 1..Cardinality(at) |->
        objects[CHOOSE i \in at : Cardinality({j \in at : j < i}) = n - 1]]
InNamespace(ns) == ObjectsIn(uiObjects, ns)

-----------------------------------------------------------------------------
NoQuery == [page |-> 1, per |-> 0, ns |-> "", htmx |-> FALSE, key |-> "", word |-> ""]
Blankpage == [route |-> UiRoute("none", ""), token |-> "", status |-> 0, to |-> "", items |-> <<>>,
              page |-> 0, pages |-> 0, ns |-> "", query |-> NoQuery, outcome |-> "none", verbs |-> {}]
NoWalk == [ns |-> "", type |-> "", page |-> 0, seen |-> <<>>]
IdleReq == [at |-> "idle", route |-> UiRoute("none", ""), query |-> NoQuery, token |-> "", sa |-> "",
            ns |-> "", next |-> 0, found |-> <<>>, to |-> "", verbs |-> {}, permNs |-> ""]

UiInit ==
  /\ uiAuto \in BOOLEAN /\ uiValid = Tokens /\ uiObjects = InitialObjects
  /\ uiCookie = [b \in Browsers |-> NoCookies] /\ uiNs = [b \in Browsers |-> ""]
  /\ uiReq = [b \in Browsers |-> IdleReq] /\ uiPage = [b \in Browsers |-> Blankpage]
  /\ uiWalk = [b \in Browsers |-> NoWalk] /\ uiOut = [b \in Browsers |-> FALSE]
  /\ uiChanges = 0 /\ uiFaults = 0

UiAt(b, where) == uiReq[b].at = where
UiGo(b, r) == uiReq' = [uiReq EXCEPT ![b] = r]

\* The browser's side of an answer.  A full page keeps the namespace of its address, or
\* the stored one, or that of the cookie (getCurrentNamespace of assets/js/app.js).
Remembered(b, a) ==
  IF a.query.htmx \/ a.status # 200 THEN uiNs[b]
  ELSE IF a.query.ns # "" THEN a.query.ns
  ELSE IF uiNs[b] # "" THEN uiNs[b] ELSE uiCookie[b]["sa_namespace_display"]

\* A list answered for its first page starts a walk, the page after the last one seen
\* goes on with it.
Walked(b, a) ==
  IF a.route.kind # "list" \/ a.outcome # "ok" \/ a.query.per # 0 THEN NoWalk
  ELSE IF a.page = 1 THEN [ns |-> a.ns, type |-> a.route.type, page |-> 1, seen |-> a.items]
  ELSE IF uiWalk[b].page + 1 = a.page /\ SameList(uiWalk[b].ns, a.ns) /\ uiWalk[b].type = a.route.type
       THEN [uiWalk[b] EXCEPT !.page = a.page, !.seen = @ \o a.items]
  ELSE NoWalk

UiAnswer(b, a) ==
  /\ uiPage' = [uiPage EXCEPT ![b] = a] /\ UiGo(b, IdleReq)
  /\ uiNs' = [uiNs EXCEPT ![b] = Remembered(b, a)]
  /\ uiWalk' = [uiWalk EXCEPT ![b] = Walked(b, a)]

\* The page of a request, before its contents.
PageOf(b, status, o) ==
  LET q == uiReq[b]
  IN [Blankpage EXCEPT !.route = q.route, !.token = q.token, !.status = status, !.ns = q.ns,
                       !.query = q.query, !.outcome = o]

\* HandleAuthError: htmx is told where to go, a browser redirected; the cookies stay.
HandleAuthError(b, o) ==
  [PageOf(b, IF uiReq[b].query.htmx THEN 401 ELSE 302, o) EXCEPT !.to = "/login"]

-----------------------------------------------------------------------------
(* Sessions.                                                               *)

\* validateAPIServerURL: https, and a host.
validateAPIServerURL(s) == s.https /\ s.host # ""

\* validateTokenPermissions: may the token list Hardware, in all namespaces or in its own.
validateTokenPermissions(t, o1, o2) ==
  o1 = "ok" \/ (TokenOf(t).sa # "" /\ o2 = "ok")

\* The cookies of a login; those of the namespace and the expiry only where there is one.
LoginCookies(old, t, server, skip) ==
  [c \in Cookies |->
     CASE c = "auth_token" -> t
       [] c \in {"auth_apiserver", "apiserver_display"} -> server.host
       [] c \in {"sa_namespace", "sa_namespace_display"} ->
            IF TokenOf(t).sa # "" THEN TokenOf(t).sa ELSE old[c]
       [] c = "token_expiry" -> IF TokenOf(t).exp THEN t ELSE old[c]
       [] c = "insecure_skip_verify" -> skip]

HandleLoginValidate(b, t, server, skip) ==
  /\ UiAt(b, "idle") /\ UNCHANGED uiWorld
  /\ \E o1 \in Calls(t, MayList(t, "")), o2 \in Calls(t, MayList(t, TokenOf(t).sa)) :
       LET asked == ~uiAuto /\ t # "" /\ server.host # "" /\ validateAPIServerURL(server)
           good  == asked /\ validateTokenPermissions(t, o1, o2)
       IN /\ uiPage' = [uiPage EXCEPT ![b] =
               [Blankpage EXCEPT !.status = IF good THEN 200
                                            ELSE IF ~uiAuto /\ server.host # "" /\ ~server.https
                                                 THEN 400 ELSE 403]]
          /\ uiCookie' = IF good THEN [uiCookie EXCEPT ![b] = LoginCookies(@, t, server, skip)]
                         ELSE uiCookie
          /\ uiOut' = IF good THEN [uiOut EXCEPT ![b] = FALSE] ELSE uiOut
          /\ Counted(IF asked /\ (Faulty(o1) \/ Faulty(o2)) THEN 1 ELSE 0)
  /\ uiWalk' = [uiWalk EXCEPT ![b] = NoWalk] /\ UNCHANGED <<uiNs, uiReq>>

\* A fault: the cookies the current token sets are cleared, not those of earlier ones.
LogoutOfToken(b) ==
  LET t == uiCookie[b]["auth_token"] IN
  /\ UiAt(b, "idle")
  /\ uiCookie' = IF uiAuto THEN uiCookie
                 ELSE [uiCookie EXCEPT ![b] = [c \in Cookies |->
                         IF t # "" /\ TokenOf(t).sa = "" /\ c \in {"sa_namespace", "sa_namespace_display"}
                         THEN @[c] ELSE ""]]
  /\ uiOut' = IF uiAuto THEN uiOut ELSE [uiOut EXCEPT ![b] = TRUE]
  /\ uiPage' = [uiPage EXCEPT ![b] = [Blankpage EXCEPT !.status = IF uiAuto THEN 302 ELSE 200]]
  /\ uiWalk' = [uiWalk EXCEPT ![b] = NoWalk]
  /\ UNCHANGED <<uiWorld, uiNs, uiReq, uiFaults>>

HandleLogout(b) ==
  /\ UiAt(b, "idle")
  /\ uiCookie' = IF uiAuto THEN uiCookie ELSE [uiCookie EXCEPT ![b] = NoCookies]
  /\ uiOut' = IF uiAuto THEN uiOut ELSE [uiOut EXCEPT ![b] = TRUE]
  /\ uiPage' = [uiPage EXCEPT ![b] = [Blankpage EXCEPT !.status = IF uiAuto THEN 302 ELSE 200]]
  /\ uiWalk' = [uiWalk EXCEPT ![b] = NoWalk]
  /\ UNCHANGED <<uiWorld, uiNs, uiReq, uiFaults>>

\* GetTokenAndAPIServerFromRequest.
GetTokenAndAPIServerFromRequest(b) ==
  [token |-> uiCookie[b]["auth_token"], server |-> uiCookie[b]["auth_apiserver"]]

\* Where a handler begins once it has its client.
AfterNamespaces(r, q) ==
  CASE r.kind \in {"list", "data"} -> "list"
    [] r.kind = "detail" -> "get"
    [] r.kind = "check" -> "verbs"
    [] r.kind = "search" -> IF q.word \in {"", "ab"} THEN "write" ELSE "search"
    [] r.kind \in {"permissions", "dashboard", "dashboard-data"} -> "write"

Entered(r, q, token, sa) ==
  [IdleReq EXCEPT !.at = IF r.sidebar THEN "namespaces" ELSE AfterNamespaces(r, q),
                  !.route = r, !.query = q, !.token = token, !.sa = sa, !.ns = q.ns, !.next = 1]

\* AutoLoginMiddleware: every request has the one client.
AutoLoginMiddleware(b, r, q) ==
  /\ uiAuto /\ UiGo(b, Entered(r, q, AutoToken, TokenOf(AutoToken).sa))
  /\ UNCHANGED <<uiPage, uiNs, uiWalk, uiFaults>>

\* AuthMiddleware: a client of the cookies' token and API server; the login page without
\* the cookies, or when NewKubeClientFromTokenAndServer fails.
AuthMiddleware(b, r, q) ==
  LET c == GetTokenAndAPIServerFromRequest(b)
      absent == c.token = "" \/ c.server = ""
  IN /\ ~uiAuto
     /\ \/ /\ absent \/ uiFaults < MaxUiFaults
           /\ UiAnswer(b, [Blankpage EXCEPT !.status = 302, !.to = "prefix/login",
                                           !.route = r, !.query = q])
           /\ Counted(IF absent THEN 0 ELSE 1)
        \/ /\ ~absent /\ UiGo(b, Entered(r, q, c.token, TokenOf(c.token).sa))
           /\ UNCHANGED <<uiPage, uiNs, uiWalk, uiFaults>>

UiGet(b, r, q) ==
  /\ UiAt(b, "idle")
  /\ AutoLoginMiddleware(b, r, q) \/ AuthMiddleware(b, r, q)
  /\ UNCHANGED <<uiWorld, uiCookie, uiOut>>

\* The namespace in the path of a button.  updatePaginationURLs puts it there, but htmx
\* has already taken the path of a button of a loaded page; it takes those of swapped
\* content after the rewriting.
ButtonNamespace(b) ==
  IF ~uiPage[b].query.htmx THEN "" ELSE IF uiNs[b] = "" THEN "All" ELSE uiNs[b]

\* A button of the page shown, pressed: per_page is not kept.
TurnPage(b, p) ==
  LET a == uiPage[b] IN
  /\ a.route.kind \in {"list", "data"} /\ p \in Buttons(a.page, a.pages)
  /\ UiGet(b, ResourcePath(a.route.type),
           [NoQuery EXCEPT !.page = p, !.htmx = TRUE, !.ns = ButtonNamespace(b)])

-----------------------------------------------------------------------------
(* The handlers, a call at a time.                                         *)

\* GetKubeNamespaces: a failure leaves the namespace of the token.
GetKubeNamespaces(o, sa) ==
  IF o = "ok" THEN Namespaces ELSE IF sa # "" THEN <<sa>> ELSE <<>>

\* A fault: an only namespace is not taken as the default.
SelectedAll(ns, namespaces) == ns

GetSelectedNamespace(ns, namespaces) ==
  IF ns # "" THEN ns ELSE IF Len(namespaces) = 1 THEN namespaces[1] ELSE ""

ListNamespaces(b) ==
  /\ UiAt(b, "namespaces") /\ UNCHANGED <<uiWorld, uiCookie, uiOut, uiPage, uiNs, uiWalk>>
  /\ \E o \in Calls(uiReq[b].token, TokenOf(uiReq[b].token).namespaces) :
       LET q == uiReq[b] IN
       /\ UiGo(b, [q EXCEPT !.at = AfterNamespaces(q.route, q.query),
                            !.ns = IF q.route.selects
                                   THEN GetSelectedNamespace(@, GetKubeNamespaces(o, q.sa)) ELSE @])
       /\ Counted(IF Faulty(o) THEN 1 ELSE 0)

\* Items of a page, or the empty list where the objects could not be listed.
Listed(b, items, status, o) ==
  LET q == uiReq[b]
      p == Paginated(items, q.query.page, ItemsPerPage(q.route, q.query.per))
  IN [PageOf(b, status, o) EXCEPT !.items = p.items, !.page = p.page, !.pages = p.pages]

\* After an authentication error the Hardware page is still written, without pages.
ListObjects(b) ==
  /\ UiAt(b, "list") /\ UNCHANGED <<uiWorld, uiCookie, uiOut>>
  /\ \E o \in Calls(uiReq[b].token, MayList(uiReq[b].token, uiReq[b].ns)) :
       /\ UiAnswer(b, IF o = "ok" THEN Listed(b, InNamespace(uiReq[b].ns), 200, o)
                      ELSE IF IsAuthError(o) /\ uiReq[b].route.onAuth # "ignored"
                           THEN HandleAuthError(b, o)
                      ELSE Listed(b, <<>>, 200, o))
       /\ Counted(IF Faulty(o) THEN 1 ELSE 0)

ObjectNamed(ns, name) == SelectSeq(uiObjects, LAMBDA o : o.ns = ns /\ o.name = name)

GetObject(b) ==
  /\ UiAt(b, "get") /\ UNCHANGED <<uiWorld, uiCookie, uiOut>>
  /\ \E o \in Calls(uiReq[b].token, May(uiReq[b].token, "get", uiReq[b].query.ns)) :
       LET q == uiReq[b]
           found == ObjectNamed(q.query.ns, q.query.key)
       IN /\ UiAnswer(b, IF o = "ok" /\ found # <<>> THEN [PageOf(b, 200, o) EXCEPT !.items = found]
                         ELSE IF IsAuthError(o) THEN HandleAuthError(b, o)
                         ELSE PageOf(b, q.route.missing, o))
          /\ Counted(IF Faulty(o) THEN 1 ELSE 0)

\* searchHardware and the five like it: the first matches of a kind.
Matches(ns, word) ==
  LET all == SelectSeq(InNamespace(ns), LAMBDA o : word \in {o.name, o.ns})
  IN SubSeq(all, 1, Least(Len(all), MaxSearchResultsPerType))

\* An authentication error answers, and the search goes on all the same.
SearchKind(b) ==
  /\ UiAt(b, "search") /\ UNCHANGED <<uiWorld, uiCookie, uiOut, uiPage, uiNs, uiWalk>>
  /\ \E o \in Calls(uiReq[b].token, MayList(uiReq[b].token, uiReq[b].ns)) :
       LET q == uiReq[b]
           hits == IF o = "ok" THEN Matches(q.ns, q.query.word) ELSE <<>>
       IN /\ UiGo(b, [q EXCEPT !.next = @ + 1, !.at = IF q.next = Len(Kinds) THEN "write" ELSE @,
                              !.found = @ \o [i \in DOMAIN hits |-> [type |-> Kinds[q.next], object |-> hits[i]]],
                              !.to = IF IsAuthError(o) THEN "/login" ELSE @])
          /\ Counted(IF Faulty(o) THEN 1 ELSE 0)

TinkerbellVerbs == <<"get", "list", "create">>

\* A fault: the row has the scope of the last verb that was allowed.
ReviewVerbLast(b) ==
  /\ UiAt(b, "verbs") /\ UNCHANGED <<uiWorld, uiCookie, uiOut, uiPage, uiNs, uiWalk>>
  /\ LET q == uiReq[b]
         v == TinkerbellVerbs[q.next]
     IN \E o1 \in Calls(q.token, TRUE), o2 \in Calls(q.token, TRUE) :
          LET wide   == o1 = "ok" /\ v \in TokenOf(q.token).cluster
              asked  == o1 = "ok" /\ ~wide /\ q.sa # ""
              narrow == asked /\ o2 = "ok" /\ May(q.token, v, q.sa)
          IN /\ UiGo(b, [q EXCEPT !.next = @ + 1,
                           !.at = IF q.next = Len(TinkerbellVerbs) THEN "write" ELSE @,
                           !.verbs = IF wide \/ narrow THEN @ \cup {v} ELSE @,
                           !.permNs = IF narrow THEN q.sa ELSE IF wide THEN "" ELSE @])
             /\ Counted(IF Faulty(o1) \/ (asked /\ Faulty(o2)) THEN 1 ELSE 0)

\* getResourcePermissions, a verb at a time: everywhere, or else in the token's namespace.
ReviewVerb(b) ==
  /\ UiAt(b, "verbs") /\ UNCHANGED <<uiWorld, uiCookie, uiOut, uiPage, uiNs, uiWalk>>
  /\ LET q == uiReq[b]
         v == TinkerbellVerbs[q.next]
     IN \E o1 \in Calls(q.token, TRUE), o2 \in Calls(q.token, TRUE) :
          LET wide   == o1 = "ok" /\ v \in TokenOf(q.token).cluster
              asked  == o1 = "ok" /\ ~wide /\ q.sa # ""
              narrow == asked /\ o2 = "ok" /\ May(q.token, v, q.sa)
          IN /\ UiGo(b, [q EXCEPT !.next = @ + 1,
                           !.at = IF q.next = Len(TinkerbellVerbs) THEN "write" ELSE @,
                           !.verbs = IF wide \/ narrow THEN @ \cup {v} ELSE @,
                           !.permNs = IF narrow THEN q.sa ELSE @])
             /\ Counted(IF Faulty(o1) \/ (asked /\ Faulty(o2)) THEN 1 ELSE 0)

\* The results of a search, cut; a redirect already written keeps its status, one only
\* announced to htmx does not.
WritePage(b) ==
  /\ UiAt(b, "write") /\ UNCHANGED <<uiWorld, uiCookie, uiOut, uiFaults>>
  /\ LET q == uiReq[b] IN
     UiAnswer(b, [PageOf(b, IF q.to # "" /\ ~q.query.htmx THEN 302 ELSE 200, "ok")
                    EXCEPT !.to = q.to, !.verbs = q.verbs,
                           !.ns = IF q.route.kind = "check" THEN q.permNs ELSE @,
                           !.items = SubSeq(q.found, 1, Least(Len(q.found), MaxSearchResults))])

-----------------------------------------------------------------------------
(* The cluster.                                                            *)

Expire(t) == t \in uiValid /\ uiValid' = uiValid \ {t} /\ UNCHANGED uiObjects
Delete(i) == /\ i \in DOMAIN uiObjects /\ uiObjects' = RemoveAt(uiObjects, i) /\ UNCHANGED uiValid

ClusterChanges ==
  /\ uiChanges < MaxUiChanges /\ uiChanges' = uiChanges + 1
  /\ (\E t \in Tokens : Expire(t)) \/ (\E i \in 1..Len(InitialObjects) : Delete(i))
  /\ uiWalk' = [b \in Browsers |-> NoWalk]
  /\ UNCHANGED <<uiAuto, uiCookie, uiNs, uiReq, uiPage, uiOut, uiFaults>>

UiNext ==
  \/ ClusterChanges
  \/ \E b \in Browsers :
       \/ \E t \in Tokens, s \in UiServers, skip \in {"", "true"} : HandleLoginValidate(b, t, s, skip)
       \/ HandleLogout(b)
       \/ \E r \in UiRoutes, q \in UiQueries : UiGet(b, r, q)
       \/ \E p \in 1..(Len(InitialObjects) + 1) : TurnPage(b, p)
       \/ ListNamespaces(b) \/ ListObjects(b) \/ GetObject(b) \/ SearchKind(b)
       \/ ReviewVerb(b) \/ WritePage(b)

UiSpec == UiInit /\ [][UiNext]_uiVars

-----------------------------------------------------------------------------
UiTypeOK ==
  /\ uiValid \subseteq Tokens /\ uiChanges \in 0..MaxUiChanges
  /\ \A b \in Browsers :
       /\ DOMAIN uiCookie[b] = Cookies /\ uiOut[b] \in BOOLEAN
       /\ uiReq[b].at \in {"idle", "namespaces", "list", "get", "search", "verbs", "write"}
       /\ uiPage[b].status \in {0, 200, 302, 400, 401, 403, 404}

\* Pages of one list turned one after the other, with nothing changing, show every object
\* of the list's namespace once, and every page can be reached from every other
\* by its buttons: pages, clamping and rest of GetPaginated... and PaginationNav agree.
PagesShowAll ==
  \A b \in Browsers :
    LET a == uiPage[b] IN
    /\ uiWalk[b].page # 0 /\ uiWalk[b].page = a.pages => uiWalk[b].seen = InNamespace(uiWalk[b].ns)
    /\ a.route.kind = "list" /\ a.outcome = "ok" =>
         /\ a.page \in 1..a.pages
         /\ \A p \in 1..a.pages : p < a.page => \E n \in Buttons(a.page, a.pages) : n = a.page - 1
         /\ a.page < a.pages => a.page + 1 \in Buttons(a.page, a.pages)

\* Who may only list in the namespace of the own service account is never refused on the
\* pages of Hardware, Workflows, Templates and rule sets that name no namespace: their
\* default is the namespace GetKubeNamespaces falls back to.
HomeOnly(t) ==
  /\ TokenOf(t).sa = TokenOf(t).home /\ TokenOf(t).sa # "" /\ ~TokenOf(t).namespaces
  /\ "list" \in TokenOf(t).scoped
ScopedUserServed ==
  \A b \in Browsers :
    LET a == uiPage[b] IN
    a.route.kind = "list" /\ a.route.selects /\ a.query.ns = "" /\ a.token # "" =>
      ~(a.outcome = "forbidden" /\ HomeOnly(a.token))

\* After a logout no request of the browser reaches a handler of a protected route before
\* the next login: the cookies of the session, whoever logged in and however often, are gone.
LoggedOutStaysOut ==
  \A b \in Browsers : uiOut[b] => uiReq[b].at = "idle" /\ uiCookie[b] = NoCookies

\* What the permissions page says of a verb is true where the page says it: in the
\* namespace it names, or everywhere when it names none, whichever reviews failed.
PermissionsTold ==
  \A b \in Browsers :
    LET a == uiPage[b] IN
    a.route.kind = "check" /\ a.status = 200 =>
      \A v \in a.verbs : IF a.ns = "" THEN v \in TokenOf(a.token).cluster ELSE May(a.token, v, a.ns)

\* Each user is shown the objects and permissions that are theirs.
UiServed == PagesShowAll /\ ScopedUserServed /\ LoggedOutStaysOut /\ PermissionsTold
=============================================================================
