----------------------------- MODULE MuxManager -----------------------------
(***************************************************************************)
(* The user interface of lsmux: pages of panes, one remote session in each *)
(* pane, and selectors, panes in which the user picks hosts.  Keys, clicks *)
(* and the callbacks of connections all run on one goroutine, so each is a *)
(* single step; what a selector does when it is left was captured when it  *)
(* was opened, and sessions come and go in between.                        *)
(*                                                                         *)
(* The operators on ui (Refresh to AddPanes) are the manager's methods.    *)
(* The layout tree of a page is its set of leaves: how it divides the      *)
(* screen is not modelled, whether a pane can be found in it is.           *)
(***************************************************************************)
EXTENDS Naturals, Sequences, FiniteSets, SequencesExt

CONSTANTS MaxPages, MaxPanes   \* bounds on the pages and panes ever made

ASSUME MuxManagerAssumption == MaxPages \in Nat \ {0} /\ MaxPanes \in Nat \ {0, 1}

PageIds == 1..MaxPages
PaneIds == 1..MaxPanes
Nil == 0
Initial == MaxPanes + 1      \* the selector lsmux starts with, which is no pane
List == MaxPanes + 2         \* the page list
Focusable == PaneIds \cup {Nil, Initial, List}

VARIABLES
  locked,     \* command mode without --allow-layout-change
  hold,       \* command mode with --hold
  ui,         \* the Manager
  pane,       \* what each pane is
  home,       \* the page its connection was started for
  selector,   \* what the closures of a selector captured
  broadcast,
  prefixActive,  \* the prefix was typed, and no key of the manager's after it
  overlapped, \* a selector was opened while another was open
  orphaned    \* a pane was removed while a selector was open

managerVars ==
  <<locked, hold, ui, pane, home, selector, broadcast, prefixActive, overlapped, orphaned>>

Selectors == {p \in PaneIds : pane[p] = "selector"}
Transient(p) == p \in PaneIds /\ selector[p].mode # "none"
HasTerm(p) == p \in PaneIds /\ pane[p] \in {"live", "closing", "done"}

NoPage == [panes |-> <<>>, leaves |-> {}, focus |-> Nil]
Start == [pages |-> <<>>, page |-> [g \in PageIds |-> NoPage], current |-> Nil,
          nextPage |-> 1, nextPane |-> 1,
          appFocus |-> Nil,      \* the focus of the application
          selFocus |-> Nil,      \* m.selectorFocus
          shown |-> {},           \* the panes on the screen
          listed |-> <<>>,        \* the pages the page list shows, if it is on the screen
          running |-> TRUE]

Here(u) == u.page[u.current]
\* The first place of x in s is taken out.
Without(s, x) == IF x \in ToSet(s) THEN RemoveAt(s, CHOOSE i \in DOMAIN s : s[i] = x) ELSE s

(***************************************************************************)
(* The manager's methods.                                                  *)
(***************************************************************************)
\* Deviation: the application keeps its focus.
RefreshKeepingFocus(u) ==
  [u EXCEPT !.shown = IF u.current = Nil THEN {} ELSE Here(u).leaves, !.listed = <<>>]
\* SwitchToPage("main") takes the page list from the screen.
Refresh(u) ==
  [u EXCEPT !.shown = IF u.current = Nil THEN {} ELSE Here(u).leaves,
            !.listed = <<>>,
            !.appFocus = IF u.current # Nil /\ Here(u).focus # Nil THEN Here(u).focus ELSE @]

Stop(u) == [u EXCEPT !.running = FALSE]

\* layout.remove: a tree without panes has one empty leaf.
RemoveLeaf(leaves, p) == IF leaves = {p} THEN {Nil} ELSE leaves \ {p}

FirstPage(u) == IF u.pages = <<>> THEN Nil ELSE u.pages[1]

\* Deviation: the arguments are taken in the wrong order.
RemovePageSwapped(u, target, fallback) ==
  [u EXCEPT !.pages = Without(@, fallback), !.current = target]
RemovePage(u, target, fallback) ==
  LET w == [u EXCEPT !.pages = Without(@, target)] IN
  [w EXCEPT !.current = IF fallback # Nil THEN fallback ELSE FirstPage(w)]

\* The pane is taken from the current page, whichever page it is on.
RemoveTransient(u, target, fallback) ==
  [u EXCEPT !.page[u.current] =
     [panes |-> Without(@.panes, target), leaves |-> RemoveLeaf(@.leaves, target),
      focus |-> fallback]]

\* Deviation: the page list is not taken from the screen.
RemovePaneKeepsList(u, g, target) ==
  LET w == [u EXCEPT !.page[g] = [panes |-> Without(@.panes, target),
                                  leaves |-> RemoveLeaf(@.leaves, target), focus |-> @.focus],
                     !.pages = IF Without(u.page[g].panes, target) = <<>> THEN Without(@, g) ELSE @] IN
  IF w.pages = <<>> THEN Stop([w EXCEPT !.current = Nil])
  ELSE IF w.pages # u.pages THEN [w EXCEPT !.current = FirstPage(w)] ELSE w
\* The last pane of a page takes the page with it, and the first page becomes
\* the current one, whichever was.
RemovePane(u, g, target) ==
  LET index == CHOOSE i \in DOMAIN u.page[g].panes : u.page[g].panes[i] = target
      panes == Without(u.page[g].panes, target)
      w == [u EXCEPT !.page[g] =
              [panes |-> panes, leaves |-> RemoveLeaf(@.leaves, target),
               focus |-> IF @.focus = target /\ panes # <<>>
                         THEN panes[IF index > Len(panes) THEN Len(panes) ELSE index]
                         ELSE @.focus]]
      x == [w EXCEPT !.pages = Without(@, g)]
  IN IF target \notin ToSet(u.page[g].panes) THEN u
     ELSE IF panes # <<>> THEN IF u.current = g THEN Refresh(w) ELSE w
     ELSE IF x.pages = <<>> THEN Stop([x EXCEPT !.current = Nil])
     ELSE Refresh([x EXCEPT !.current = FirstPage(x)])

NewPanes(u, n) == [i \in 1..n |-> u.nextPane + i - 1]

CreatePage(u, new) ==
  [u EXCEPT !.page[u.nextPage] = [panes |-> new, leaves |-> ToSet(new), focus |-> new[1]],
            !.pages = Append(@, u.nextPage), !.current = u.nextPage,
            !.nextPage = @ + 1, !.nextPane = @ + Len(new)]

\* splitLayout: the focused pane is to be found in the layout.
Splits(u) == Here(u).focus \in Here(u).leaves
AddPanes(u, new) ==
  [u EXCEPT !.page[u.current] =
     [panes |-> @.panes \o new, leaves |-> @.leaves \cup ToSet(new), focus |-> Last(new)],
            !.nextPane = @ + Len(new)]

(***************************************************************************)
(* Keys.                                                                   *)
(***************************************************************************)
\* captureInput: all keys go to the selector.
ToSelector ==
  /\ ui.selFocus # Nil
  /\ ui.appFocus = ui.selFocus \/ (ui.current # Nil /\ Transient(Here(ui).focus))
\* A key of the manager's own, after the prefix.
Command ==
  /\ ui.running /\ ~ToSelector /\ ui.current # Nil
  /\ prefixActive /\ prefixActive' = FALSE
LayoutCommand == Command /\ ~locked

Keep == UNCHANGED <<locked, hold, home, broadcast>>
KeepPrefix == Keep /\ UNCHANGED prefixActive

Prefix ==
  /\ ui.running /\ ~ToSelector
  /\ prefixActive' = TRUE
  /\ UNCHANGED <<ui, pane, selector, overlapped, orphaned>> /\ Keep

\* Any other key after the prefix, and a command that is refused.
Unbound ==
  /\ ui.running /\ ~ToSelector
  /\ prefixActive /\ prefixActive' = FALSE
  /\ UNCHANGED <<ui, pane, selector, overlapped, orphaned>> /\ Keep

ManagerInit ==
  /\ locked \in BOOLEAN /\ hold \in BOOLEAN
  /\ \/ /\ \E n \in 1..2 : ui = Refresh(CreatePage(Start, NewPanes(Start, n)))
        /\ pane = [p \in PaneIds |-> IF p < ui.nextPane THEN "connecting" ELSE "new"]
        /\ home = [p \in PaneIds |-> 1]
        /\ selector = [p \in PaneIds \cup {Initial} |-> [mode |-> "none"]]
     \/ /\ ui = [Start EXCEPT !.appFocus = Initial, !.selFocus = Initial]
        /\ pane = [p \in PaneIds |-> "new"]
        /\ home = [p \in PaneIds |-> Nil]
        /\ selector = [p \in PaneIds \cup {Initial} |->
             IF p = Initial THEN [mode |-> "initial"] ELSE [mode |-> "none"]]
  /\ broadcast = FALSE /\ prefixActive = FALSE /\ overlapped = FALSE /\ orphaned = FALSE

\* showSelector, where it makes a page for the selector ...
OpenOnNewPage ==
  /\ LayoutCommand /\ ui.nextPage < MaxPages /\ ui.nextPane < MaxPanes
  /\ LET s == ui.nextPane IN
     /\ ui' = [Refresh(CreatePage(ui, <<s>>)) EXCEPT !.selFocus = s, !.appFocus = s]
     /\ pane' = [pane EXCEPT ![s] = "selector"]
     /\ selector' = [selector EXCEPT ![s] =
          [mode |-> "page", page |-> ui.nextPage, prev |-> ui.current]]
  /\ overlapped' = (overlapped \/ Selectors # {})
  /\ UNCHANGED orphaned /\ Keep

\* ... and where it splits the focused pane (insertTransientPane).
OpenBeside ==
  /\ LayoutCommand /\ ui.nextPane < MaxPanes
  /\ LET s == ui.nextPane
         w == [ui EXCEPT !.nextPane = @ + 1] IN
     IF Splits(ui)
     THEN /\ ui' = [Refresh(AddPanes(ui, <<s>>)) EXCEPT !.selFocus = s, !.appFocus = s]
          /\ pane' = [pane EXCEPT ![s] = "selector"]
          /\ selector' = [selector EXCEPT ![s] = [mode |-> "pane", prev |-> Here(ui).focus]]
          /\ overlapped' = (overlapped \/ Selectors # {})
     ELSE ui' = w /\ UNCHANGED <<pane, selector, overlapped>>
  /\ UNCHANGED orphaned /\ Keep

\* The part Done and Cancel have in common.
CloseSelector(s) ==
  LET u == [ui EXCEPT !.selFocus = Nil]  c == selector[s] IN
  CASE c.mode = "page" -> RemovePage(u, c.page, c.prev)
    [] c.mode = "pane" -> RemoveTransient(u, s, c.prev)
    [] c.mode = "initial" -> u
Entered(s) == ui.running /\ ui.appFocus = s /\ selector[s].mode # "none"
Gone(s) == [p \in PaneIds |-> IF p = s THEN "gone" ELSE pane[p]]

\* SetDoneFunc.  Panes that cannot be placed are dropped, and the screen stays as it was.
Pick(s, n) ==
  /\ Entered(s)
  /\ ui.nextPane + n <= MaxPanes + 1
  /\ LET u == CloseSelector(s)
         new == NewPanes(u, n)
         start(g, w) == /\ ui' = Refresh(w)
                        /\ pane' = [p \in PaneIds |-> IF p \in ToSet(new) THEN "connecting" ELSE Gone(s)[p]]
                        /\ home' = [p \in PaneIds |-> IF p \in ToSet(new) THEN g ELSE home[p]]
     IN IF selector[s].mode # "pane"
        THEN u.nextPage <= MaxPages /\ start(u.nextPage, CreatePage(u, new))
        ELSE IF Splits(u)
        THEN start(u.current, AddPanes(u, new))
        ELSE /\ ui' = [u EXCEPT !.nextPane = @ + n]
             /\ pane' = Gone(s) /\ UNCHANGED home
  /\ UNCHANGED <<locked, hold, selector, broadcast, prefixActive, overlapped, orphaned>>

\* Deviation: lsmux stops if nothing but the selector was on the page.
CancelledToNothing(u) == u.current = Nil \/ Cardinality(Here(u).leaves) = 1
\* SetCancelFunc: lsmux stops if there is no page, or no pane on the page.
NothingLeft(u) == u.current = Nil \/ Here(u).panes = <<>>
Cancel(s) ==
  /\ Entered(s)
  /\ LET u == CloseSelector(s) IN
     ui' = IF NothingLeft(u) THEN Stop(u) ELSE Refresh(u)
  /\ pane' = Gone(s)
  /\ UNCHANGED <<selector, overlapped, orphaned>> /\ KeepPrefix

\* switchPage
SwitchPage ==
  /\ Command /\ Len(ui.pages) > 1
  /\ \E g \in ToSet(ui.pages) : ui' = Refresh([ui EXCEPT !.current = g])
  /\ UNCHANGED <<pane, selector, overlapped, orphaned>> /\ Keep

CyclePane ==
  /\ Command /\ Len(Here(ui).panes) > 1
  /\ LET panes == Here(ui).panes
         index == IF Here(ui).focus \in ToSet(panes)
                  THEN CHOOSE i \in DOMAIN panes : panes[i] = Here(ui).focus ELSE 1 IN
     ui' = Refresh([ui EXCEPT !.page[ui.current].focus = panes[(index % Len(panes)) + 1]])
  /\ UNCHANGED <<pane, selector, overlapped, orphaned>> /\ Keep

ShowPageList ==
  /\ Command /\ ui.pages # <<>>
  /\ ui' = [ui EXCEPT !.listed = ui.pages, !.shown = {}, !.appFocus = List]
  /\ UNCHANGED <<pane, selector, overlapped, orphaned>> /\ Keep

\* An entry of the list stands for a position in the pages.
PickPage ==
  /\ ui.running
  /\ \E i \in DOMAIN ui.listed \cap DOMAIN ui.pages : ui' = Refresh([ui EXCEPT !.current = ui.pages[i]])
  /\ UNCHANGED <<pane, selector, overlapped, orphaned>> /\ KeepPrefix
LeavePageList ==
  /\ ui.running /\ ui.appFocus = List
  /\ ui' = [ui EXCEPT !.listed = <<>>, !.shown = Here(ui).leaves, !.appFocus = Here(ui).focus]
  /\ UNCHANGED <<pane, selector, overlapped, orphaned>> /\ KeepPrefix

\* closeFocusedPane: a pane that connects, and a selector, cannot be closed.
ClosePane ==
  /\ Command
  /\ LET p == Here(ui).focus IN
     CASE p \in PaneIds /\ pane[p] \in {"failed", "done"} ->
            /\ ui' = RemovePane(ui, ui.current, p) /\ pane' = Gone(p)
            /\ orphaned' = (orphaned \/ Selectors # {})
       [] p \in PaneIds /\ pane[p] = "live" ->
            pane' = [pane EXCEPT ![p] = "closing"] /\ UNCHANGED <<ui, orphaned>>
       [] OTHER -> UNCHANGED <<ui, pane, orphaned>>
  /\ UNCHANGED <<selector, overlapped>> /\ Keep

ToggleBroadcast ==
  /\ Command /\ broadcast' = ~broadcast
  /\ UNCHANGED <<locked, hold, ui, pane, home, selector, overlapped, orphaned>>

Quit ==
  /\ Command /\ ui' = Stop(ui)
  /\ UNCHANGED <<pane, selector, overlapped, orphaned>> /\ Keep

(***************************************************************************)
(* The mouse: captureMouse finds panes with a terminal, by their place on  *)
(* the screen even under the page list; the others get the application's   *)
(* focus from the library.                                                 *)
(***************************************************************************)
Click(p) ==
  /\ ui.running /\ ui.current # Nil
  /\ \/ /\ HasTerm(p) /\ p \in ToSet(Here(ui).panes)
        /\ ui' = [ui EXCEPT !.page[ui.current].focus = p, !.appFocus = p]
     \/ /\ ~HasTerm(p) /\ p \in ui.shown \ {Nil}
        /\ ui' = [ui EXCEPT !.appFocus = p]
  /\ UNCHANGED <<pane, selector, overlapped, orphaned>> /\ KeepPrefix

(***************************************************************************)
(* Connections.                                                            *)
(***************************************************************************)
RefreshIfCurrent(g) == IF ui.current = g THEN Refresh(ui) ELSE ui

\* activatePane
Connected(p) ==
  /\ ui.running /\ pane[p] = "connecting"
  /\ pane' = [pane EXCEPT ![p] = "live"]
  /\ ui' = RefreshIfCurrent(home[p])
  /\ UNCHANGED <<selector, overlapped, orphaned>> /\ KeepPrefix

\* replacePaneWithError
ConnectFails(p) ==
  /\ ui.running /\ pane[p] = "connecting"
  /\ pane' = [pane EXCEPT ![p] = "failed"]
  /\ ui' = RefreshIfCurrent(home[p])
  /\ UNCHANGED <<selector, overlapped, orphaned>> /\ KeepPrefix

\* The exit handler of activatePane.
Exits(p) ==
  /\ ui.running /\ pane[p] \in {"live", "closing"}
  /\ IF hold THEN pane' = [pane EXCEPT ![p] = "done"] /\ UNCHANGED <<ui, orphaned>>
     ELSE /\ pane' = Gone(p) /\ ui' = RemovePane(ui, home[p], p)
          /\ orphaned' = (orphaned \/ Selectors # {})
  /\ UNCHANGED <<selector, overlapped>> /\ KeepPrefix

Stopped == ~ui.running /\ UNCHANGED managerVars

ManagerNext ==
  \/ Prefix \/ Unbound \/ OpenOnNewPage \/ OpenBeside
  \/ \E s \in PaneIds \cup {Initial} : Cancel(s) \/ \E n \in 1..2 : Pick(s, n)
  \/ SwitchPage \/ CyclePane \/ ShowPageList \/ PickPage \/ LeavePageList \/ ClosePane
  \/ ToggleBroadcast \/ Quit
  \/ \E p \in PaneIds : Click(p) \/ Connected(p) \/ ConnectFails(p) \/ Exits(p)
  \/ Stopped

ManagerSpec == ManagerInit /\ [][ManagerNext]_managerVars

(***************************************************************************)
(* Properties.                                                             *)
(***************************************************************************)
\* Sessions end in the background, and pages with them: the entry of the page
\* list the user picks is still the page it names.
ListNamesPages == ui.running /\ ui.listed # <<>> => ui.listed = ui.pages

\* broadcastKey sends a key to the panes of all pages but the focused one; the
\* library gives it to the pane that has the application's focus.  The key after
\* the prefix is not broadcast, unless it is Ctrl-C (or a page key that does not
\* scroll), which captureInput looks at first.
Broadcasted(key) ==
  {p \in UNION {ToSet(ui.page[g].panes) : g \in ToSet(ui.pages)} :
     /\ broadcast /\ (key = "interrupt" \/ ~prefixActive)
     /\ HasTerm(p) /\ p # Here(ui).focus}
Deliveries(key, p) ==
  (IF p = ui.appFocus THEN 1 ELSE 0) + (IF p \in Broadcasted(key) THEN 1 ELSE 0)

\* Wherever focus and clicks have gone and whatever has been closed, a key typed
\* in a pane reaches no pane twice, and with broadcast, but for an unbound key
\* after the prefix, no session on the page is left out.
KeyOncePerPane ==
  ui.running /\ ui.current # Nil /\ ~ToSelector /\ HasTerm(ui.appFocus) =>
    \A key \in {"interrupt", "other"} :
      /\ \A p \in PaneIds : Deliveries(key, p) <= 1
      /\ broadcast /\ (key = "interrupt" \/ ~prefixActive) /\ (~overlapped \/ ~orphaned) =>
           \A p \in ToSet(Here(ui).panes) : HasTerm(p) => Deliveries(key, p) = 1

\* The docs of the broadcast key: input goes to all panes on the page.
BroadcastStaysOnPage ==
  ui.running /\ ui.current # Nil => Broadcasted("other") \subseteq ToSet(Here(ui).panes)

\* Every session, and every connection that is being made, has its pane in the
\* layout of a page the user can go to.  (A selector on a page of its own that
\* is left open while another is used, as it can be once a pane has gone under
\* it, takes the panes made next to it with it.)
Sessions == {p \in PaneIds : pane[p] \in {"connecting", "live", "closing", "failed", "done"}}
SessionsReachable ==
  ui.running /\ (~overlapped \/ ~orphaned) => \A p \in Sessions : \E g \in ToSet(ui.pages) :
    p \in ToSet(ui.page[g].panes) \cap ui.page[g].leaves

\* lsmux stops when the user quits it or nothing is left on any page, never
\* with sessions still there.  (Cancelling a selector looks at one page only,
\* and stops if that has been emptied while the selector was open.)
StopsWhenDone ==
  [][ui.running /\ ~ui'.running => pane' = pane \/ Sessions' = {} \/ orphaned]_managerVars
=============================================================================
