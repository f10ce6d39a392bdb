----------------------------- MODULE CodeGenerator -----------------------------
(***************************************************************************)
(* The code generator's front end: an index page whose router follows the  *)
(* hash of the address, highlights the link of the page it names and loads *)
(* that page into a frame; the sidebar around the links; and the generator *)
(* page, which loads code through the same frame.  A frame does one        *)
(* navigation at a time, and the page it shows works on until the next one *)
(* has arrived.                                                            *)
(***************************************************************************)
EXTENDS Sidebar, GeneratorPage

CONSTANT
    Gestures    \* bound on what the user does

ASSUME CodeGeneratorConstantsOK == Gestures \in Nat

VARIABLES
    hash,       \* of the address
    events,     \* hashchange events that wait to be handled
    main,       \* the page the frame is bound to
    links,      \* pages whose links are highlighted
    frame,      \* the page the frame shows, or "error"
    nav,        \* what the frame is loading: a page, "code" or "none"
    asked,      \* the tables and the schema of the code it is loading
    lost,       \* history: see FrameFollowsHash
    gestures    \* what the user has done so far

indexVars == <<hash, events, main, links>>
frameVars == <<frame, nav, asked, lost>>
vars == <<sidebarVars, pageVars, alert, indexVars, frameVars, gestures>>

(* The routes. *)
menus == {"main", "generator"}
Hash == menus \cup {"other"}   \* "other" has no route

NoCode == [tables |-> {}, schema |-> NoSchema]

IndexTypeOK ==
    /\ hash \in Hash /\ events \in Nat /\ main \in menus /\ links \subseteq menus
    /\ frame \in menus \cup {"error"} /\ nav \in menus \cup {"code", "none"}
    /\ asked \in [tables : SUBSET Table, schema : Schema \cup {NoSchema}]
    /\ lost \in BOOLEAN /\ gestures \in 0 .. Gestures

TypeOK == SidebarTypeOK /\ GeneratorTypeOK /\ IndexTypeOK

-------------------------------------------------------------------------------
(* The address changes; the browser queues the event. *)
SetHash(h) == h # hash /\ hash' = h /\ events' = events + 1 /\ UNCHANGED <<main, links>>

(* Mutant of Follow: every route closes over the last page of the loop. *)
FollowLast(h) ==
    /\ main' = "generator" /\ links' = {h} /\ treeActive' = TRUE
    /\ nav' = IF main = "generator" THEN nav ELSE "generator"
    /\ UNCHANGED <<ready, menuOpen, shown, fx, collapse, sidebarOpen, width, height,
                   minHeight, fixedFolded>>

(* Mutant of Follow: the highlight of the last page stays. *)
FollowKeeps(h) ==
    /\ main' = h /\ links' = links \cup {h} /\ treeActive' = TRUE
    /\ nav' = IF main = h THEN nav ELSE h
    /\ UNCHANGED <<ready, menuOpen, shown, fx, collapse, sidebarOpen, width, height,
                   minHeight, fixedFolded>>

(* The callback of a route: it binds the frame to the page, which the      *)
(* frame then loads if it is another one, and moves the highlight.         *)
Follow(h) ==
    /\ main' = h /\ links' = {h} /\ treeActive' = TRUE
    /\ nav' = IF main = h THEN nav ELSE h
    /\ UNCHANGED <<ready, menuOpen, shown, fx, collapse, sidebarOpen, width, height,
                   minHeight, fixedFolded>>

(* The router's reload: it looks the hash up as it is now.  It has no      *)
(* index to go to for an unknown one.                                      *)
reload ==
    \/ hash \in menus /\ Follow(hash)
    \/ hash \notin menus /\ UNCHANGED <<main, links, nav, sidebarVars>>

HashChange ==
    /\ events > 0 /\ events' = events - 1
    /\ reload
    /\ UNCHANGED <<hash, frame, asked, lost, pageVars, alert, gestures>>

(* The index page has been loaded, with the main page in its frame, and    *)
(* its router started on the hash it was opened with.                      *)
Init ==
    /\ SidebarInit
    /\ hash \in Hash /\ events = 0 /\ gestures = 0
    /\ main = IF hash \in menus THEN hash ELSE "main"
    /\ links = {main} /\ frame = "main" /\ nav = IF main = "main" THEN "none" ELSE main
    /\ asked = NoCode /\ lost = FALSE /\ alert = FALSE
    /\ databases = "missing" /\ schema = NoSchema /\ request = Idle /\ rows = {}
    /\ selected = {} /\ tables = {} /\ showList = TRUE /\ astray = FALSE

-------------------------------------------------------------------------------
(* A page arrives in the frame and replaces the one there. *)
PageArrives ==
    /\ nav \in menus /\ frame' = nav /\ nav' = "none" /\ lost' = FALSE
    /\ IF nav = "generator" THEN Load ELSE Unload
    /\ UNCHANGED <<asked, indexVars, sidebarVars, alert, gestures>>

(* What the server answers instead is shown, and the page is gone. *)
FrameFails ==
    /\ frame' = "error" /\ nav' = "none" /\ asked' = NoCode /\ lost' = TRUE /\ Unload
    /\ UNCHANGED <<indexVars, sidebarVars, alert, gestures>>

PageFails == nav \in menus /\ FrameFails

(* The code comes as a download, which leaves the frame as it is. *)
CodeArrives ==
    /\ nav = "code" /\ asked.tables \subseteq Has[asked.schema]
    /\ nav' = "none" /\ asked' = NoCode
    /\ UNCHANGED <<frame, lost, indexVars, sidebarVars, pageVars, alert, gestures>>

CodeFails == nav = "code" /\ FrameFails

(* The request for code takes the frame from a page still on its way. *)
AskForCode ==
    /\ Generate
    /\ nav' = "code" /\ asked' = [tables |-> selected, schema |-> schema]
    /\ lost' = (lost \/ nav \in menus)
    /\ UNCHANGED <<frame, indexVars, sidebarVars>>

Arrivals ==
    /\ DatabasesArrive \/ RowsArrive \/ RowsFail
    /\ UNCHANGED <<indexVars, frameVars, sidebarVars, gestures>>

(* The ready handler, and the ends of animations.  An open menu takes the  *)
(* highlight off all its links.                                            *)
SidebarStep ==
    /\ \/ (Ready \/ Shut) /\ UNCHANGED links
       \/ (\E hover \in BOOLEAN : Opened(hover)) /\ links' = {}
    /\ UNCHANGED <<hash, events, main, frameVars, pageVars, alert, gestures>>

-------------------------------------------------------------------------------
(* What the user does to the sidebar and the window.  Before the handlers  *)
(* are there the toggle is a link to the empty hash.                       *)
SidebarGesture ==
    \/ /\ \/ ~alert /\ (CloseMenu \/ OpenMenu \/ Toggle \/ ClickContent)
          \/ \E w \in Widths, h \in Heights : Resize(w, h)
       /\ UNCHANGED <<indexVars, frameVars, pageVars, alert>>
    \/ /\ ~ready /\ ~alert /\ SetHash("other")
       /\ UNCHANGED <<frameVars, sidebarVars, pageVars, alert>>

ClickLink(p) == LinksInReach /\ ~alert /\ SetHash(p)

(* A link, or another hash in the address bar. *)
AddressGesture ==
    /\ (\E p \in menus : ClickLink(p)) \/ (\E h \in Hash : SetHash(h))
    /\ UNCHANGED <<frameVars, sidebarVars, pageVars, alert>>

PageGesture ==
    /\ frame = "generator"
    /\ \/ AskForCode
       \/ /\ \/ \E s \in Schema : ChooseSchema(s)
             \/ \E t \in Table : Pick(t)
             \/ Query \/ ConfigGen \/ Refuse \/ Return
          /\ UNCHANGED <<frameVars, indexVars, sidebarVars>>

Gesture ==
    /\ gestures < Gestures /\ gestures' = gestures + 1
    /\ \/ SidebarGesture
       \/ AddressGesture
       \/ PageGesture
       \/ CloseAlert /\ UNCHANGED <<frameVars, indexVars, sidebarVars>>

Next ==
    \/ HashChange \/ SidebarStep
    \/ PageArrives \/ PageFails \/ CodeArrives \/ CodeFails \/ Arrivals
    \/ Gesture

Spec == Init /\ [][Next]_vars

-------------------------------------------------------------------------------
(* With no event under way the frame is bound to the page the hash names,  *)
(* and no other link is highlighted, however fast the hash changed.        *)
AddressFollowed == events = 0 /\ hash \in menus => main = hash /\ links \subseteq {hash}

(* With no navigation under way either the frame shows that page, unless   *)
(* the answer was an error or a request for code took the frame from the   *)
(* page it was loading; then the page's link is dead.                      *)
FrameFollowsHash ==
    events = 0 /\ nav = "none" /\ hash \in menus /\ ~lost => frame = hash
===============================================================================
