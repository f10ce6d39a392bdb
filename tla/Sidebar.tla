-------------------------------- MODULE Sidebar --------------------------------
(***************************************************************************)
(* The sidebar of the code generator's index page as the page's theme      *)
(* script moves it: one menu of links that slides open and shut, a toggle  *)
(* that folds the sidebar away, and the layout that keeps the content at   *)
(* least as tall as the sidebar.  Sliding takes time: jQuery queues the    *)
(* animations of an element and runs their callbacks when they end.        *)
(***************************************************************************)
EXTENDS Integers, Sequences

CONSTANTS
    Widths,     \* widths the window may have
    Heights,    \* heights the window may have
    Neg,        \* height of the header and the footer
    Base,       \* height of the sidebar without the links
    Items,      \* height of the links
    MaxFx       \* bound on the animations in the queue

ASSUME SidebarConstantsOK ==
    /\ Widths \subseteq Nat /\ Heights \subseteq Nat
    /\ Neg \in Nat /\ Base \in Nat /\ Items \in Nat /\ MaxFx \in Nat

VARIABLES
    ready,          \* the ready handler has run
    treeActive,     \* the menu's entry has class active
    menuOpen,       \* the list of links has class menu-open
    shown,          \* the list of links is displayed, by its own style
    fx,             \* its animations, the one in progress first
    collapse,       \* the body has class sidebar-collapse
    sidebarOpen,    \* the body has class sidebar-open
    width, height,  \* of the window
    minHeight,      \* of the content
    fixedFolded     \* history: the sidebar was folded when the content was fixed

sidebarVars == <<ready, treeActive, menuOpen, shown, fx, collapse, sidebarOpen,
                 width, height, minHeight, fixedFolded>>

SidebarTypeOK ==
    /\ ready \in BOOLEAN /\ treeActive \in BOOLEAN /\ menuOpen \in BOOLEAN
    /\ shown \in BOOLEAN /\ fx \in Seq({"up", "down"}) /\ Len(fx) <= MaxFx
    /\ collapse \in BOOLEAN /\ sidebarOpen \in BOOLEAN
    /\ width \in Widths /\ height \in Heights
    /\ minHeight \in Int /\ fixedFolded \in BOOLEAN
    /\ fx # <<>> => shown

(* The options the script acts on; nothing of the page changes them. *)
Options == [sm |-> 768, sidebarPushMenu |-> TRUE, sidebarExpandOnHover |-> FALSE]

Wide == width > Options.sm - 1

(* The style sheet folds a collapsed sidebar on a wide window: the links   *)
(* are displayed only while the mouse is on their menu.                    *)
Folded == Wide /\ collapse

SidebarHeight == Base + (IF shown /\ ~Folded THEN Items ELSE 0)

(* What the layout makes of the content's height, for a window and a       *)
(* sidebar of these heights.                                               *)
Fixed(window, sidebar) == IF window >= sidebar THEN window - Neg ELSE sidebar

Fix == minHeight' = Fixed(height, SidebarHeight) /\ fixedFolded' = Folded

(* The page comes with the menu open. *)
SidebarInit ==
    /\ ready = FALSE /\ treeActive = TRUE /\ menuOpen = TRUE /\ shown = TRUE
    /\ fx = <<>> /\ collapse = FALSE /\ sidebarOpen = FALSE
    /\ width \in Widths /\ height \in Heights /\ minHeight = 0 /\ fixedFolded = FALSE

-------------------------------------------------------------------------------
(* The document is ready: the layout is fixed and the handlers are put on. *)
Ready ==
    /\ ~ready /\ ready' = TRUE /\ Fix
    /\ UNCHANGED <<treeActive, menuOpen, shown, fx, collapse, sidebarOpen, width, height>>

(* The window gets another size.  A list that is sliding is measured at    *)
(* the height it has got.                                                  *)
Resize(w, h) ==
    /\ <<w, h>> # <<width, height>>
    /\ width' = w /\ height' = h
    /\ UNCHANGED <<ready, treeActive, menuOpen, shown, fx, collapse, sidebarOpen>>
    /\ \/ /\ ready /\ fixedFolded' = Folded'
          /\ \E part \in IF fx = <<>> \/ Folded' THEN {SidebarHeight'} ELSE Base .. Base + Items :
                minHeight' = Fixed(h, part)
       \/ ~ready /\ UNCHANGED <<minHeight, fixedFolded>>

(* The button beside the logo: folds a sidebar that is part of a wide      *)
(* window, pushes it over the content of a narrow one.                     *)
Toggle ==
    /\ ready /\ Options.sidebarPushMenu
    /\ IF Wide
       THEN collapse' = ~collapse /\ UNCHANGED sidebarOpen
       ELSE /\ sidebarOpen' = ~sidebarOpen
            /\ collapse' = (collapse /\ ~sidebarOpen)
    /\ UNCHANGED <<ready, treeActive, menuOpen, shown, fx, width, height, minHeight, fixedFolded>>

ClickContent ==
    /\ ready /\ ~Wide /\ sidebarOpen
    /\ sidebarOpen' = FALSE
    /\ UNCHANGED <<ready, treeActive, menuOpen, shown, fx, collapse, width, height,
                   minHeight, fixedFolded>>

(* The mouse reaches the sidebar, and its links. *)
InReach == Wide \/ sidebarOpen
LinksInReach == InReach /\ (shown \/ Folded)

(* Mutant of CloseMenu: the list is hidden before its animation. *)
HideAtOnce ==
    /\ ready /\ InReach /\ shown /\ ~collapse /\ Len(fx) < MaxFx
    /\ fx' = Append(fx, "up") /\ treeActive' = FALSE /\ shown' = FALSE
    /\ UNCHANGED <<ready, menuOpen, collapse, sidebarOpen, width, height,
                   minHeight, fixedFolded>>

(* A click on the menu while its links are visible. *)
CloseMenu ==
    /\ ready /\ InReach /\ shown /\ ~collapse /\ Len(fx) < MaxFx
    /\ fx' = Append(fx, "up") /\ treeActive' = FALSE
    /\ UNCHANGED <<ready, menuOpen, shown, collapse, sidebarOpen, width, height,
                   minHeight, fixedFolded>>

(* A click on the menu while they are not. *)
OpenMenu ==
    /\ ready /\ InReach /\ ~shown /\ ~Folded /\ Len(fx) < MaxFx
    /\ fx' = Append(fx, "down") /\ shown' = TRUE
    /\ UNCHANGED <<ready, treeActive, menuOpen, collapse, sidebarOpen, width, height,
                   minHeight, fixedFolded>>

(* Mutant of Opened: the layout is not fixed. *)
OpenedUnfixed(hover) ==
    /\ fx # <<>> /\ Head(fx) = "down"
    /\ treeActive' = TRUE
    /\ IF Folded /\ ~hover
       THEN menuOpen' = (Tail(fx) = <<>>) /\ fx' = <<>>
       ELSE menuOpen' = TRUE /\ fx' = Tail(fx)
    /\ UNCHANGED <<ready, shown, collapse, sidebarOpen, width, height, minHeight, fixedFolded>>

(* The links are open: the callback of the animation in progress.  What    *)
(* waits in the queue slides up; jQuery skips it, callback and all, when   *)
(* the style sheet hides the list by then.                                 *)
Opened(hover) ==
    /\ fx # <<>> /\ Head(fx) = "down"
    /\ treeActive' = TRUE /\ Fix
    /\ IF Folded /\ ~hover
       THEN menuOpen' = (Tail(fx) = <<>>) /\ fx' = <<>>
       ELSE menuOpen' = TRUE /\ fx' = Tail(fx)
    /\ UNCHANGED <<ready, shown, collapse, sidebarOpen, width, height>>

(* Mutant of Shut: the class menu-open stays. *)
ShutMarked ==
    /\ fx # <<>> /\ Head(fx) = "up"
    /\ shown' = FALSE /\ fx' = <<>>
    /\ UNCHANGED <<ready, treeActive, menuOpen, collapse, sidebarOpen, width, height,
                   minHeight, fixedFolded>>

(* The links are shut, and what waits has nothing left to do. *)
Shut ==
    /\ fx # <<>> /\ Head(fx) = "up"
    /\ shown' = FALSE /\ menuOpen' = FALSE /\ fx' = <<>>
    /\ UNCHANGED <<ready, treeActive, collapse, sidebarOpen, width, height, minHeight, fixedFolded>>

-------------------------------------------------------------------------------
(* At rest the menu is marked open only while its links are displayed, and *)
(* displayed links stand under an active entry, in whatever order clicks   *)
(* and the ends of animations came.                                        *)
MenuAtRest == fx = <<>> => (menuOpen => shown) /\ (shown => treeActive)

(* At rest page header, content and footer are as tall as the sidebar,     *)
(* unless the sidebar was unfolded after the content was fixed (the toggle *)
(* does not fix it).                                                       *)
SidebarFits ==
    ready /\ fx = <<>> /\ (fixedFolded => Folded) => minHeight + Neg >= SidebarHeight
===============================================================================
