-------------------------- MODULE CodeGeneratorProofs --------------------------
(***************************************************************************)
(* What holds of the code generator's front end for every window, every    *)
(* set of schemas and tables, and however much the user does.  Sidebar,    *)
(* page and frame have an inductive invariant each: a step of the whole is *)
(* one of each of them, often of one that stands still.                    *)
(***************************************************************************)
EXTENDS CodeGenerator, TLAPS

(* The layout fits a folded sidebar at any time, and at rest an unfolded   *)
(* one unless it was fixed while the sidebar was folded.                   *)
Unfolded == Base + (IF shown THEN Items ELSE 0)

Fits ==
    /\ ready => minHeight + Neg >= Base
    /\ ready /\ fx = <<>> /\ ~fixedFolded => minHeight + Neg >= Unfolded

SidebarInv == SidebarTypeOK /\ MenuAtRest /\ Fits

(* Unless the list went astray the grid loads, or has loaded, the tables   *)
(* of the schema that is chosen.                                           *)
Loads ==
    ~astray => /\ selected \subseteq Has[schema]
               /\ request # Idle => request = schema
               /\ request = Idle => rows \subseteq Has[schema]

PageInv == GeneratorTypeOK /\ FormListsSelection /\ Loads

(* The frame is loading the page it is bound to or, unless that got lost,  *)
(* shows it.                                                               *)
Bound ==
    /\ nav \in menus => nav = main
    /\ nav \notin menus /\ ~lost => frame = main

FrameInv == IndexTypeOK /\ AddressFollowed /\ Bound

IInv == SidebarInv /\ PageInv /\ FrameInv

(* What a route does to the sidebar, and what a new page does to the old. *)
Routed ==
    /\ treeActive' = TRUE
    /\ UNCHANGED <<ready, menuOpen, shown, fx, collapse, sidebarOpen, width, height,
                   minHeight, fixedFolded>>

SidebarNext ==
    \/ Ready \/ Shut \/ (\E hover \in BOOLEAN : Opened(hover))
    \/ CloseMenu \/ OpenMenu \/ Toggle \/ ClickContent
    \/ (\E w \in Widths, h \in Heights : Resize(w, h))
    \/ Routed \/ UNCHANGED sidebarVars

PageNext ==
    \/ (Load \/ Unload) /\ UNCHANGED alert
    \/ DatabasesArrive \/ RowsArrive \/ RowsFail
    \/ (\E s \in Schema : ChooseSchema(s)) \/ (\E t \in Table : Pick(t))
    \/ Query \/ ConfigGen \/ Refuse \/ Return \/ CloseAlert
    \/ UNCHANGED <<pageVars, alert>>

FrameNext ==
    \/ HashChange \/ PageArrives \/ FrameFails \/ CodeArrives \/ AskForCode
    \/ (\E h \in Hash : SetHash(h)) /\ UNCHANGED frameVars
    \/ links' \in {links, {}} /\ UNCHANGED <<hash, events, main, frameVars>>

-------------------------------------------------------------------------------
(* A layout that was fixed fits the sidebar it was measured with. *)
LEMMA FixedFits ==
    ASSUME NEW window \in Int, NEW sidebar \in Int, Neg \in Nat
    PROVE  Fixed(window, sidebar) \in Int /\ Fixed(window, sidebar) + Neg >= sidebar
  BY DEF Fixed

(* The queue stays a short one when it is emptied, shortened or, while     *)
(* there is room, lengthened.                                              *)
FxOK(f) == f \in Seq({"up", "down"}) /\ Len(f) <= MaxFx

LEMMA QueueOK ==
    ASSUME NEW f, FxOK(f), MaxFx \in Nat
    PROVE  /\ FxOK(<<>>)
           /\ f # <<>> => FxOK(Tail(f))
           /\ Len(f) < MaxFx => /\ FxOK(Append(f, "up")) /\ Append(f, "up") # <<>>
                               /\ FxOK(Append(f, "down")) /\ Append(f, "down") # <<>>
<1>1. Len(f) \in Nat /\ Len(<<>>) = 0 /\ <<>> \in Seq({"up", "down"})
  BY DEF FxOK
<1>2. f # <<>> => Tail(f) \in Seq({"up", "down"}) /\ Len(Tail(f)) = Len(f) - 1
  BY DEF FxOK
<1>3. ASSUME NEW d \in {"up", "down"}
      PROVE  /\ Append(f, d) \in Seq({"up", "down"}) /\ Len(Append(f, d)) = Len(f) + 1
             /\ Append(f, d) # <<>>
  <2>1. Append(f, d) \in Seq({"up", "down"}) /\ Len(Append(f, d)) = Len(f) + 1
    BY DEF FxOK
  <2> QED BY <2>1, <1>1
<1> QED BY <1>1, <1>2, <1>3 DEF FxOK

LEMMA Enough ==
    ASSUME NEW content \in Int, NEW measured \in Int, NEW needed \in Int, Neg \in Nat,
           content + Neg >= measured, measured >= needed
    PROVE  content + Neg >= needed
  OBVIOUS

(* What the sidebar measures, folded or not, is between these heights. *)
LEMMA Measures ==
    SidebarTypeOK =>
        /\ SidebarHeight \in Int /\ SidebarHeight >= Base
        /\ (~Folded => SidebarHeight = Unfolded) /\ (Folded => SidebarHeight = Base)
        /\ Unfolded \in Int /\ Unfolded >= Base /\ (~shown => Unfolded = Base)
        /\ (shown => Unfolded = Base + Items)
        /\ Folded \in BOOLEAN
<1> SUFFICES ASSUME SidebarTypeOK PROVE Measures!2
  OBVIOUS
<1> QED
  BY SidebarConstantsOK DEF SidebarConstantsOK, SidebarTypeOK, SidebarHeight, Unfolded, Folded, Wide

LEMMA SidebarStays == SidebarInv /\ SidebarNext => SidebarInv'
<1> SUFFICES ASSUME SidebarInv, SidebarNext PROVE SidebarInv'
  OBVIOUS
<1> USE SidebarConstantsOK DEF SidebarConstantsOK, SidebarInv, MenuAtRest, Fits
<1>a. FxOK(fx) /\ MaxFx \in Nat /\ (fx # <<>> => shown)
  BY DEF SidebarTypeOK, FxOK
<1>b. ASSUME /\ ready' \in BOOLEAN /\ treeActive' \in BOOLEAN /\ menuOpen' \in BOOLEAN
             /\ shown' \in BOOLEAN /\ collapse' \in BOOLEAN /\ sidebarOpen' \in BOOLEAN
             /\ width' \in Widths /\ height' \in Heights
             /\ minHeight' \in Int /\ fixedFolded' \in BOOLEAN
             /\ FxOK(fx') /\ (fx' # <<>> => shown')
      PROVE  SidebarTypeOK'
  BY <1>b DEF SidebarTypeOK, FxOK
<1>c. /\ ready \in BOOLEAN /\ treeActive \in BOOLEAN /\ menuOpen \in BOOLEAN
      /\ shown \in BOOLEAN /\ collapse \in BOOLEAN /\ sidebarOpen \in BOOLEAN
      /\ width \in Widths /\ height \in Heights
      /\ minHeight \in Int /\ fixedFolded \in BOOLEAN
  BY DEF SidebarTypeOK
<1>d. FxOK(<<>>)
  BY <1>a, QueueOK
<1>e. Measures!2
  BY Measures
<1>f. SidebarHeight \in Int /\ Unfolded \in Int /\ Base \in Int /\ Neg \in Nat
      /\ SidebarHeight >= Base
  BY <1>e
<1>1. CASE Ready
  <2>1. minHeight' \in Int /\ minHeight' + Neg >= SidebarHeight
    BY <1>1, <1>c, <1>e, FixedFits DEF Ready, Fix
  <2>0. fixedFolded' = Folded
    BY <1>1 DEF Ready, Fix
  <2>2. SidebarTypeOK'
    BY <1>1, <1>a, <1>b, <1>c, <1>e, <2>1, <2>0 DEF Ready
  <2>3. MenuAtRest'
    BY <1>1 DEF Ready
  <2>4. minHeight' + Neg >= Base /\ (~Folded => minHeight' + Neg >= Unfolded)
    <3>1. minHeight' + Neg >= Base
      BY <1>f, <2>1, Enough
    <3>2. ~Folded => minHeight' + Neg >= Unfolded
      BY <1>e, <2>1, Zenon
    <3> QED BY <3>1, <3>2
  <2>5. Unfolded' = Unfolded
    BY <1>1 DEF Ready, Unfolded
  <2> QED BY <2>0, <2>2, <2>3, <2>4, <2>5
<1>2. CASE Shut
  <2>1. SidebarTypeOK'
    BY <1>2, <1>b, <1>c, <1>d DEF Shut
  <2>2. Unfolded' = Base
    BY <1>2, <2>1, Measures DEF Shut, Unfolded
  <2> QED BY <1>2, <1>c, <2>1, <2>2 DEF Shut
<1>3. ASSUME NEW hover \in BOOLEAN, Opened(hover) PROVE SidebarInv'
  <2>1. minHeight' \in Int /\ minHeight' + Neg >= SidebarHeight
    BY <1>3, <1>c, <1>e, FixedFits DEF Opened, Fix
  <2>0. fixedFolded' = Folded
    BY <1>3 DEF Opened, Fix
  <2>2. FxOK(fx') /\ menuOpen' \in BOOLEAN /\ shown
    BY <1>3, <1>a, <1>d, QueueOK DEF Opened
  <2>3. treeActive' = TRUE /\ UNCHANGED <<ready, shown, collapse, sidebarOpen, width, height>>
    BY <1>3 DEF Opened
  <2>4. SidebarTypeOK'
    BY <1>b, <1>c, <1>e, <2>1, <2>0, <2>2, <2>3
  <2>5. MenuAtRest'
    BY <2>2, <2>3
  <2>6. minHeight' + Neg >= Base /\ (~Folded => minHeight' + Neg >= Unfolded)
    <3>1. minHeight' + Neg >= Base
      BY <1>f, <2>1, Enough
    <3>2. ~Folded => minHeight' + Neg >= Unfolded
      BY <1>e, <2>1, Zenon
    <3> QED BY <3>1, <3>2
  <2>7. Unfolded' = Unfolded
    BY <2>3 DEF Unfolded
  <2> QED BY <2>0, <2>4, <2>5, <2>6, <2>7
<1>4. CASE CloseMenu
  <2>1. SidebarTypeOK' /\ fx' # <<>>
    BY <1>4, <1>a, <1>b, <1>c, QueueOK DEF CloseMenu
  <2> QED BY <1>4, <1>c, <2>1 DEF CloseMenu, Unfolded
<1>5. CASE OpenMenu
  <2>1. SidebarTypeOK' /\ fx' # <<>>
    BY <1>5, <1>a, <1>b, <1>c, QueueOK DEF OpenMenu
  <2> QED BY <1>5, <1>c, <2>1 DEF OpenMenu, Unfolded
<1>6. CASE Toggle
  <2>1. SidebarTypeOK'
    BY <1>6, <1>a, <1>b, <1>c DEF Toggle
  <2> QED BY <1>6, <2>1 DEF Toggle, Unfolded
<1>7. CASE ClickContent
  <2>1. SidebarTypeOK'
    BY <1>7, <1>a, <1>b, <1>c DEF ClickContent
  <2> QED BY <1>7, <2>1 DEF ClickContent, Unfolded
<1>8. ASSUME NEW w \in Widths, NEW h \in Heights, Resize(w, h) PROVE SidebarInv'
  <2>0. width' = w /\ height' = h
        /\ UNCHANGED <<ready, treeActive, menuOpen, shown, fx, collapse, sidebarOpen>>
    BY <1>8 DEF Resize
  <2>a. Unfolded' = Unfolded
    BY <2>0 DEF Unfolded
  <2>1. CASE ~ready
    <3>1. UNCHANGED <<minHeight, fixedFolded>>
      BY <1>8, <2>1 DEF Resize
    <3>2. SidebarTypeOK'
      BY <1>a, <1>b, <1>c, <2>0, <3>1
    <3> QED BY <2>0, <2>1, <3>1, <3>2
  <2>2. CASE ready
    <3>1. PICK part \in IF fx = <<>> \/ Folded' THEN {SidebarHeight'} ELSE Base .. Base + Items :
             minHeight' = Fixed(h, part)
      BY <1>8, <2>2 DEF Resize
    <3>2. SidebarHeight' = (IF shown /\ ~Folded' THEN Base + Items ELSE Base)
      BY <2>0 DEF SidebarHeight
    <3>3. part \in Int /\ part >= Base
      BY <3>1, <3>2
    <3>4. minHeight' \in Int /\ minHeight' + Neg >= part
      BY <3>1, <3>3, FixedFits
    <3>5. fx = <<>> /\ ~Folded' => part = Unfolded
      BY <3>1, <3>2, <1>e
    <3>6. Folded' \in BOOLEAN /\ fixedFolded' = Folded'
      BY <1>8, <2>2 DEF Resize, Folded, Wide
    <3>7. SidebarTypeOK'
      BY <1>a, <1>b, <1>c, <2>0, <3>4, <3>6
    <3>8. minHeight' + Neg >= Base /\ (fx = <<>> /\ ~Folded' => minHeight' + Neg >= Unfolded)
      <4>1. minHeight' + Neg >= Base
        BY <1>f, <3>3, <3>4, Enough
      <4>2. fx = <<>> /\ ~Folded' => minHeight' + Neg >= Unfolded
        BY <3>4, <3>5, Zenon
      <4> QED BY <4>1, <4>2
    <3> QED BY <2>0, <2>a, <3>6, <3>7, <3>8
  <2> QED BY <1>c, <2>1, <2>2
<1>9. CASE Routed
  <2>1. SidebarTypeOK'
    BY <1>9, <1>a, <1>b, <1>c DEF Routed
  <2> QED BY <1>9, <2>1 DEF Routed, Unfolded
<1>10. CASE UNCHANGED sidebarVars
  <2>1. SidebarTypeOK'
    BY <1>10, <1>a, <1>b, <1>c DEF sidebarVars
  <2> QED BY <1>10, <2>1 DEF sidebarVars, Unfolded
<1> QED BY <1>1, <1>2, <1>3, <1>4, <1>5, <1>6, <1>7, <1>8, <1>9, <1>10 DEF SidebarNext

LEMMA PageStays == PageInv /\ PageNext => PageInv'
<1> SUFFICES ASSUME PageInv, PageNext PROVE PageInv'
  OBVIOUS
<1> USE GeneratorConstantsOK DEF GeneratorConstantsOK, PageInv, GeneratorTypeOK, FormListsSelection, Loads
<1>1. CASE (Load \/ Unload) /\ UNCHANGED alert
  BY <1>1 DEF Load, Unload, Blank
<1>2. CASE DatabasesArrive
  BY <1>2 DEF DatabasesArrive
<1>3. CASE RowsArrive
  BY <1>3 DEF RowsArrive
<1>4. CASE RowsFail
  BY <1>4 DEF RowsFail
<1>5. ASSUME NEW s \in Schema, ChooseSchema(s) PROVE PageInv'
  BY <1>5 DEF ChooseSchema, ReloadGrid, OnList
<1>6. ASSUME NEW t \in Table, Pick(t) PROVE PageInv'
  BY <1>6 DEF Pick, OnList
<1>7. CASE Query
  BY <1>7 DEF Query, ReloadGrid, OnList
<1>8. CASE ConfigGen
  BY <1>8 DEF ConfigGen, getSelectedRows, OnList
<1>9. CASE Refuse
  BY <1>9 DEF Refuse, pageVars
<1>10. CASE Return
  BY <1>10 DEF Return, ReloadGrid, OnForm
<1>11. CASE CloseAlert
  BY <1>11 DEF CloseAlert, pageVars
<1>12. CASE UNCHANGED <<pageVars, alert>>
  BY <1>12 DEF pageVars
<1> QED BY <1>1, <1>2, <1>3, <1>4, <1>5, <1>6, <1>7, <1>8, <1>9, <1>10, <1>11, <1>12
        DEF PageNext

LEMMA FrameStays ==
    FrameInv /\ FrameNext /\ PageInv /\ gestures' \in 0 .. Gestures => FrameInv'
<1> SUFFICES ASSUME FrameInv, FrameNext, PageInv, gestures' \in 0 .. Gestures PROVE FrameInv'
  OBVIOUS
<1> USE DEF FrameInv, IndexTypeOK, AddressFollowed, Bound, menus, Hash
<1>1. CASE HashChange
  <2>1. CASE hash \in menus /\ Follow(hash)
    BY <1>1, <2>1 DEF HashChange, Follow
  <2>2. CASE hash \notin menus /\ UNCHANGED <<main, links, nav, sidebarVars>>
    BY <1>1, <2>2 DEF HashChange
  <2> QED BY <1>1, <2>1, <2>2 DEF HashChange, reload
<1>2. CASE PageArrives
  BY <1>2 DEF PageArrives, indexVars
<1>3. CASE FrameFails
  BY <1>3 DEF FrameFails, indexVars, NoCode
<1>4. CASE CodeArrives
  BY <1>4 DEF CodeArrives, indexVars, NoCode
<1>5. CASE AskForCode
  BY <1>5 DEF AskForCode, indexVars, PageInv, GeneratorTypeOK
<1>6. ASSUME NEW h \in Hash, SetHash(h), UNCHANGED frameVars PROVE FrameInv'
  BY <1>6 DEF SetHash, frameVars
<1>7. CASE links' \in {links, {}} /\ UNCHANGED <<hash, events, main, frameVars>>
  BY <1>7 DEF frameVars
<1> QED BY <1>1, <1>2, <1>3, <1>4, <1>5, <1>6, <1>7 DEF FrameNext

-------------------------------------------------------------------------------
(* Every step of the whole is a step of each part. *)
LEMMA StepOfParts == Next => SidebarNext /\ PageNext /\ FrameNext
<1> SUFFICES ASSUME Next PROVE SidebarNext /\ PageNext /\ FrameNext
  OBVIOUS
<1>1. CASE HashChange
  BY <1>1 DEF HashChange, reload, Follow, SidebarNext, Routed, PageNext, FrameNext, sidebarVars
<1>2. CASE SidebarStep
  BY <1>2 DEF SidebarStep, SidebarNext, PageNext, FrameNext
<1>3. CASE PageArrives
  BY <1>3 DEF PageArrives, SidebarNext, PageNext, FrameNext
<1>4. CASE PageFails \/ CodeFails
  BY <1>4 DEF PageFails, CodeFails, FrameFails, SidebarNext, PageNext, FrameNext
<1>5. CASE CodeArrives
  BY <1>5 DEF CodeArrives, SidebarNext, PageNext, FrameNext
<1>6. CASE Arrivals
  BY <1>6 DEF Arrivals, indexVars, SidebarNext, PageNext, FrameNext
<1>7. CASE Gesture
  <2>1. CASE SidebarGesture
    BY <2>1 DEF SidebarGesture, indexVars, Hash, SidebarNext, PageNext, FrameNext
  <2>2. CASE AddressGesture
    BY <2>2 DEF AddressGesture, ClickLink, Hash, SidebarNext, PageNext, FrameNext
  <2>3. CASE PageGesture
    BY <2>3 DEF PageGesture, AskForCode, Generate, indexVars, SidebarNext, PageNext, FrameNext
  <2>4. CASE CloseAlert /\ UNCHANGED <<frameVars, indexVars, sidebarVars>>
    BY <2>4 DEF indexVars, SidebarNext, PageNext, FrameNext
  <2> QED BY <1>7, <2>1, <2>2, <2>3, <2>4 DEF Gesture
<1> QED BY <1>1, <1>2, <1>3, <1>4, <1>5, <1>6, <1>7 DEF Next

LEMMA GesturesCounted == IndexTypeOK /\ Next => gestures' \in 0 .. Gestures
<1> SUFFICES ASSUME IndexTypeOK, Next PROVE gestures' \in 0 .. Gestures
  OBVIOUS
<1>1. CASE Gesture
  <2>1. gestures < Gestures /\ gestures' = gestures + 1
    BY <1>1 DEF Gesture
  <2> QED BY <2>1, CodeGeneratorConstantsOK DEF CodeGeneratorConstantsOK, IndexTypeOK
<1>2. CASE ~Gesture
  <2>1. gestures' = gestures
    BY <1>2 DEF Next, HashChange, SidebarStep, PageArrives, PageFails, CodeFails, FrameFails,
                CodeArrives, Arrivals
  <2> QED BY <2>1 DEF IndexTypeOK
<1> QED BY <1>1, <1>2

LEMMA InvInit == Init => IInv
<1> SUFFICES ASSUME Init PROVE IInv
  OBVIOUS
<1>1. SidebarInv
  <2>1. fx \in Seq({"up", "down"}) /\ Len(fx) <= MaxFx /\ (fx # <<>> => shown)
    <3>1. <<>> \in Seq({"up", "down"}) /\ Len(<<>>) = 0
      OBVIOUS
    <3> QED BY <3>1, SidebarConstantsOK DEF Init, SidebarInit, SidebarConstantsOK
  <2>2. SidebarTypeOK
    <3>1. minHeight \in Int /\ width \in Widths /\ height \in Heights
      BY DEF Init, SidebarInit
    <3>2. /\ ready \in BOOLEAN /\ treeActive \in BOOLEAN /\ menuOpen \in BOOLEAN
          /\ shown \in BOOLEAN /\ collapse \in BOOLEAN /\ sidebarOpen \in BOOLEAN
          /\ fixedFolded \in BOOLEAN
      BY DEF Init, SidebarInit
    <3> QED BY <2>1, <3>1, <3>2 DEF SidebarTypeOK
  <2>3. MenuAtRest /\ Fits
    BY DEF Init, SidebarInit, MenuAtRest, Fits
  <2> QED BY <2>2, <2>3 DEF SidebarInv
<1>2. PageInv
  BY GeneratorConstantsOK
  DEF Init, PageInv, GeneratorTypeOK, FormListsSelection, Loads, GeneratorConstantsOK
<1>3. FrameInv
  <2>1. /\ hash \in Hash /\ events \in Nat /\ main \in menus /\ links \subseteq menus
        /\ frame \in menus \cup {"error"} /\ nav \in menus \cup {"code", "none"}
    BY DEF Init, menus, Hash
  <2>2. /\ asked \in [tables : SUBSET Table, schema : Schema \cup {NoSchema}]
        /\ lost \in BOOLEAN
    BY DEF Init, NoCode
  <2>3. gestures \in 0 .. Gestures
    BY CodeGeneratorConstantsOK DEF Init, CodeGeneratorConstantsOK
  <2>4. AddressFollowed /\ Bound
    BY DEF Init, AddressFollowed, Bound, menus
  <2> QED BY <2>1, <2>2, <2>3, <2>4 DEF FrameInv, IndexTypeOK
<1> QED BY <1>1, <1>2, <1>3 DEF IInv

LEMMA InvStep == IInv /\ [Next]_vars => IInv'
<1> SUFFICES ASSUME IInv, [Next]_vars PROVE IInv'
  OBVIOUS
<1>1. CASE Next
  BY <1>1, StepOfParts, GesturesCounted, SidebarStays, PageStays, FrameStays DEF IInv, FrameInv
<1>2. CASE UNCHANGED vars
  <2>1. SidebarInv'
    BY <1>2, SidebarStays DEF IInv, vars, SidebarNext
  <2>2. PageInv'
    BY <1>2, PageStays DEF IInv, vars, PageNext
  <2>3. FrameInv'
    BY <1>2, FrameStays DEF IInv, vars, FrameNext, FrameInv, IndexTypeOK, indexVars
  <2> QED BY <2>1, <2>2, <2>3 DEF IInv
<1> QED BY <1>1, <1>2

LEMMA Invariant == Spec => []IInv
  BY InvInit, InvStep, PTL DEF Spec

-------------------------------------------------------------------------------
(* Every reachable state has the right types, for any windows and tables   *)
(* and any number of gestures.                                             *)
THEOREM CodeGeneratorTypeCorrect == Spec => []TypeOK
<1>1. IInv => TypeOK
  BY DEF IInv, SidebarInv, PageInv, FrameInv, TypeOK
<1> QED BY <1>1, Invariant, PTL

(* app.js, tree: at rest the menu's classes agree with what is displayed.  *)
THEOREM MenuRests == Spec => []MenuAtRest
<1>1. IInv => MenuAtRest
  BY DEF IInv, SidebarInv
<1> QED BY <1>1, Invariant, PTL

(* app.js, layout: at rest the content is as tall as a sidebar that was    *)
(* not unfolded since.                                                     *)
THEOREM LayoutFits == Spec => []SidebarFits
<1>1. IInv => SidebarFits
  <2> SUFFICES ASSUME IInv, ready, fx = <<>>, fixedFolded => Folded
               PROVE  minHeight + Neg >= SidebarHeight
    BY DEF SidebarFits
  <2>1. Measures!2
    BY Measures DEF IInv, SidebarInv
  <2>2. fixedFolded \in BOOLEAN
    BY DEF IInv, SidebarInv, SidebarTypeOK
  <2>3. CASE Folded
    BY <2>1, <2>3 DEF IInv, SidebarInv, Fits
  <2>4. CASE ~Folded
    BY <2>1, <2>2, <2>4 DEF IInv, SidebarInv, Fits
  <2> QED BY <2>3, <2>4
<1> QED BY <1>1, Invariant, PTL

(* generator.js, configGen and generator: the form lists what it asks for. *)
THEOREM FormIsTrue == Spec => []FormListsSelection
<1>1. IInv => FormListsSelection
  BY DEF IInv, PageInv
<1> QED BY <1>1, Invariant, PTL

(* generator.js, query: tables that are picked belong to the schema unless *)
(* the grid did not follow it.                                             *)
THEOREM TablesAreOwn == Spec => []OwnTables
<1>1. IInv => OwnTables
  BY DEF IInv, PageInv, Loads, OwnTables
<1> QED BY <1>1, Invariant, PTL

(* router.js and index.js: at rest the frame is bound to the page of the   *)
(* address, and only its link is highlighted.                              *)
THEOREM RouterFollows == Spec => []AddressFollowed
<1>1. IInv => AddressFollowed
  BY DEF IInv, FrameInv
<1> QED BY <1>1, Invariant, PTL

(* index.js, main: at rest the frame shows that page, unless it got lost.  *)
THEOREM FrameFollows == Spec => []FrameFollowsHash
<1>1. IInv => FrameFollowsHash
  BY DEF IInv, FrameInv, AddressFollowed, Bound, FrameFollowsHash, menus
<1> QED BY <1>1, Invariant, PTL
===============================================================================
