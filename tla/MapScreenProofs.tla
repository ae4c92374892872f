---------------------------- MODULE MapScreenProofs ----------------------------
(***************************************************************************)
(* Proofs about the map screen, for any set of pins.                      *)
(***************************************************************************)
EXTENDS MapScreen, TLAPS

\* A tap fixes the board and, until the pin is deselected, the selection.
TappedInv ==
    /\ currentBulletinBoard = IF tapped = None THEN FirstBoard ELSE tapped
    /\ selectedPin # None => selectedPin = tapped
    /\ tapped = None => selectedPin = None /\ action = 0

\* The link is active while the Text is shown, and the board has no selected pin.
LinkInv ==
    /\ shown => action = 1
    /\ screen = "board" => selectedPin = None

\* A render that no change of state has outdated shows the selection.
RenderedInv ==
    "state" \notin dirty => annotation = selectedPin /\ (shown <=> selectedPin # None)

\* mStruct is the Map of the last render, and no other Map is alive.
StructInv == mStruct = "rendered"

MapInv ==
    /\ TypeOK
    /\ TappedInv
    /\ LinkInv
    /\ RenderedInv
    /\ StructInv
    /\ OpensTappedBoard
    /\ CentresOnUser

-----------------------------------------------------------------------------
\* Every step of the map screen keeps its invariant.
LEMMA MapInvStep ==
    ASSUME MapInv, [Next]_vars
    PROVE  MapInv'
<1> USE MapAssumption
<1> USE DEF MapInv, TypeOK, TappedInv, LinkInv, RenderedInv, StructInv, OpensTappedBoard, CentresOnUser
<1> USE DEF Maps, pinVars, locationVars, placeVars, historyVars
<1>1. ASSUME NEW pin \in Pin, TapPin(pin)
      PROVE  MapInv'
  BY <1>1 DEF TapPin, didSelect, AwaitsInput
<1>2. ASSUME NEW pin \in Pin, CoordinatesArrive(pin)
      PROVE  MapInv'
  BY <1>2 DEF CoordinatesArrive
<1>3. CASE TapElsewhere
  BY <1>3 DEF TapElsewhere, AwaitsInput
<1>4. CASE Render
  <2> PICK heard \in BOOLEAN : UpdateAnnotations(heard)
    BY <1>4 DEF Render
  <2>1. CASE heard \/ selectedPin = None
    <3>1. /\ annotation' = None /\ selectedPin' = None
          /\ UNCHANGED currentBulletinBoard
          /\ dirty' = IF selectedPin = None THEN {} ELSE {"state"}
      BY <2>1 DEF UpdateAnnotations
    <3>2. /\ dirty' = {} => ~ shown'
          /\ dirty' # {} => "state" \in dirty'
      BY <1>4, <3>1 DEF Render
    <3>3. /\ shown' \in BOOLEAN /\ action' \in {0, 1} /\ mStruct' = "rendered"
          /\ shown' => action' = 1
          /\ tapped = None => action' = 0
      BY <1>4 DEF Render
    <3>4. /\ located' \subseteq Maps /\ centre' \in {"default", "user"}
          /\ placed' = coordinates
          /\ UNCHANGED <<screen, needToCenterLocation, coordinates, opened, tapped, wanted>>
      BY <1>4 DEF Render, UpdateAnnotations, UpdateRegion
    <3> QED
      BY <3>1, <3>2, <3>3, <3>4
  <2>2. CASE ~ heard /\ selectedPin # None
    BY <1>4, <2>2 DEF Render, UpdateAnnotations, UpdateRegion, didSelect
  <2> QED
    BY <2>1, <2>2
<1>5. CASE Push
  <2>1. "state" \in dirty' /\ dirty' \subseteq {"state", "location"}
    BY <1>5 DEF Push
  <2>2. opened' = tapped /\ tapped \in Pin
    BY <1>5 DEF Push
  <2> QED
    BY <1>5, <2>1, <2>2 DEF Push
<1>6. CASE Back
  BY <1>6 DEF Back
<1>7. CASE didUpdateLocations
  <2>1. mStruct = "rendered" /\ mStruct' = mStruct
    BY <1>7 DEF didUpdateLocations
  <2>2. located' = located \cup {"rendered"} /\ dirty' = dirty \cup {"location"}
    BY <1>7, <2>1 DEF didUpdateLocations
  <2>3. centre' \in {centre, "user"} /\ needToCenterLocation' = FALSE
    BY <1>7, <2>1, <2>2 DEF didUpdateLocations
  <2>4. UNCHANGED <<screen, action, pinVars, shown, placeVars, historyVars>>
    BY <1>7 DEF didUpdateLocations
  <2>5. /\ located' \subseteq Maps /\ centre' \in {"default", "user"}
        /\ dirty' \subseteq {"state", "location"}
        /\ "state" \in dirty' <=> "state" \in dirty
    BY <2>2, <2>3
  <2>6. TypeOK'
    BY <2>1, <2>3, <2>4, <2>5
  <2>7. (TappedInv /\ LinkInv /\ RenderedInv /\ OpensTappedBoard)'
    BY <2>4, <2>5
  <2> QED
    BY <2>1, <2>5, <2>6, <2>7
<1>9. CASE didChangeAuthorization
  BY <1>9 DEF didChangeAuthorization
<1>8. CASE UNCHANGED vars
  BY <1>8 DEF vars
<1> QED
  BY <1>1, <1>2, <1>3, <1>4, <1>5, <1>6, <1>7, <1>8, <1>9 DEF Next

\* The invariant holds throughout.
LEMMA MapInvariant == Spec => []MapInv
<1>1. Init => MapInv
  BY MapAssumption DEF Init, Maps, MapInv, TypeOK, TappedInv, LinkInv, RenderedInv,
     StructInv, OpensTappedBoard, CentresOnUser
<1>2. MapInv /\ [Next]_vars => MapInv'
  BY MapInvStep
<1> QED
  BY <1>1, <1>2, PTL DEF Spec

-----------------------------------------------------------------------------
\* The state of the map screen is well typed (MapView.swift:46-69).
THEOREM MapScreenTypeOK == Spec => []TypeOK
<1>1. MapInv => TypeOK
  BY DEF MapInv
<1> QED
  BY <1>1, MapInvariant, PTL

\* The board that opens is the one of the pin tapped last (MapView.swift:153, :199).
THEOREM MapOpensTappedBoard == Spec => []OpensTappedBoard
<1>1. MapInv => OpensTappedBoard
  BY DEF MapInv
<1> QED
  BY <1>1, MapInvariant, PTL

\* A map at rest has no selected annotation, so every pin takes a tap (MapView.swift:67).
THEOREM MapPinsCanBeTapped == Spec => []PinsCanBeTapped
<1>1. MapInv => PinsCanBeTapped
  BY DEF MapInv, TypeOK, LinkInv, RenderedInv, PinsCanBeTapped, AwaitsInput
<1> QED
  BY <1>1, MapInvariant, PTL

\* The map is never centred on the fallback location (MapView.swift:184, :288).
THEOREM MapCentresOnUser == Spec => []CentresOnUser
<1>1. MapInv => CentresOnUser
  BY DEF MapInv
<1> QED
  BY <1>1, MapInvariant, PTL
=============================================================================
