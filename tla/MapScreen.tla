------------------------------- MODULE MapScreen -------------------------------
(***************************************************************************)
(* The map screen: its pins, the board a tap opens, and the location the  *)
(* map is centred on.  Everything runs on the main thread; a change of    *)
(* state asks for a render, which comes before the user's next input.     *)
(*                                                                        *)
(* Of SwiftUI and MapKit (external) it is assumed: removing a selected    *)
(* annotation deselects it, with or without telling the delegate;         *)
(* selecting one tells the delegate; evaluating the body makes a new Map, *)
(* with a location manager of its own, which updateUIView is called on in *)
(* the same transaction; a manager reports for as long as its Map is on   *)
(* display or in mStruct, and whether it ever does is up to the user; a   *)
(* NavigationLink pushes once its selection is set.                       *)
(***************************************************************************)
CONSTANTS
    Pin,
    None,       \* no pin
    FirstBoard  \* the initial value of currentBulletinBoard

ASSUME MapAssumption == None \notin Pin /\ FirstBoard \notin Pin /\ FirstBoard # None

VARIABLES
    screen,     \* "map" or "board"
    selectedPin, action, currentBulletinBoard,
    shown,      \* whether the Text that appears for a selected pin is there
    annotation, \* the annotation selected in the MKMapView
    dirty,      \* what asks for a render: "state", "location"
    coordinates,\* pins whose coordinates have come from the server
    placed,     \* pins whose annotation was added with these coordinates
    located,    \* the Maps whose location manager has a location
    mStruct,    \* the Map the global mStruct holds
    needToCenterLocation,
    centre,     \* where the map was centred last: "default", "user" or "fallback"
    opened,     \* the board that was opened last
    tapped,     \* the pin tapped last (history)
    wanted      \* that tap has not opened a board yet (history)

pinVars == <<selectedPin, annotation, currentBulletinBoard>>
locationVars == <<located, mStruct, needToCenterLocation, centre>>
placeVars == <<coordinates, placed>>
historyVars == <<opened, tapped, wanted>>
vars == <<screen, selectedPin, action, currentBulletinBoard, shown, annotation, dirty,
          coordinates, placed, located, mStruct, needToCenterLocation, centre, opened,
          tapped, wanted>>

\* The Maps that are alive: the one on display and, if mStruct holds another, that one.
Maps == {"rendered", "earlier"}

\* A board is named by its pin.
TypeOK ==
    /\ screen \in {"map", "board"}
    /\ selectedPin \in Pin \cup {None} /\ annotation \in Pin \cup {None}
    /\ action \in {0, 1} /\ shown \in BOOLEAN
    /\ currentBulletinBoard \in Pin \cup {FirstBoard}
    /\ opened \in Pin \cup {None}
    /\ dirty \subseteq {"state", "location"}
    /\ placed \subseteq coordinates /\ coordinates \subseteq Pin
    /\ located \subseteq Maps /\ mStruct \in Maps /\ needToCenterLocation \in BOOLEAN
    /\ centre \in {"default", "user", "fallback"}
    /\ tapped \in Pin \cup {None} /\ wanted \in BOOLEAN

\* The map has appeared: makeUIView and the first updateUIView are over.
Init ==
    /\ screen = "map"
    /\ selectedPin = None /\ annotation = None /\ action = 0 /\ shown = FALSE
    /\ currentBulletinBoard = FirstBoard
    /\ dirty = {}
    /\ coordinates = {} /\ placed = {}
    /\ located = {} /\ mStruct = "rendered" /\ needToCenterLocation = TRUE
    /\ centre = "default"
    /\ opened = None /\ tapped = None /\ wanted = FALSE

-----------------------------------------------------------------------------
(***************************************************************************)
(* The map's delegate.                                                    *)
(***************************************************************************)
\* Mutant of didSelect: the pin's action is not run.
didSelectWithoutAction(pin) ==
    selectedPin' = pin /\ UNCHANGED currentBulletinBoard

didSelect(pin) ==
    /\ currentBulletinBoard' = pin      \* pin.action
    /\ selectedPin' = pin

-----------------------------------------------------------------------------
AwaitsInput == screen = "map" /\ dirty = {}

\* Tapping a pin deselects the one selected before, within the same event.
TapPin(pin) ==
    /\ AwaitsInput /\ annotation # pin
    /\ annotation' = pin
    /\ didSelect(pin)
    /\ tapped' = pin /\ wanted' = TRUE
    /\ dirty' = {"state"}
    /\ UNCHANGED <<screen, action, shown, placeVars, locationVars, opened>>

\* didDeselect
TapElsewhere ==
    /\ AwaitsInput /\ annotation # None
    /\ annotation' = None /\ selectedPin' = None
    /\ dirty' = {"state"}
    /\ UNCHANGED <<screen, action, currentBulletinBoard, shown, placeVars, locationVars, historyVars>>

\* The location part of a render.  A change of state makes a new Map, without a location
\* yet; of the Map before it, and its location, there is what mStruct still holds.
UpdateRegion ==
    /\ located' = IF "state" \notin dirty THEN located
                  ELSE {map \in {"earlier"} : mStruct' = map /\ mStruct \in located}
    /\ centre' = IF "rendered" \in located' THEN "user" ELSE "default"

\* Mutant of UpdateAnnotations: annotations once added are left alone.
UpdateSelection(heard) ==
    LET pin == IF heard THEN None ELSE selectedPin IN
    /\ heard => annotation # None
    /\ annotation' = pin
    /\ IF pin = None
         THEN /\ selectedPin' = None /\ UNCHANGED currentBulletinBoard
              /\ dirty' = IF selectedPin = None THEN {} ELSE {"state"}
         ELSE didSelect(pin) /\ dirty' \in {{}, {"state"}}
    /\ UNCHANGED placed

\* The annotations are removed and added again.  If the delegate hears of the removal the
\* pin is no longer selected; otherwise the selected pin is selected anew, which writes the
\* state and may ask for another render.
UpdateAnnotations(heard) ==
    LET pin == IF heard THEN None ELSE selectedPin IN
    /\ heard => annotation # None
    /\ placed' = coordinates
    /\ annotation' = pin
    /\ IF pin = None
         THEN /\ selectedPin' = None /\ UNCHANGED currentBulletinBoard
              /\ dirty' = IF selectedPin = None THEN {} ELSE {"state"}
         ELSE didSelect(pin) /\ dirty' \in {{}, {"state"}}

\* Mutant of Render: the global keeps the Map of an earlier render.
RenderKeepingStruct ==
    /\ dirty # {}
    /\ shown' = (selectedPin # None)
    /\ action' = IF shown' /\ ~ shown THEN 1 ELSE action
    /\ mStruct' = IF "state" \in dirty THEN "earlier" ELSE mStruct
    /\ UpdateRegion
    /\ \E heard \in BOOLEAN : UpdateAnnotations(heard)
    /\ UNCHANGED <<screen, needToCenterLocation, coordinates, historyVars>>

\* The body is evaluated, the map updated, and a Text that has appeared sets the action.
Render ==
    /\ dirty # {}
    /\ shown' = (selectedPin # None)
    /\ action' = IF shown' /\ ~ shown THEN 1 ELSE action
    /\ mStruct' = "rendered"
    /\ UpdateRegion
    /\ \E heard \in BOOLEAN : UpdateAnnotations(heard)
    /\ UNCHANGED <<screen, needToCenterLocation, coordinates, historyVars>>

\* Mutant of Push: the pin stays selected.
PushKeepingPin ==
    /\ screen = "map" /\ action = 1
    /\ screen' = "board"
    /\ opened' = currentBulletinBoard /\ wanted' = FALSE
    /\ UNCHANGED <<selectedPin, dirty, action, currentBulletinBoard, shown, annotation,
                   placeVars, locationVars, tapped>>

\* The board appears and loads its posts, the map disappears and forgets its pin.
Push ==
    /\ screen = "map" /\ action = 1
    /\ screen' = "board"
    /\ opened' = currentBulletinBoard /\ wanted' = FALSE
    /\ selectedPin' = None
    /\ dirty' = dirty \cup {"state"}
    /\ UNCHANGED <<action, currentBulletinBoard, shown, annotation, placeVars, locationVars, tapped>>

\* The board disappears, the map appears.
Back ==
    /\ screen = "board" /\ dirty = {}
    /\ screen' = "map"
    /\ action' = 0
    /\ needToCenterLocation' = TRUE
    /\ dirty' = {"state"}
    /\ UNCHANGED <<pinVars, shown, placeVars, located, mStruct, centre, historyVars>>

\* The document of a pin has come.  Nothing is rendered for it.
CoordinatesArrive(pin) ==
    /\ pin \notin coordinates
    /\ coordinates' = coordinates \cup {pin}
    /\ UNCHANGED <<screen, action, pinVars, shown, dirty, placed, locationVars, historyVars>>

\* A new location of a Map's manager.  If the map is still to be centred, it is centred on
\* the location of the Map in mStruct, whichever manager reports.
didUpdateLocations ==
    /\ \E map \in {"rendered", mStruct} :
          /\ located' = located \cup {map}
          /\ dirty' = IF map = "rendered" THEN dirty \cup {"location"} ELSE dirty
    /\ needToCenterLocation' = FALSE
    /\ centre' = IF ~ needToCenterLocation THEN centre
                 ELSE IF mStruct \in located' THEN "user" ELSE "fallback"
    /\ UNCHANGED <<screen, action, pinVars, shown, placeVars, mStruct, historyVars>>

\* The user has answered the authorization dialogue, or changed the settings.
didChangeAuthorization ==
    /\ dirty' = dirty \cup {"location"}
    /\ UNCHANGED <<screen, action, pinVars, shown, placeVars, locationVars, historyVars>>

-----------------------------------------------------------------------------
Next ==
    \/ \E pin \in Pin : TapPin(pin) \/ CoordinatesArrive(pin)
    \/ TapElsewhere
    \/ Render \/ Push \/ Back
    \/ didUpdateLocations \/ didChangeAuthorization

\* SwiftUI renders and pushes what it is asked to.
Fairness == WF_vars(Render) /\ WF_vars(Push)

Spec == Init /\ [][Next]_vars /\ Fairness

-----------------------------------------------------------------------------
(***************************************************************************)
(* Properties                                                             *)
(***************************************************************************)
\* The board that opens is the one of the pin tapped last, however renders select and
\* deselect the annotations in between (MapView.swift:153, :199).
OpensTappedBoard == screen = "board" => opened = tapped

\* Back on the map, once nothing is left to render and no board is about to open, no
\* annotation is selected: every pin can be tapped again (MapView.swift:67, :68).
PinsCanBeTapped == AwaitsInput /\ action = 0 => annotation = None

\* The fallback of didUpdateLocations is never shown: mStruct is the Map whose manager has
\* just got a location, not one of an earlier render (MapView.swift:184, :288).
CentresOnUser == centre # "fallback"

\* Every tap on a pin opens a board (MapView.swift:50, :54).
TapOpensBoard == wanted ~> ~ wanted

\* Nothing is rendered when the coordinates of a pin arrive (MapView.swift:105, :198), but
\* a tap on any pin brings those known by then to their places: neither the render for the
\* tap nor the one that leaves the map to the board forgets them.
TapPlacesPins == \A pin \in Pin : wanted /\ pin \in coordinates ~> pin \in placed
=============================================================================
