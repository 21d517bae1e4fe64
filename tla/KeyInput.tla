------------------------------ MODULE KeyInput ------------------------------
(***************************************************************************)
(* Keys, buttons and pads in the SDL2 build: window_receive_event_input    *)
(* turns events of SDL into key and button events of the script, and the   *)
(* script may ask for the state of a key itself.  SDL knows a key by its   *)
(* code, the script by a virtual key.  The tables pair the two one to one; *)
(* a key stands for all whose pairing is like its own.                     *)
(***************************************************************************)
EXTENDS Naturals, FiniteSets

CONSTANTS
  Keys,         \* SDL key codes the user has
  Buttons,      \* mouse buttons of SDL
  Controllers   \* game controllers, of one button each

VARIABLES
  held,         \* SDL_GetKeyboardState, as key codes
  mouse,        \* SDL_GetMouseState
  opened,       \* sdl_controllers
  padHeld,      \* controllers whose button is down
  active,       \* SDL_IsTextInputActive
  composing,    \* ime_composition is set
  told,         \* virtual keys the script has seen go down and not up
  missed        \* key codes and buttons whose last event was dropped

deviceVars == <<held, mouse, opened, padHeld>>
vars == <<deviceVars, active, composing, told, missed>>

TypeOK ==
  /\ held \subseteq Keys /\ mouse \subseteq Buttons
  /\ opened \subseteq Controllers /\ padHeld \subseteq opened
  /\ active \in BOOLEAN /\ composing \in BOOLEAN
  /\ missed \subseteq Keys \cup Buttons

Init ==
  /\ held = {} /\ mouse = {} /\ opened \in SUBSET Controllers /\ padHeld = {}
  /\ active = FALSE /\ composing = FALSE /\ told = {} /\ missed = {}

-----------------------------------------------------------------------------
\* Fault: the two sides of a key are exchanged.
VkSwapped == [a |-> "A", LSHIFT |-> "RSHIFT", RSHIFT |-> "LSHIFT", LCTRL |-> "LCONTROL",
              RCTRL |-> "RCONTROL", LALT |-> "LMENU", RALT |-> "RMENU", MENU |-> "LMENU"]

\* sdl_key_to_vk_key.
VkOf == [a |-> "A", LSHIFT |-> "LSHIFT", RSHIFT |-> "RSHIFT", LCTRL |-> "LCONTROL",
         RCTRL |-> "RCONTROL", LALT |-> "LMENU", RALT |-> "RMENU", MENU |-> "LMENU"]

\* vk_key_to_sdl_key.
SdlOf == [A |-> "a", LSHIFT |-> "LSHIFT", RSHIFT |-> "RSHIFT", LCONTROL |-> "LCTRL",
          RCONTROL |-> "RCTRL", LMENU |-> "LALT", RMENU |-> "RALT"]

\* The key without its side, for which the script gets an event too.
Unified == [SHIFT |-> {"LSHIFT", "RSHIFT"}, CONTROL |-> {"LCTRL", "RCTRL"},
            MENU |-> {"LALT", "RALT"}]
UnifiedOf(k) == {u \in DOMAIN Unified : k \in Unified[u]}
Names(k) == {VkOf[k]} \cup UnifiedOf(k)

\* TVPGetKeyMouseAsyncState, TVPGetJoyPadAsyncState.
AsyncState(vk) ==
  CASE vk \in Buttons         -> vk \in mouse
    [] vk = "PAD1"            -> padHeld # {}
    [] vk \in DOMAIN Unified  -> held \cap Unified[vk] # {}
    [] OTHER                  -> SdlOf[vk] \in held

\* Fault: the flags are those of the keys and buttons the script was told of.
ToldFlags == told \cap {"SHIFT", "CONTROL", "MENU", "XBUTTON1", "XBUTTON2"}
\* The flags of an event: GetShiftState, GetMouseButtonState.
EventFlags ==
  {f \in {"SHIFT", "CONTROL", "MENU"} : AsyncState(f)}
  \cup (IF AsyncState("RCONTROL") THEN {"SHIFT"} ELSE {})
  \cup {b \in Buttons : AsyncState(b)}

\* TVPGetCurrentShiftKeyState.
CurrentFlags ==
  {f \in {"SHIFT", "CONTROL", "MENU"} : AsyncState(f)}
  \cup {b \in Buttons \cap {"LBUTTON", "RBUTTON", "MBUTTON"} : AsyncState(b)}

-----------------------------------------------------------------------------
\* Fault: only the event for the key goes out when the key does.
UpOnlyKey(k) == {VkOf[k]}
\* Fault: only the event for the key without its side goes out.
UpNoSide(k) == UnifiedOf(k)
UpNames(k) == Names(k)

\* Keys are dropped during a composition, and so are buttons.
Dropping == active /\ composing

KeyDown(k) ==
  /\ k \notin held /\ held' = held \cup {k}
  /\ told' = IF Dropping THEN told ELSE told \cup Names(k)
  /\ missed' = IF Dropping THEN missed \cup {k} ELSE missed \ {k}
  /\ UNCHANGED <<mouse, opened, padHeld, active, composing>>

KeyUp(k) ==
  /\ k \in held /\ held' = held \ {k}
  /\ told' = IF Dropping THEN told ELSE told \ UpNames(k)
  /\ missed' = IF Dropping THEN missed \cup {k} ELSE missed \ {k}
  /\ UNCHANGED <<mouse, opened, padHeld, active, composing>>

ButtonDown(b) ==
  /\ b \notin mouse /\ mouse' = mouse \cup {b}
  /\ told' = IF Dropping THEN told ELSE told \cup {b}
  /\ missed' = IF Dropping THEN missed \cup {b} ELSE missed \ {b}
  /\ UNCHANGED <<held, opened, padHeld, active, composing>>

ButtonUp(b) ==
  /\ b \in mouse /\ mouse' = mouse \ {b}
  /\ told' = IF Dropping THEN told ELSE told \ {b}
  /\ missed' = IF Dropping THEN missed \cup {b} ELSE missed \ {b}
  /\ UNCHANGED <<held, opened, padHeld, active, composing>>

\* SDL_CONTROLLERBUTTONDOWN, SDL_CONTROLLERBUTTONUP: these are never dropped.
PadDown(c) ==
  /\ c \in opened \ padHeld /\ padHeld' = padHeld \cup {c}
  /\ told' = told \cup {"PAD1"}
  /\ UNCHANGED <<held, mouse, opened, active, composing, missed>>

PadUp(c) ==
  /\ c \in padHeld /\ padHeld' = padHeld \ {c}
  /\ told' = told \ {"PAD1"}
  /\ UNCHANGED <<held, mouse, opened, active, composing, missed>>

\* SDL_CONTROLLERDEVICEADDED, -REMOVED: refresh_controllers closes and opens
\* all of them.  SDL releases the button of one that is removed first.
RefreshControllers(now) ==
  /\ padHeld \subseteq now /\ opened' = now
  /\ UNCHANGED <<held, mouse, padHeld, active, composing, told, missed>>

\* The input method opens, composes, commits, and closes (see TextInput).
SetIme(a, c) ==
  /\ c => a
  /\ active' = a /\ composing' = c
  /\ UNCHANGED <<deviceVars, told, missed>>

Next ==
  \/ \E k \in Keys : KeyDown(k) \/ KeyUp(k)
  \/ \E b \in Buttons : ButtonDown(b) \/ ButtonUp(b)
  \/ \E c \in Controllers : PadDown(c) \/ PadUp(c)
  \/ \E now \in SUBSET Controllers : RefreshControllers(now)
  \/ \E a, c \in BOOLEAN : SetIme(a, c)

Spec == Init /\ [][Next]_vars
-----------------------------------------------------------------------------
\* A key or button the script has seen go down, and not up, is down, unless
\* its last event fell into a composition.  For keys of one side only.
ToldWhatIsHeld ==
  /\ \A k \in Keys \ missed : VkOf[k] \in told <=> k \in held
  /\ \A b \in Buttons \ missed : b \in told <=> b \in mouse

\* No key without a side, and no pad button, stays down for the script when
\* none that it stands for is down, though two of them share its events.
NoneStuck ==
  \A vk \in (DOMAIN Unified \cup {"PAD1"}) \cap told :
    AsyncState(vk) \/ (vk \in DOMAIN Unified /\ missed \cap Unified[vk] # {})

\* The state the script asks for is what it was told by events: the two
\* tables of keys are inverse.  Not for the MENU key, which is told as LMENU
\* and asked for as LALT.
AskedAsTold ==
  \A k \in Keys \ missed : VkOf[k] \in told <=> AsyncState(VkOf[k])

\* The flags of an event are those the engine computes for its own events,
\* but for the right control key, which counts as shift, and the buttons X1
\* and X2, which only events know.
FlagsAgree ==
  "RCTRL" \notin held => CurrentFlags = EventFlags \ {"XBUTTON1", "XBUTTON2"}
=============================================================================
