------------------------------- MODULE Gpiote -------------------------------
(***************************************************************************)
(* src/nrf/app_gpiote.c over src/nrf/nrf_drv_gpiote.c: users that want to  *)
(* be told of edges on pins, the driver that watches those pins with the   *)
(* PORT event, and the pins themselves, which change when they like.       *)
(*                                                                         *)
(* The peripheral sees one signal, DETECT: some pin is at the level its    *)
(* SENSE field names.  The PORT event comes when DETECT rises; while one   *)
(* pin keeps it up, another pin makes no event.  The driver therefore      *)
(* turns the sense of every pin it has seen, and reads the pins again      *)
(* until they stand still.  All pins of app_gpiote are in toggle mode.     *)
(*                                                                         *)
(* The interrupt handler may come between any two steps of main; while it  *)
(* runs, only the pins move.                                               *)
(***************************************************************************)
EXTENDS Naturals, FiniteSets

CONSTANTS
  NumPins,            (* pins of the port, 0 .. NumPins - 1                  *)
  NumUsers,           (* calls of app_gpiote_user_register                   *)
  LowToHigh,          (* for each of them, p_pins_low_to_high_mask           *)
  HighToLow,          (* and p_pins_high_to_low_mask                         *)
  OneShot,            (* users whose event handler disables them             *)
  UserArraySize,      (* m_user_array_size                                   *)
  LowPowerEvents      (* GPIOTE_CONFIG_NUM_OF_LOW_POWER_EVENTS               *)

Pins == 0 .. NumPins - 1
Users == 1 .. NumUsers
Slots == 1 .. LowPowerEvents
NotUsed == NumPins    \* PIN_NOT_USED, and no pin where a loop has ended

ASSUME GpioteAssumption ==
  /\ NumPins \in Nat \ {0} /\ NumUsers \in Nat /\ UserArraySize \in Nat /\ LowPowerEvents \in Nat
  /\ LowToHigh \in [Users -> SUBSET Pins] /\ HighToLow \in [Users -> SUBSET Pins]
  /\ OneShot \subseteq Users

VARIABLES
  high,                  (* the pins that are high                           *)
  sense,                 (* the SENSE field of each pin's configuration      *)
  event,                 (* EVENTS_PORT                                      *)
  port_handlers_pins,    (* the driver's pin of each low-power event         *)
  m_user_count, m_pins, m_last_pins_state, enabled,    (* app_gpiote's       *)
  registered,            (* users whose registration succeeded               *)
  main, user, pin, step, (* the call main is in: its user, the pin its loop  *)
                         (* is at and where it is with that pin              *)
  pin_read,              (* the level nrf_drv_gpiote_in_event_enable read    *)
  irq, slot, input, repeat   (* the interrupt handler                        *)

port == <<high, sense, event>>
app == <<m_user_count, m_pins, m_last_pins_state, enabled, registered>>
call == <<main, user, pin, step, pin_read>>
handler == <<irq, slot, input, repeat>>
vars == <<port, port_handlers_pins, app, call, handler>>

-----------------------------------------------------------------------------
(***************************************************************************)
(* The port.                                                               *)
(***************************************************************************)
Senses == {"NOSENSE", "LOW", "HIGH"}
Matches(p, h, s) == s[p] = (IF p \in h THEN "HIGH" ELSE "LOW")
Detect(h, s) == \E p \in Pins : Matches(p, h, s)

\* What a change of the pins or of their configuration does to the event.
Rises == event' = (event \/ (~Detect(high, sense) /\ Detect(high', sense')))

SenseSet(p, s) == sense' = [sense EXCEPT ![p] = s] /\ UNCHANGED high /\ Rises

PinChanges(p) ==
  /\ high' = IF p \in high THEN high \ {p} ELSE high \cup {p}
  /\ UNCHANGED sense /\ Rises
  /\ UNCHANGED <<port_handlers_pins, app, call, handler>>

-----------------------------------------------------------------------------
(***************************************************************************)
(* The driver's table.                                                     *)
(***************************************************************************)
InUseByPort(p) == \E i \in Slots : port_handlers_pins[i] = p
Free == {i \in Slots : port_handlers_pins[i] = NotUsed}

\* channel_port_alloc takes the first one that is free.
FirstFree == CHOOSE i \in Free : \A j \in Free : i <= j

Opposite(s) == IF s = "HIGH" THEN "LOW" ELSE "HIGH"

-----------------------------------------------------------------------------
(***************************************************************************)
(* app_gpiote, as main calls it.                                           *)
(***************************************************************************)
PinsMask(u) == LowToHigh[u] \cup HighToLow[u]

\* The next pin of the user's mask, NotUsed after the last.
NextPin(u, p) ==
  LET later == {q \in PinsMask(u) : q >= p}
  IN  IF later = {} THEN NotUsed ELSE CHOOSE q \in later : \A r \in later : q <= r

Running == irq = "off"

Begins(op, u) ==
  /\ main' = op /\ user' = u /\ pin' = NextPin(u, 0) /\ step' = "search"
  /\ UNCHANGED pin_read
GoesOn(s) == step' = s /\ UNCHANGED <<main, user, pin>>
PinDone == pin' = NextPin(user, pin + 1) /\ step' = "search" /\ UNCHANGED <<main, user, pin_read>>
Returns == main' = "idle" /\ UNCHANGED <<user, pin, step, pin_read>>

\* app_gpiote_user_register: the user is counted before its pins are initialised.
Register ==
  /\ main = "idle" /\ Running
  /\ m_user_count < UserArraySize /\ m_user_count < NumUsers
  /\ m_user_count' = m_user_count + 1
  /\ enabled' = enabled \ {m_user_count + 1}
  /\ Begins("register", m_user_count + 1)
  /\ UNCHANGED <<port, port_handlers_pins, m_pins, m_last_pins_state, registered, handler>>

\* The loop over the pins, with nrf_drv_gpiote_in_init for one that is not
\* initialised yet; when no event is left for it, NRF_ERROR_NO_MEM.
RegisterPin ==
  /\ main = "register" /\ Running /\ pin # NotUsed
  /\ \/ pin \in m_pins /\ PinDone /\ UNCHANGED <<port_handlers_pins, m_pins>>
     \/ /\ pin \notin m_pins /\ Free # {}
        /\ port_handlers_pins' = [port_handlers_pins EXCEPT ![FirstFree] = pin]
        /\ m_pins' = m_pins \cup {pin}
        /\ PinDone
     \/ /\ pin \notin m_pins /\ Free = {}
        /\ Returns /\ UNCHANGED <<port_handlers_pins, m_pins>>
  /\ UNCHANGED <<port, m_user_count, m_last_pins_state, enabled, registered, handler>>

Registered ==
  /\ main = "register" /\ Running /\ pin = NotUsed
  /\ registered' = registered \cup {user}
  /\ Returns
  /\ UNCHANGED <<port, port_handlers_pins, m_user_count, m_pins, m_last_pins_state, enabled, handler>>

\* app_gpiote_user_enable and app_gpiote_user_disable.
Enable(u) ==
  /\ main = "idle" /\ Running /\ u \notin enabled
  /\ Begins("enable", u)
  /\ UNCHANGED <<port, port_handlers_pins, app, handler>>

Disable(u) ==
  /\ main = "idle" /\ Running /\ u \in enabled
  /\ enabled' = enabled \ {u}
  /\ Begins("disable", u)
  /\ UNCHANGED <<port, port_handlers_pins, m_user_count, m_pins, m_last_pins_state, registered, handler>>

\* pin_event_enable: the pin is left alone when some user has it enabled.
InLoop == main \in {"enable", "disable"} /\ Running /\ pin # NotUsed

Wanted(p, users) == \E u \in users : p \in PinsMask(u)

Search ==
  /\ InLoop /\ step = "search"
  /\ IF Wanted(pin, enabled)
       THEN PinDone
       ELSE GoesOn(IF main = "enable" THEN "state" ELSE "disable") /\ UNCHANGED pin_read
  /\ UNCHANGED <<port, port_handlers_pins, app, handler>>

ReadState ==
  /\ InLoop /\ step = "state"
  /\ m_last_pins_state' = high
  /\ GoesOn("read") /\ UNCHANGED pin_read
  /\ UNCHANGED <<port, port_handlers_pins, m_user_count, m_pins, enabled, registered, handler>>

\* nrf_drv_gpiote_in_event_enable, toggle: the level is read, and the opposite sensed.
ReadPin ==
  /\ InLoop /\ step = "read"
  /\ IF InUseByPort(pin) THEN pin_read' = (pin \in high) /\ GoesOn("sense")
                         ELSE PinDone
  /\ UNCHANGED <<port, port_handlers_pins, app, handler>>

SensePin ==
  /\ InLoop /\ step = "sense"
  /\ SenseSet(pin, IF pin_read THEN "LOW" ELSE "HIGH")
  /\ PinDone
  /\ UNCHANGED <<port_handlers_pins, app, handler>>

\* nrf_drv_gpiote_in_event_disable.
DisablePin ==
  /\ InLoop /\ step = "disable"
  /\ IF InUseByPort(pin) THEN SenseSet(pin, "NOSENSE") ELSE UNCHANGED port
  /\ PinDone
  /\ UNCHANGED <<port_handlers_pins, app, handler>>

LoopDone ==
  /\ main \in {"enable", "disable"} /\ Running /\ pin = NotUsed
  /\ enabled' = IF main = "enable" THEN enabled \cup {user} ELSE enabled
  /\ Returns
  /\ UNCHANGED <<port, port_handlers_pins, m_user_count, m_pins, m_last_pins_state, registered, handler>>

-----------------------------------------------------------------------------
(***************************************************************************)
(* GPIOTE_IRQHandler and, called by it, gpiote_handler.                    *)
(***************************************************************************)
IrqClear ==
  /\ irq = "off" /\ event
  /\ irq' = "read" /\ event' = FALSE
  /\ UNCHANGED <<high, sense, port_handlers_pins, app, call, slot, input, repeat>>

IrqRead ==
  /\ irq = "read"
  /\ irq' = "pins" /\ slot' = 1 /\ input' = high /\ repeat' = FALSE
  /\ UNCHANGED <<port, port_handlers_pins, app, call>>

\* One pin of the table: when it is at the level sensed, its sense is turned.
SlotMatches ==
  LET p == port_handlers_pins[slot]
  IN  p # NotUsed /\ Matches(p, input, sense)

Turned(p) == SenseSet(p, Opposite(sense[p]))

IrqPin ==
  /\ irq = "pins" /\ slot \in Slots
  /\ IF SlotMatches
       THEN Turned(port_handlers_pins[slot]) /\ repeat' = TRUE /\ irq' = "tell" /\ UNCHANGED slot
       ELSE slot' = slot + 1 /\ UNCHANGED <<port, repeat, irq>>
  /\ UNCHANGED <<port_handlers_pins, app, call, input>>

\* The direction is told from the state read at the event before.  A one-shot
\* user is disabled by its handler, and with it the pins no other user has.
HighToLowEdge(p) == p \in m_last_pins_state
Told(p) ==
  {u \in enabled : \/ p \in HighToLow[u] /\ HighToLowEdge(p)
                   \/ p \in LowToHigh[u] /\ ~HighToLowEdge(p)}

QuietTurnedBack(p, off) ==                                    \* mutant
  {q \in Pins \ {p} : Wanted(q, off) /\ ~Wanted(q, enabled \ off)}
Quiet(p, off) == {q \in Pins : Wanted(q, off) /\ ~Wanted(q, enabled \ off)}

gpiote_handler(p) ==
  LET off == Told(p) \cap OneShot
  IN  /\ m_last_pins_state' = high
      /\ enabled' = enabled \ off
      /\ sense' = [q \in Pins |-> IF q \in Quiet(p, off) /\ InUseByPort(q) THEN "NOSENSE" ELSE sense[q]]
      /\ UNCHANGED high /\ Rises

IrqTell ==
  /\ irq = "tell"
  /\ gpiote_handler(port_handlers_pins[slot])
  /\ irq' = "pins" /\ slot' = slot + 1
  /\ UNCHANGED <<port_handlers_pins, m_user_count, m_pins, registered, call, input, repeat>>

\* After a pass that turned a pin the port is read again; when it has changed
\* meanwhile, the pass is repeated with what was read.
EndsAfterOnePass == FALSE                                     \* mutant
PassRepeats == repeat /\ high # input

IrqPassed ==
  /\ irq = "pins" /\ slot \notin Slots
  /\ IF PassRepeats
       THEN irq' = "pins" /\ slot' = 1 /\ input' = high /\ repeat' = FALSE
       ELSE irq' = "off" /\ slot' = 1 /\ input' = {} /\ repeat' = FALSE
  /\ UNCHANGED <<port, port_handlers_pins, app, call>>

-----------------------------------------------------------------------------
Init ==
  /\ high \in SUBSET Pins /\ sense = [p \in Pins |-> "NOSENSE"] /\ event = FALSE
  /\ port_handlers_pins = [i \in Slots |-> NotUsed]
  /\ m_user_count = 0 /\ m_pins = {} /\ m_last_pins_state = {} /\ enabled = {} /\ registered = {}
  /\ main = "idle" /\ user = 0 /\ pin = NotUsed /\ step = "search" /\ pin_read = FALSE
  /\ irq = "off" /\ slot = 1 /\ input = {} /\ repeat = FALSE

Main ==
  \/ Register \/ RegisterPin \/ Registered
  \/ \E u \in registered : Enable(u) \/ Disable(u)
  \/ Search \/ ReadState \/ ReadPin \/ SensePin \/ DisablePin \/ LoopDone

GPIOTE_IRQHandler == IrqClear \/ IrqRead \/ IrqPin \/ IrqTell \/ IrqPassed

Next == Main \/ GPIOTE_IRQHandler \/ \E p \in Pins : PinChanges(p)

Spec == Init /\ [][Next]_vars

\* The interrupt is served and its handler runs on.
FairSpec == Spec /\ WF_vars(GPIOTE_IRQHandler)

-----------------------------------------------------------------------------
(***************************************************************************)
(* Properties.                                                             *)
(***************************************************************************)
\* The driver is never deaf: out of the interrupt handler DETECT is down, so
\* that the next edge of a watched pin makes an event, or an event is waiting.
NeverDeaf == irq = "off" /\ ~event => ~Detect(high, sense)

\* Between calls a pin is sensed exactly when an enabled user wants it, also
\* when a user was disabled by its own handler.
SensedWhenWanted ==
  main = "idle" /\ irq = "off" =>
    \A p \in Pins : sense[p] # "NOSENSE" <=> Wanted(p, enabled)

\* A level that is sensed is noticed, whatever the other pins do.
LevelNoticed == \A p \in Pins : Matches(p, high, sense) ~> ~Matches(p, high, sense)

\* app_gpiote.h: the pins "that will generate events to this user when state is
\* changed from low->high".  The edge told is the one that was sensed.
DirectionTold ==
  irq = "tell" =>
    LET p == port_handlers_pins[slot] IN HighToLowEdge(p) <=> sense[p] = "HIGH"

\* A registration that fails leaves no user behind.
FailsWhole == main = "idle" => m_user_count = Cardinality(registered)
=============================================================================
