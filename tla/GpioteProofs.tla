---------------------------- MODULE GpioteProofs ----------------------------
(***************************************************************************)
(* The driver is never deaf and watches the pins it should, for any number *)
(* of pins, users and low-power events.                                    *)
(***************************************************************************)
EXTENDS Gpiote, WellFoundedInduction, TLAPS

(***************************************************************************)
(* No other user has a pin of a one-shot user.  Where one does, main may   *)
(* find the pin enabled for the one-shot user and leave it alone just      *)
(* before the handler of that user disables the pin (MCGpioteShared.cfg).  *)
(***************************************************************************)
Unshared == \A u \in OneShot, v \in Users : u # v => PinsMask(u) \cap PinsMask(v) = {}

Ends == Pins \cup {NotUsed}

Types ==
  /\ high \in SUBSET Pins /\ sense \in [Pins -> Senses] /\ event \in BOOLEAN
  /\ port_handlers_pins \in [Slots -> Ends]
  /\ m_user_count \in Nat /\ m_pins \in SUBSET Pins /\ m_last_pins_state \in SUBSET Pins
  /\ enabled \in SUBSET registered /\ registered \in SUBSET Users
  /\ main \in {"idle", "register", "enable", "disable"}
  /\ user \in Users \cup {0} /\ pin \in Ends
  /\ step \in {"search", "state", "read", "sense", "disable"} /\ pin_read \in BOOLEAN
  /\ irq \in {"off", "read", "pins", "tell"} /\ slot \in 1 .. LowPowerEvents + 1
  /\ input \in SUBSET Pins /\ repeat \in BOOLEAN

(***************************************************************************)
(* The table: a pin that is sensed is in it, and so are the pins of every  *)
(* user that is registered, and of one that is being registered those that *)
(* the loop has passed.                                                    *)
(***************************************************************************)
Table ==
  /\ \A p \in Pins : sense[p] # "NOSENSE" \/ p \in m_pins => InUseByPort(p)
  /\ \A u \in registered : PinsMask(u) \subseteq m_pins /\ u <= m_user_count
  /\ main = "register" => \A p \in PinsMask(user) : p < pin => p \in m_pins

(***************************************************************************)
(* Where main is in the loop over the pins of its user.                    *)
(***************************************************************************)
Loop ==
  /\ main # "idle" => user \in Users /\ user <= m_user_count /\ pin \in PinsMask(user) \cup {NotUsed}
  /\ main \in {"enable", "disable"} => user \in registered \ enabled
  /\ step # "search" =>
       pin \in PinsMask(user) /\ ~Wanted(pin, enabled)
         /\ main = (IF step = "disable" THEN "disable" ELSE "enable")
  /\ step = "sense" => InUseByPort(pin)

(***************************************************************************)
(* A pin is sensed when an enabled user wants it, but for the pins that    *)
(* the loop has passed when it enables, or has still before it when it     *)
(* disables.                                                               *)
(***************************************************************************)
Sensed(p) == sense[p] # "NOSENSE"
Watched ==
  \A p \in Pins :
    IF main = "enable" /\ p \in PinsMask(user) /\ p < pin THEN Sensed(p)
    ELSE IF main = "disable" /\ p \in PinsMask(user) /\ p >= pin
           THEN Wanted(p, enabled) => Sensed(p)
    ELSE Sensed(p) <=> Wanted(p, enabled)

(***************************************************************************)
(* The interrupt handler: the pins of the table that the pass has seen are *)
(* not at the level sensed, in the port as the pass took it; and as long   *)
(* as it has turned none, a pin that comes to the level sensed makes an    *)
(* event unless one was there from the start.                              *)
(***************************************************************************)
Seen(i) == i < slot \/ (i = slot /\ irq = "tell")
Pass ==
  /\ irq \in {"pins", "tell"} =>
       \A i \in Slots : Seen(i) /\ port_handlers_pins[i] # NotUsed
                          => ~Matches(port_handlers_pins[i], input, sense)
  /\ irq = "tell" => slot \in Slots /\ port_handlers_pins[slot] \in Pins /\ repeat
  /\ irq = "pins" /\ ~repeat /\ ~event /\ ~Detect(input, sense) => ~Detect(high, sense)

IInv == Types /\ Table /\ Loop /\ Pass /\ NeverDeaf

-----------------------------------------------------------------------------
LEMMA Smallest ==
  ASSUME NEW S \in SUBSET Nat, S # {}
  PROVE  \E n \in S : \A m \in S : n <= m
<1>1. PICK n \in S : \A m \in S : ~ (<<m, n>> \in OpToRel(<, Nat))
  BY NatLessThanWellFounded, WFMin
<1>2. \A m \in S : ~ (m < n)
  BY <1>1 DEF OpToRel
<1> QED  BY <1>2

LEMMA Masks ==
  /\ NumPins \in Nat \ {0} /\ LowPowerEvents \in Nat /\ NotUsed \notin Pins
  /\ Pins \subseteq Nat /\ Ends \subseteq Nat
  /\ \A u \in Users : \A q \in PinsMask(u) : q \in Pins /\ q \in Nat /\ q >= 0
BY GpioteAssumption DEF PinsMask, Pins, Ends, NotUsed

\* The loop goes on to the next pin of the mask and passes none over.
LEMMA NextPinIsNext ==
  ASSUME NEW u \in Users, NEW p \in Nat
  PROVE  /\ NextPin(u, p) \in PinsMask(u) \cup {NotUsed} /\ NextPin(u, p) \in Ends
         /\ \A q \in PinsMask(u) : q >= p <=> q >= NextPin(u, p)
<1> DEFINE later == {q \in PinsMask(u) : q >= p}
<1>1. later \in SUBSET Nat /\ \A q \in PinsMask(u) : q \in Pins /\ q \in Nat
  BY Masks
<1>2. CASE later = {}
  <2>1. NextPin(u, p) = NotUsed
    BY <1>2 DEF NextPin
  <2> QED  BY <1>1, <1>2, <2>1, Masks DEF Pins, NotUsed, Ends
<1>3. CASE later # {}
  <2>1. NextPin(u, p) = CHOOSE q \in later : \A r \in later : q <= r
    BY <1>3 DEF NextPin
  <2>2. \E q \in later : \A r \in later : q <= r
    BY <1>1, <1>3, Smallest
  <2>3. NextPin(u, p) \in later /\ \A r \in later : NextPin(u, p) <= r
    BY <2>1, <2>2
  <2> QED  BY <1>1, <2>3, Masks DEF Ends
<1> QED  BY <1>2, <1>3

LEMMA PinIsDone ==
  ASSUME user \in Users, pin \in PinsMask(user), PinDone
  PROVE  /\ step' = "search" /\ UNCHANGED <<main, user, pin_read>>
         /\ pin' \in Ends /\ pin' \in PinsMask(user) \cup {NotUsed}
         /\ \A q \in PinsMask(user) : (q < pin' <=> q <= pin) /\ (q >= pin' <=> q > pin)
<1>1. /\ pin' = NextPin(user, pin + 1) /\ UNCHANGED <<main, user, pin_read>>
      /\ step' = "search" /\ pin \in Nat /\ pin + 1 \in Nat
  BY Masks DEF PinDone
<1>2. \A q \in PinsMask(user) : q \in Nat /\ (q >= pin + 1 <=> q >= pin')
  BY <1>1, NextPinIsNext, Masks
<1>3. pin' \in Ends /\ pin' \in Nat /\ pin' \in PinsMask(user) \cup {NotUsed}
  BY <1>1, NextPinIsNext, Masks
<1> QED  BY <1>1, <1>2, <1>3

LEMMA FirstFreeIsFree == Free # {} => FirstFree \in Free
<1>1. Free \in SUBSET Nat
  BY DEF Free, Slots
<1>2. Free # {} => \E i \in Free : \A j \in Free : i <= j
  BY <1>1, Smallest
<1> QED  BY <1>2 DEF FirstFree

LEMMA InitIInv == Init => IInv /\ Watched
<1> SUFFICES ASSUME Init  PROVE IInv /\ Watched
  OBVIOUS
<1>1. Types
  <2>1. /\ slot \in 1 .. LowPowerEvents + 1 /\ pin \in Ends
        /\ port_handlers_pins \in [Slots -> Ends]
    BY Masks DEF Init, Ends
  <2> QED  BY <2>1 DEF Init, Types, Senses
<1>2. Table /\ Loop /\ Pass
  BY DEF Init, Table, Loop, Pass
<1>3. \A p \in Pins : \A h : ~Matches(p, h, sense)
  BY DEF Init, Matches
<1>4. NeverDeaf
  BY <1>3 DEF NeverDeaf, Detect
<1>5. Watched
  BY DEF Init, Watched, Sensed, Wanted
<1> QED  BY <1>1, <1>2, <1>4, <1>5 DEF IInv

-----------------------------------------------------------------------------
(***************************************************************************)
(* Main.  Its steps run with the interrupt handler out of the way, so that *)
(* what is to be shown of the pass is that DETECT has not risen unnoticed. *)
(***************************************************************************)
LEMMA StaysHeard ==
  ASSUME NeverDeaf, event \in BOOLEAN, irq' = irq,
         Rises \/ UNCHANGED <<high, sense, event>>
  PROVE  NeverDeaf'
BY DEF NeverDeaf, Rises, Detect, Matches

LEMMA RegisterIInv ==
  ASSUME IInv, Register \/ RegisterPin \/ Registered
  PROVE  IInv' /\ (Watched => Watched')
<1>1. /\ irq = "off" /\ UNCHANGED <<high, sense, event>>
      /\ UNCHANGED <<m_last_pins_state, irq, slot, input, repeat, pin_read>>
  BY DEF Register, RegisterPin, Registered, port, handler, Running, Begins, PinDone, Returns
<1>2. NeverDeaf' /\ Pass'
  BY <1>1, StaysHeard DEF IInv, Types, Pass
<1>3. CASE Register
  <2> DEFINE u == m_user_count + 1
  <2>1. u \in Users /\ 0 \in Nat
    BY <1>3, GpioteAssumption DEF Register, IInv, Types, Users
  <2>2. /\ main' = "register" /\ user' = u /\ pin' = NextPin(u, 0) /\ step' = "search"
        /\ m_user_count' = u /\ enabled' = enabled \ {u} /\ main = "idle"
        /\ UNCHANGED <<port_handlers_pins, m_pins, registered>>
    BY <1>3 DEF Register, Begins
  <2>3. Types'
    BY <1>1, <2>1, <2>2, NextPinIsNext DEF IInv, Types, Users
  <2>4. enabled' = enabled
    BY <2>2 DEF IInv, Types, Table
  <2>5. Table'
    <3>1. \A p \in PinsMask(u) : p >= pin'
      <4>1. \A p \in PinsMask(u) : p >= 0 <=> p >= NextPin(u, 0)
        BY <2>1, NextPinIsNext
      <4>2. \A p \in PinsMask(u) : p >= 0
        BY <2>1, Masks
      <4> QED  BY <2>2, <4>1, <4>2
    <3>2. \A p \in PinsMask(u) : p \in Nat /\ pin' \in Nat
      BY <2>1, <2>3, Masks DEF Types
    <3> QED
      BY <1>1, <2>2, <3>1, <3>2 DEF IInv, Types, Table, InUseByPort, Users
  <2>6. Loop'
    BY <2>1, <2>2, NextPinIsNext DEF Loop
  <2>7. Watched => Watched'
    BY <1>1, <2>2, <2>4 DEF Watched, Sensed, Wanted
  <2> QED  BY <1>2, <2>3, <2>5, <2>6, <2>7 DEF IInv
<1>4. CASE RegisterPin
  <2>1. /\ main = "register" /\ pin \in PinsMask(user) /\ user \in Users /\ pin \in Pins
        /\ step = "search" /\ UNCHANGED <<m_user_count, enabled, registered>>
    BY <1>4, Masks DEF RegisterPin, IInv, Loop
  <2>2. /\ m_pins \subseteq m_pins' /\ m_pins' \subseteq m_pins \cup {pin}
        /\ \A i \in Slots : port_handlers_pins'[i] = port_handlers_pins[i]
                              \/ port_handlers_pins[i] = NotUsed
        /\ port_handlers_pins' \in [Slots -> Ends]
        /\ \A p \in m_pins' : p \in m_pins \/ \E i \in Slots : port_handlers_pins'[i] = p
    BY <1>4, <2>1, FirstFreeIsFree DEF RegisterPin, IInv, Types, Free, Ends
  <2>3. \/ PinDone /\ pin \in m_pins'
        \/ Returns
    BY <1>4 DEF RegisterPin
  <2>4. pin + 1 \in Nat /\ pin \in Nat
    BY <2>1, Masks
  <2>5. /\ main' \in {"register", "idle"} /\ UNCHANGED <<user, step>> /\ pin' \in Ends
        /\ main' = "register" => pin \in m_pins' /\ pin' \in PinsMask(user) \cup {NotUsed}
                                 /\ \A q \in PinsMask(user) : q < pin' <=> q <= pin
    <3>1. CASE Returns
      BY <3>1 DEF Returns, IInv, Types
    <3>2. CASE PinDone /\ pin \in m_pins'
      BY <2>1, <3>2, PinIsDone
    <3> QED  BY <2>3, <3>1, <3>2
  <2>6. Types'
    BY <1>1, <2>1, <2>2, <2>5 DEF IInv, Types
  <2>7. \A p \in Pins : InUseByPort(p) => InUseByPort(p)'
    BY <2>2, Masks DEF InUseByPort
  <2>8. Table'
    <3>1. \A p \in Pins : sense'[p] # "NOSENSE" \/ p \in m_pins' => InUseByPort(p)'
      BY <1>1, <2>2, <2>7 DEF IInv, Table, InUseByPort
    <3>2. \A u \in registered' : PinsMask(u) \subseteq m_pins' /\ u <= m_user_count'
      BY <2>1, <2>2 DEF IInv, Table
    <3>3. ASSUME main' = "register", NEW p \in PinsMask(user), p < pin'  PROVE p \in m_pins'
      <4>1. p <= pin /\ pin \in m_pins' /\ p \in Nat
        BY <2>1, <2>5, <3>3, Masks
      <4> QED  BY <2>1, <2>2, <2>4, <4>1 DEF IInv, Table
    <3> QED  BY <2>5, <3>1, <3>2, <3>3 DEF Table
  <2>9. Loop'
    BY <2>1, <2>5 DEF IInv, Loop
  <2>10. Watched => Watched'
    BY <1>1, <2>1, <2>5 DEF Watched, Sensed, Wanted
  <2> QED  BY <1>2, <2>6, <2>8, <2>9, <2>10 DEF IInv
<1>5. CASE Registered
  <2>1. /\ main = "register" /\ pin = NotUsed /\ main' = "idle" /\ step = "search"
        /\ registered' = registered \cup {user} /\ user \in Users /\ user <= m_user_count
        /\ UNCHANGED <<port_handlers_pins, m_user_count, m_pins, enabled, user, pin, step>>
    BY <1>5 DEF Registered, Returns, IInv, Loop
  <2>2. Types'
    BY <1>1, <2>1 DEF IInv, Types
  <2>3. PinsMask(user) \subseteq m_pins
    BY <2>1, Masks DEF IInv, Table, Pins, NotUsed
  <2>4. Table'
    BY <1>1, <2>1, <2>3 DEF IInv, Table, InUseByPort
  <2>5. Loop'
    BY <2>1 DEF Loop
  <2>6. Watched => Watched'
    BY <1>1, <2>1 DEF Watched, Sensed, Wanted
  <2> QED  BY <1>2, <2>2, <2>4, <2>5, <2>6 DEF IInv
<1> QED  BY <1>3, <1>4, <1>5

LEMMA BeginsIInv ==
  ASSUME IInv, NEW u \in registered, Enable(u) \/ Disable(u)
  PROVE  IInv' /\ (Watched => Watched')
<1>1. /\ irq = "off" /\ UNCHANGED <<high, sense, event, port_handlers_pins, m_user_count, m_pins>>
      /\ UNCHANGED <<m_last_pins_state, registered, irq, slot, input, repeat, pin_read>>
      /\ main = "idle" /\ user' = u /\ pin' = NextPin(u, 0) /\ step' = "search"
      /\ \/ main' = "enable" /\ u \notin enabled /\ enabled' = enabled
         \/ main' = "disable" /\ enabled' = enabled \ {u}
  BY DEF Enable, Disable, port, app, handler, Running, Begins
<1>2. NeverDeaf' /\ Pass'
  BY <1>1, StaysHeard DEF IInv, Types, Pass
<1>3. /\ u \in Users /\ u <= m_user_count /\ pin' \in Ends /\ pin' \in PinsMask(u) \cup {NotUsed}
      /\ \A q \in PinsMask(u) : q \in Nat /\ q >= pin'
  <2>1. u \in Users /\ u <= m_user_count /\ 0 \in Nat
    BY DEF IInv, Types, Table
  <2>2. \A q \in PinsMask(u) : q \in Nat /\ q >= 0
    BY <2>1, Masks
  <2>3. \A q \in PinsMask(u) : q >= 0 <=> q >= NextPin(u, 0)
    BY <2>1, NextPinIsNext
  <2> QED  BY <1>1, <2>1, <2>2, <2>3, NextPinIsNext
<1>4. Types'
  BY <1>1, <1>3 DEF IInv, Types
<1>5. Table' /\ Loop'
  BY <1>1, <1>3 DEF IInv, Types, Table, Loop, InUseByPort
<1>6. ASSUME Watched  PROVE Watched'
  <2>1. \A p \in Pins : Sensed(p)' <=> Wanted(p, enabled)
    BY <1>1, <1>6 DEF Watched, Sensed
  <2>2. \A p \in PinsMask(u) : ~(p < pin') /\ p >= pin'
    BY <1>3, <1>4, Masks DEF Types
  <2>3. CASE main' = "enable"
    BY <1>1, <2>1, <2>2, <2>3 DEF Watched
  <2>4. CASE main' = "disable"
    BY <1>1, <2>1, <2>2, <2>4 DEF Watched, Wanted
  <2> QED  BY <1>1, <2>3, <2>4
<1> QED  BY <1>2, <1>4, <1>5, <1>6 DEF IInv

LEMMA LoopDoneIInv ==
  ASSUME IInv, LoopDone
  PROVE  IInv' /\ (Watched => Watched')
<1>1. /\ irq = "off" /\ UNCHANGED <<high, sense, event, port_handlers_pins, m_user_count, m_pins>>
      /\ UNCHANGED <<m_last_pins_state, registered, irq, slot, input, repeat, pin_read, user, pin, step>>
      /\ main' = "idle" /\ pin = NotUsed /\ user \in registered /\ user \in Users
      /\ \/ main = "enable" /\ enabled' = enabled \cup {user}
         \/ main = "disable" /\ enabled' = enabled
  BY DEF LoopDone, port, handler, Running, Returns, IInv, Loop
<1>2. NeverDeaf' /\ Pass'
  BY <1>1, StaysHeard DEF IInv, Types, Pass
<1>3. \A p \in PinsMask(user) : p \in Pins /\ p < pin /\ ~(p >= pin)
  BY <1>1, Masks DEF Pins, NotUsed
<1>4. Types'
  BY <1>1 DEF IInv, Types
<1>5. Table' /\ Loop'
  BY <1>1, <1>3, Masks DEF IInv, Table, Loop, InUseByPort
<1>6. ASSUME Watched  PROVE Watched'
  <2>1. CASE main = "disable"
    BY <1>1, <1>3, <1>6, <2>1 DEF Watched, Sensed, Wanted
  <2>2. CASE main = "enable"
    <3>1. \A p \in Pins : Wanted(p, enabled') <=> p \in PinsMask(user) \/ Wanted(p, enabled)
      BY <1>1, <2>2 DEF Wanted
    <3>2. \A p \in Pins : Sensed(p) <=> p \in PinsMask(user) \/ Wanted(p, enabled)
      BY <1>3, <1>6, <2>2 DEF Watched
    <3> QED  BY <1>1, <3>1, <3>2 DEF Watched, Sensed
  <2> QED  BY <1>1, <2>1, <2>2
<1> QED  BY <1>2, <1>4, <1>5, <1>6 DEF IInv

(***************************************************************************)
(* pin_event_enable, of which the pin is found enabled for another user,   *)
(* or goes through the reads to the setting of its sense.                  *)
(***************************************************************************)
LEMMA LoopIInv ==
  ASSUME IInv, Search \/ ReadState \/ ReadPin \/ SensePin \/ DisablePin
  PROVE  IInv' /\ (Watched => Watched')
<1>1. /\ irq = "off" /\ main \in {"enable", "disable"} /\ pin \in PinsMask(user)
      /\ user \in registered \ enabled /\ user \in Users /\ pin \in Pins
      /\ UNCHANGED <<port_handlers_pins, m_user_count, m_pins, registered, enabled, main, user>>
      /\ UNCHANGED <<irq, slot, input, repeat>> /\ m_last_pins_state' \in SUBSET Pins
  BY Masks DEF Search, ReadState, ReadPin, SensePin, DisablePin, InLoop, Running, GoesOn, PinDone,
     app, handler, IInv, Types, Loop, Ends
<1>2. Types /\ Table /\ Loop /\ NeverDeaf
  BY DEF IInv
<1>3. \/ PinDone /\ UNCHANGED <<high, sense, event>> /\ Wanted(pin, enabled)
      \/ /\ pin' = pin /\ pin_read' \in BOOLEAN /\ UNCHANGED <<high, sense, event>>
         /\ ~Wanted(pin, enabled) /\ step' \in {"state", "read", "sense", "disable"}
         /\ main = (IF step' = "disable" THEN "disable" ELSE "enable")
         /\ step' = "sense" => InUseByPort(pin)
      \/ /\ PinDone /\ main = "enable" /\ InUseByPort(pin)
         /\ SenseSet(pin, "LOW") \/ SenseSet(pin, "HIGH")
      \/ /\ PinDone /\ main = "disable" /\ ~Wanted(pin, enabled)
         /\ \/ SenseSet(pin, "NOSENSE")
            \/ UNCHANGED <<high, sense, event>> /\ ~InUseByPort(pin)
  <2>1. CASE Search
    BY <1>1, <1>2, <2>1 DEF Search, GoesOn, port, Types
  <2>2. CASE ReadState
    BY <1>1, <1>2, <2>2 DEF ReadState, GoesOn, port, Types, Loop
  <2>3. CASE ReadPin
    <3>1. InUseByPort(pin) /\ ~Wanted(pin, enabled) /\ main = "enable"
      BY <1>1, <1>2, <2>3 DEF ReadPin, Table, Loop
    <3> QED  BY <2>3, <3>1 DEF ReadPin, GoesOn, port
  <2>4. CASE SensePin
    <3>1. InUseByPort(pin) /\ main = "enable" /\ PinDone
      BY <1>1, <1>2, <2>4 DEF SensePin, Loop
    <3> QED  BY <2>4, <3>1 DEF SensePin
  <2>5. CASE DisablePin
    <3>1. ~Wanted(pin, enabled) /\ main = "disable" /\ PinDone
      BY <1>1, <1>2, <2>5 DEF DisablePin, Loop
    <3> QED  BY <2>5, <3>1 DEF DisablePin, port
  <2> QED  BY <2>1, <2>2, <2>3, <2>4, <2>5
<1>4. PinDone => /\ step' = "search" /\ pin_read' = pin_read /\ pin' \in Ends
                 /\ pin' \in PinsMask(user) \cup {NotUsed}
                 /\ \A q \in PinsMask(user) : (q < pin' <=> q <= pin) /\ (q >= pin' <=> q > pin)
  BY <1>1, PinIsDone
<1>5. /\ high' = high /\ event' \in BOOLEAN /\ sense' \in [Pins -> Senses]
      /\ \A p \in Pins \ {pin} : sense'[p] = sense[p]
      /\ Rises \/ UNCHANGED <<high, sense, event>>
  BY <1>1, <1>2, <1>3 DEF SenseSet, Rises, Types, Senses
<1>6. NeverDeaf' /\ Pass'
  BY <1>1, <1>2, <1>5, StaysHeard DEF Types, Pass
<1>7. Types'
  <2>1. pin' \in Ends /\ pin_read' \in BOOLEAN
        /\ step' \in {"search", "state", "read", "sense", "disable"}
    BY <1>2, <1>3, <1>4 DEF Types
  <2> QED  BY <1>1, <1>2, <1>5, <2>1 DEF Types
<1>8. Table'
  <2>1. \A p \in Pins : InUseByPort(p)' <=> InUseByPort(p)
    BY <1>1 DEF InUseByPort
  <2>2. sense'[pin] # "NOSENSE" => InUseByPort(pin)
    BY <1>1, <1>2, <1>3 DEF SenseSet, Types, Table
  <2> QED  BY <1>1, <1>2, <1>5, <2>1, <2>2 DEF Table
<1>9. Loop'
  <2>1. CASE PinDone
    BY <1>1, <1>2, <1>4, <2>1 DEF Loop
  <2>2. CASE ~PinDone
    BY <1>1, <1>2, <1>3, <2>2 DEF Loop, InUseByPort, Wanted
  <2> QED  BY <2>1, <2>2
<1>10. ASSUME Watched  PROVE Watched'
  <2>1. \A p \in Pins : Wanted(p, enabled)' <=> Wanted(p, enabled)
    BY <1>1 DEF Wanted
  <2>2. CASE ~PinDone
    BY <1>1, <1>3, <1>10, <2>1, <2>2 DEF Watched, Sensed
  <2>3. CASE PinDone
    <3>1. /\ main = "enable" => (sense[pin] # "NOSENSE" <=> Wanted(pin, enabled))
          /\ main = "disable" => (Wanted(pin, enabled) => sense[pin] # "NOSENSE")
          /\ ~InUseByPort(pin) => sense[pin] = "NOSENSE"
      <4>1. pin \in Nat
        BY <1>1, Masks
      <4>2. ~(pin < pin) /\ pin >= pin
        BY <4>1
      <4> QED  BY <1>1, <1>2, <1>10, <4>2 DEF Watched, Sensed, Table
    <3>2. \A s \in Senses : SenseSet(pin, s) => sense'[pin] = s
      BY <1>1, <1>2 DEF SenseSet, Types
    <3>3. {"LOW", "HIGH", "NOSENSE"} \subseteq Senses
      BY DEF Senses
    <3>4. main = "enable" => sense'[pin] # "NOSENSE"
      BY <1>3, <1>4, <2>3, <3>1, <3>2, <3>3
    <3>5. main = "disable" => (sense'[pin] # "NOSENSE" <=> Wanted(pin, enabled))
      BY <1>3, <1>4, <2>3, <3>1, <3>2, <3>3
    <3>6. \A q \in PinsMask(user) : q \in Nat /\ pin \in Nat /\ q \in Pins
      BY <1>1, Masks
    <3>7. \A q \in Pins \ {pin} : Sensed(q)' <=> Sensed(q)
      BY <1>5 DEF Sensed
    <3>8. ASSUME NEW q \in Pins
          PROVE  IF main = "enable" /\ q \in PinsMask(user) /\ q < pin' THEN Sensed(q)'
                 ELSE IF main = "disable" /\ q \in PinsMask(user) /\ q >= pin'
                        THEN Wanted(q, enabled) => Sensed(q)'
                 ELSE Sensed(q)' <=> Wanted(q, enabled)
      <4>1. CASE q = pin
        BY <1>1, <1>4, <2>3, <3>4, <3>5, <3>6, <4>1 DEF Sensed
      <4>2. CASE q # pin
        BY <1>1, <1>4, <1>10, <2>3, <3>6, <3>7, <4>2 DEF Watched
      <4> QED  BY <4>1, <4>2
    <3> QED  BY <1>1, <2>1, <3>8 DEF Watched
  <2> QED  BY <2>2, <2>3
<1> QED  BY <1>6, <1>7, <1>8, <1>9, <1>10 DEF IInv

-----------------------------------------------------------------------------
(***************************************************************************)
(* The pins and the interrupt handler.  It leaves main where it is.        *)
(***************************************************************************)
LEMMA PinChangesIInv ==
  ASSUME IInv, NEW p \in Pins, PinChanges(p)
  PROVE  IInv' /\ (Watched => Watched')
<1>1. /\ high' \in SUBSET Pins /\ event' \in BOOLEAN /\ Rises
      /\ UNCHANGED <<sense, port_handlers_pins, app, call, handler>>
  BY DEF PinChanges, Rises, IInv, Types
<1>2. Types'
  BY <1>1 DEF IInv, Types, app, call, handler
<1>3. Table' /\ Loop'
  BY <1>1 DEF IInv, Table, Loop, InUseByPort, Wanted, app, call
<1>4. NeverDeaf'
  BY <1>1, StaysHeard DEF IInv, Types, handler
<1>5. Detect(input, sense)' = Detect(input, sense) /\ Detect(high, sense)' = Detect(high', sense')
  BY <1>1 DEF Detect, Matches, handler
<1>6. Pass'
  BY <1>1, <1>5 DEF IInv, Types, Pass, Seen, Matches, Rises, handler
<1>7. Watched => Watched'
  BY <1>1 DEF Watched, Sensed, Wanted, app, call
<1> QED  BY <1>2, <1>3, <1>4, <1>6, <1>7 DEF IInv

\* What keeps the table, the loop and the pins watched.
LEMMA StillWatched ==
  ASSUME IInv, UNCHANGED <<port_handlers_pins, app, call>>,
         \A p \in Pins : sense'[p] # "NOSENSE" <=> sense[p] # "NOSENSE"
  PROVE  Table' /\ Loop' /\ (Watched => Watched')
<1>1. Table' /\ Loop'
  BY DEF IInv, Table, Loop, InUseByPort, Wanted, app, call
<1>2. Watched => Watched'
  BY DEF Watched, Sensed, Wanted, app, call
<1> QED  BY <1>1, <1>2

LEMMA IrqBeginsIInv ==
  ASSUME IInv, IrqClear \/ IrqRead
  PROVE  IInv' /\ (Watched => Watched')
<1>1. Types'
  <2>1. 1 \in 1 .. LowPowerEvents + 1
    BY Masks
  <2>2. CASE IrqClear
    BY <2>2 DEF IrqClear, IInv, Types, app, call
  <2>3. CASE IrqRead
    BY <2>1, <2>3 DEF IrqRead, IInv, Types, port, app, call
  <2> QED  BY <2>2, <2>3
<1>2. Table' /\ Loop' /\ (Watched => Watched')
  BY StillWatched DEF IrqClear, IrqRead, port
<1>3. NeverDeaf' /\ Pass'
  BY DEF IrqClear, IrqRead, NeverDeaf, Pass, Seen, Slots, Detect, Matches, port
<1> QED  BY <1>1, <1>2, <1>3 DEF IInv

LEMMA IrqPinIInv ==
  ASSUME IInv, IrqPin
  PROVE  IInv' /\ (Watched => Watched')
<1> DEFINE p == port_handlers_pins[slot]
<1>1. /\ irq = "pins" /\ slot \in Slots /\ UNCHANGED <<port_handlers_pins, app, call, input>>
      /\ p \in Ends /\ irq' # "off" /\ slot \in Nat /\ LowPowerEvents \in Nat
  BY Masks DEF IrqPin, IInv, Types, Slots
<1>2. NeverDeaf'
  BY <1>1 DEF NeverDeaf
<1>3. CASE SlotMatches
  <2>1. /\ SenseSet(p, Opposite(sense[p])) /\ repeat' = TRUE /\ irq' = "tell" /\ slot' = slot
    BY <1>3 DEF IrqPin, Turned
  <2>2. p \in Pins /\ sense[p] = (IF p \in input THEN "HIGH" ELSE "LOW")
    BY <1>1, <1>3 DEF SlotMatches, Matches, Ends
  <2>3. /\ sense' = [sense EXCEPT ![p] = Opposite(sense[p])] /\ high' = high
        /\ event' \in BOOLEAN /\ sense \in [Pins -> Senses]
    BY <2>1 DEF SenseSet, Rises, IInv, Types
  <2>4. Opposite(sense[p]) \in Senses \ {"NOSENSE"} /\ Opposite(sense[p]) # sense[p]
        /\ sense[p] # "NOSENSE"
    BY <2>2 DEF Opposite, Senses
  <2>5. /\ sense' \in [Pins -> Senses] /\ sense'[p] = Opposite(sense[p])
        /\ \A q \in Pins : q # p => sense'[q] = sense[q]
    BY <2>2, <2>3, <2>4
  <2>6. Types'
    BY <1>1, <2>1, <2>3, <2>5 DEF IInv, Types, app, call
  <2>7. Table' /\ Loop' /\ (Watched => Watched')
    BY <1>1, <2>4, <2>5, StillWatched
  <2>8. ASSUME NEW i \in Slots, i <= slot, port_handlers_pins[i] # NotUsed
        PROVE  ~Matches(port_handlers_pins[i], input, sense')
    <3>1. port_handlers_pins[i] \in Pins
      BY <2>8 DEF IInv, Types, Ends
    <3>2. CASE port_handlers_pins[i] = p
      BY <2>2, <2>4, <2>5, <3>2 DEF Matches
    <3>3. CASE port_handlers_pins[i] # p
      <4>1. i < slot
        BY <1>1, <2>8, <3>3 DEF Slots
      <4>2. ~Matches(port_handlers_pins[i], input, sense)
        BY <1>1, <2>8, <4>1 DEF IInv, Pass, Seen
      <4> QED  BY <2>5, <3>1, <3>3, <4>2 DEF Matches
    <3> QED  BY <3>2, <3>3
  <2>9. Pass'
    <3>1. \A i \in Slots : Seen(i)' => i <= slot
      BY <1>1, <2>1 DEF Seen, Slots
    <3> QED  BY <1>1, <2>1, <2>2, <2>8, <3>1 DEF Pass, Matches
  <2> QED  BY <1>2, <2>6, <2>7, <2>9 DEF IInv
<1>4. CASE ~SlotMatches
  <2>1. slot' = slot + 1 /\ UNCHANGED <<high, sense, event, repeat, irq>>
    BY <1>4 DEF IrqPin, port
  <2>2. Types'
    BY <1>1, <2>1 DEF IInv, Types, Slots, app, call
  <2>3. Table' /\ Loop' /\ (Watched => Watched')
    BY <1>1, <2>1, StillWatched
  <2>4. \A i \in Slots : Seen(i)' => Seen(i) \/ i = slot
    BY <1>1, <2>1 DEF Seen, Slots
  <2>5. p # NotUsed => ~Matches(p, input, sense)
    BY <1>4 DEF SlotMatches
  <2>6. Detect(input, sense)' = Detect(input, sense) /\ Detect(high, sense)' = Detect(high, sense)
    BY <1>1, <2>1 DEF Detect, Matches
  <2>7. Pass'
    BY <1>1, <2>1, <2>4, <2>5, <2>6 DEF IInv, Pass, Matches
  <2> QED  BY <1>2, <2>2, <2>3, <2>7 DEF IInv
<1> QED  BY <1>3, <1>4

(***************************************************************************)
(* A pass that has seen the whole table leaves no pin at the level sensed, *)
(* in the port as it was taken.                                            *)
(***************************************************************************)
LEMMA IrqPassedIInv ==
  ASSUME IInv, IrqPassed
  PROVE  IInv' /\ (Watched => Watched')
<1>1. /\ irq = "pins" /\ slot \notin Slots
      /\ UNCHANGED <<high, sense, event, port_handlers_pins, app, call>>
  BY DEF IrqPassed, port
<1>2. ~Detect(input, sense)
  <2>1. \A i \in Slots : i < slot
    BY <1>1, Masks DEF IInv, Types, Slots
  <2>2. ASSUME NEW p \in Pins, Matches(p, input, sense)  PROVE FALSE
    <3>1. sense[p] # "NOSENSE"
      BY <2>2 DEF Matches
    <3>2. PICK i \in Slots : port_handlers_pins[i] = p
      BY <3>1 DEF IInv, Table, InUseByPort
    <3> QED  BY <1>1, <2>1, <2>2, <3>2, Masks DEF IInv, Pass, Seen
  <2> QED  BY <2>2 DEF Detect
<1>3. Types'
  <2>1. /\ 1 \in 1 .. LowPowerEvents + 1 /\ irq' \in {"pins", "off"} /\ slot' = 1
        /\ input' \in {high, {}} /\ repeat' = FALSE
    BY Masks DEF IrqPassed
  <2> QED  BY <1>1, <2>1 DEF IInv, Types, app, call
<1>4. Table' /\ Loop' /\ (Watched => Watched')
  BY <1>1, StillWatched
<1>5. CASE PassRepeats
  <2>1. irq' = "pins" /\ slot' = 1 /\ input' = high /\ repeat' = FALSE
    BY <1>5 DEF IrqPassed
  <2>2. NeverDeaf' /\ Pass'
    BY <1>1, <2>1 DEF NeverDeaf, Pass, Seen, Slots, Detect, Matches
  <2> QED  BY <1>3, <1>4, <2>2 DEF IInv
<1>6. CASE ~PassRepeats
  <2>1. irq' = "off"
    BY <1>6 DEF IrqPassed
  <2>2. ~event => ~Detect(high, sense)
    BY <1>1, <1>2, <1>6 DEF PassRepeats, IInv, Pass
  <2> QED  BY <1>1, <1>3, <1>4, <2>1, <2>2 DEF IInv, NeverDeaf, Pass, Detect, Matches
<1> QED  BY <1>5, <1>6

(***************************************************************************)
(* gpiote_handler.  The pins it makes quiet are watched for a user that    *)
(* main is just enabling only if that user shares a pin.                   *)
(***************************************************************************)
LEMMA IrqTellIInv ==
  ASSUME IInv, IrqTell
  PROVE  IInv' /\ (Unshared /\ Watched => Watched')
<1> DEFINE p == port_handlers_pins[slot]
           off == Told(p) \cap OneShot
<1>1. /\ irq = "tell" /\ irq' = "pins" /\ slot' = slot + 1 /\ slot \in Slots /\ repeat
      /\ UNCHANGED <<port_handlers_pins, m_user_count, m_pins, registered, call, input, repeat>>
  BY DEF IrqTell, IInv, Pass
<1>2. /\ m_last_pins_state' = high /\ enabled' = enabled \ off /\ high' = high /\ Rises
      /\ sense' = [q \in Pins |-> IF q \in Quiet(p, off) /\ InUseByPort(q)
                                    THEN "NOSENSE" ELSE sense[q]]
  BY DEF IrqTell, gpiote_handler
<1>3. off \subseteq enabled /\ off \subseteq OneShot /\ enabled \subseteq Users
      /\ enabled \subseteq registered
  BY DEF Told, IInv, Types
<1>4. /\ sense' \in [Pins -> Senses] /\ event' \in BOOLEAN
      /\ \A q \in Pins : sense'[q] = sense[q] \/ (q \in Quiet(p, off) /\ sense'[q] = "NOSENSE")
  BY <1>2 DEF IInv, Types, Senses, Rises
<1>5. Types'
  <2>1. slot' \in 1 .. LowPowerEvents + 1
    BY <1>1, Masks DEF Slots
  <2> QED  BY <1>1, <1>2, <1>3, <1>4, <2>1 DEF IInv, Types, call
<1>6. Table'
  BY <1>1, <1>4 DEF IInv, Table, InUseByPort, call
<1>7. Loop'
  BY <1>1, <1>2 DEF IInv, Loop, InUseByPort, Wanted, call
<1>8. NeverDeaf'
  BY <1>1 DEF NeverDeaf
<1>9. Pass'
  <2>1. \A i \in Slots : Seen(i)' => Seen(i)
    BY <1>1 DEF Seen, Slots
  <2>2. \A q \in Pins : Matches(q, input, sense') => Matches(q, input, sense)
    BY <1>4 DEF Matches
  <2>3. \A i \in Slots : port_handlers_pins[i] # NotUsed => port_handlers_pins[i] \in Pins
    BY DEF IInv, Types, Ends
  <2> QED  BY <1>1, <2>1, <2>2, <2>3 DEF IInv, Pass, Matches
<1>10. ASSUME Unshared, Watched  PROVE Watched'
  <2>1. ASSUME NEW q \in Pins
        PROVE  /\ Wanted(q, enabled') => Wanted(q, enabled)
               /\ Wanted(q, enabled') => (sense'[q] = sense[q])
               /\ Wanted(q, enabled) /\ ~Wanted(q, enabled') => sense'[q] = "NOSENSE"
    <3>1. Wanted(q, enabled) <=> Wanted(q, off) \/ Wanted(q, enabled \ off)
      BY <1>3 DEF Wanted
    <3>2. q \in Quiet(p, off) <=> Wanted(q, off) /\ ~Wanted(q, enabled \ off)
      BY DEF Quiet
    <3>3. Wanted(q, enabled) => InUseByPort(q)
      BY <1>3 DEF Wanted, IInv, Table
    <3> QED  BY <1>2, <1>4, <3>1, <3>2, <3>3
  <2>2. ASSUME NEW q \in Pins, main = "enable", q \in PinsMask(user)
        PROVE  sense'[q] = sense[q]
    <3>1. user \in Users /\ user \notin enabled
      BY <2>2 DEF IInv, Loop
    <3>2. ~Wanted(q, off)
      BY <1>3, <1>10, <2>2, <3>1 DEF Wanted, Unshared
    <3> QED  BY <1>4, <3>2 DEF Quiet
  <2>3. ASSUME NEW q \in Pins
        PROVE  IF main = "enable" /\ q \in PinsMask(user) /\ q < pin THEN sense'[q] # "NOSENSE"
               ELSE IF main = "disable" /\ q \in PinsMask(user) /\ q >= pin
                      THEN Wanted(q, enabled') => sense'[q] # "NOSENSE"
               ELSE sense'[q] # "NOSENSE" <=> Wanted(q, enabled')
    <3>1. CASE main = "enable" /\ q \in PinsMask(user) /\ q < pin
      BY <1>10, <2>2, <3>1 DEF Watched, Sensed
    <3>2. CASE main = "disable" /\ q \in PinsMask(user) /\ q >= pin
      BY <1>10, <2>1, <3>2 DEF Watched, Sensed
    <3>3. CASE ~(main = "enable" /\ q \in PinsMask(user) /\ q < pin)
               /\ ~(main = "disable" /\ q \in PinsMask(user) /\ q >= pin)
      <4>1. sense[q] # "NOSENSE" <=> Wanted(q, enabled)
        BY <1>10, <3>3 DEF Watched, Sensed
      <4>2. sense'[q] # "NOSENSE" => sense'[q] = sense[q]
        BY <1>4
      <4> QED  BY <2>1, <3>3, <4>1, <4>2
    <3> QED  BY <3>1, <3>2, <3>3
  <2> QED  BY <1>1, <2>3 DEF Watched, Sensed, Wanted, call
<1> QED  BY <1>5, <1>6, <1>7, <1>8, <1>9, <1>10 DEF IInv

-----------------------------------------------------------------------------
LEMMA NextIInv ==
  ASSUME IInv, [Next]_vars
  PROVE  IInv' /\ (Unshared /\ Watched => Watched')
<1>1. CASE UNCHANGED vars
  <2>1. Types'
    BY <1>1 DEF vars, port, app, call, handler, IInv, Types
  <2>2. Table' /\ Loop' /\ (Watched => Watched')
    BY <1>1, StillWatched DEF vars, port
  <2>3. Pass' /\ NeverDeaf'
    BY <1>1 DEF vars, port, handler, IInv, Pass, Seen, NeverDeaf, Detect, Matches
  <2> QED  BY <2>1, <2>2, <2>3 DEF IInv
<1>2. CASE Main
  BY <1>2, RegisterIInv, BeginsIInv, LoopIInv, LoopDoneIInv DEF Main
<1>3. CASE GPIOTE_IRQHandler
  BY <1>3, IrqBeginsIInv, IrqPinIInv, IrqTellIInv, IrqPassedIInv DEF GPIOTE_IRQHandler
<1>4. CASE \E p \in Pins : PinChanges(p)
  BY <1>4, PinChangesIInv
<1> QED  BY <1>1, <1>2, <1>3, <1>4 DEF Next

(***************************************************************************)
(* The driver is never deaf: when GPIOTE_IRQHandler has returned, either   *)
(* no pin is at the level it is sensed for, so that the next edge of a     *)
(* watched pin raises DETECT, or an event is waiting.  The passes over the *)
(* table (nrf_drv_gpiote.c:719-790) are enough for any number of pins that *)
(* move at any time.                                                       *)
(***************************************************************************)
THEOREM DriverIsNeverDeaf == Spec => []NeverDeaf
<1>1. Init => IInv
  BY InitIInv
<1>2. IInv /\ [Next]_vars => IInv'
  BY NextIInv
<1>3. IInv => NeverDeaf
  BY DEF IInv
<1> QED  BY <1>1, <1>2, <1>3, PTL DEF Spec

(***************************************************************************)
(* When the one-shot users share no pin, a pin is sensed between the calls *)
(* of app_gpiote exactly when an enabled user wants it, whatever           *)
(* gpiote_handler has disabled between the steps of those calls.           *)
(***************************************************************************)
THEOREM PinsAreWatched ==
  ASSUME Unshared
  PROVE  Spec => []SensedWhenWanted
<1>1. Init => IInv /\ Watched
  BY InitIInv
<1>2. IInv /\ Watched /\ [Next]_vars => IInv' /\ Watched'
  BY NextIInv
<1>3. IInv /\ Watched => SensedWhenWanted
  BY DEF Watched, Sensed, SensedWhenWanted
<1> QED  BY <1>1, <1>2, <1>3, PTL DEF Spec
=============================================================================
