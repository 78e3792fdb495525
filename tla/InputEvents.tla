---------------------------- MODULE InputEvents ----------------------------
(***************************************************************************)
(* From the host's keyboard and mouse to the game in the guest: the        *)
(* handlers of virtio-input.c turn what the window reports into groups of  *)
(* events that end in a SYN and put each event into a buffer of the guest, *)
(* or drop it when there is none; the game's check_for_events reads what   *)
(* the guest's kernel has let through, from two files in turn, and posts   *)
(* it, one event after the other, to a ring the game's loop empties.       *)
(*                                                                         *)
(* The handlers run between two Steps, so the guest sees a group at once.  *)
(* The guest's kernel is outside the repository: its driver takes a used   *)
(* buffer, gives it back to the device, drops a key event that changes     *)
(* nothing and a motion of 0, and shows the readers what it has at a SYN.  *)
(***************************************************************************)
EXTENDS Integers, Sequences

CONSTANTS
    Keys,           \* keys of the host that have a code
    Shift,          \* the one of them that is KEY_LEFTCTRL, or none of them
    ev_to_doom,     \* the game's key of each key it knows; several may share one
    Buffers,        \* the size of a device's event queue
    Batch,          \* the events one read returns at most
    MaxEvents,      \* MAXEVENTS, the size of the game's ring
    Motions,        \* what the host reports of one coordinate of the pointer
    MaxInputs       \* bound: inputs of the host

ASSUME InputAssumption ==
    /\ Buffers \in Nat \ {0} /\ Batch \in Nat \ {0, 1} /\ MaxInputs \in Nat
    /\ MaxEvents = 2 * Batch
    /\ Motions \subseteq Int
    /\ (Keys \cup {Shift}) \cap {272, 273, 274} = {}
    /\ DOMAIN ev_to_doom \subseteq Keys \ {Shift}

Devices == {"keyb", "mouse"}

VARIABLES
    relative_mode,
    virtio_queue_size,  \* the buffers a device holds
    used,               \* the events of the used ring, not yet taken
    packet, down,       \* the kernel: events before their SYN; the keys it has down
    evdev,              \* what a reader of /dev/input/event0 and 1 gets
    turn, left,         \* of the game: "keyb", "mouse" or "loop", and how many
                        \* events of the last read are left
    delta_x, delta_y, mouse_bits, old_mouse_bits, shiftdown,
    events, eventhead, eventtail,
    held, pressed, moved,       \* the host's keys, button, and its motion so far
    gameHeld, gamePressed, gameMoved,   \* the same, as the game has been told
    inputs, whole, dropped,     \* history: how many inputs, the keys whose last
                                \* group was not cut, and whether any was
    asked                       \* and the keys whose key of the game was pressed last
                                \* and not released, by whichever of its keys

queues == <<relative_mode, virtio_queue_size>>
kernel == <<packet, down, evdev>>
input == <<delta_x, delta_y, mouse_bits, old_mouse_bits, shiftdown>>
ring == <<events, eventhead, eventtail>>
game == <<turn, left, input, ring, gameHeld, gamePressed, gameMoved>>
host == <<held, pressed, moved, inputs, whole, dropped, asked>>
inputVars == <<queues, used, kernel, game, host>>

Ev(type, code, value) == [type |-> type, code |-> code, value |-> value]
X == 0
Y == 1
Btn == <<272, 274, 273>>        \* BTN_LEFT, BTN_MIDDLE, BTN_RIGHT
Left == Btn[1]
Syn == Ev("SYN", 0, 0)
NoEvent == Ev("none", 0, 0)

InputInit ==
    /\ relative_mode = FALSE
    /\ virtio_queue_size = [d \in Devices |-> Buffers]
    /\ used = [d \in Devices |-> <<>>] /\ packet = used /\ evdev = used
    /\ down = {} /\ turn = "loop" /\ left = 0
    /\ delta_x = 0 /\ delta_y = 0 /\ mouse_bits = 0 /\ old_mouse_bits = 0 /\ shiftdown = FALSE
    /\ events = [i \in 0 .. MaxEvents - 1 |-> NoEvent] /\ eventhead = 0 /\ eventtail = 0
    /\ held = {} /\ pressed = 0 /\ moved = 0
    /\ gameHeld = {} /\ gamePressed = 0 /\ gameMoved = 0
    /\ inputs = 0 /\ whole = Keys /\ dropped = FALSE /\ asked = {}

-----------------------------------------------------------------------------
(* The host.                                                               *)

MinOf(a, b) == IF a < b THEN a ELSE b
Fits(d, group) == Len(group) <= virtio_queue_size[d]

\* send_event for each of a group: an event without a buffer is dropped.
SendEvents(d, group) ==
    LET sent == MinOf(Len(group), virtio_queue_size[d])
    IN  /\ used' = [used EXCEPT ![d] = @ \o SubSeq(group, 1, sent)]
        /\ virtio_queue_size' = [virtio_queue_size EXCEPT ![d] = @ - sent]
        /\ dropped' = (dropped \/ ~Fits(d, group))

\* Bug: a release is sent and not reported.
KeyGroupDownOnly(k, bDown) ==
    IF bDown = 1 THEN <<Ev("KEY", k, 1), Syn>> ELSE <<Ev("KEY", k, 0)>>

KeyGroup(k, bDown) == <<Ev("KEY", k, bDown), Syn>>

\* A motion is relative to the middle of the window, where the pointer is put
\* back, or the place in the window; the first only if there is any.
MotionGroup(x, y) ==
    IF ~relative_mode THEN <<Ev("ABS", X, x), Ev("ABS", Y, y), Syn>>
    ELSE IF x # 0 \/ y # 0 THEN <<Ev("REL", X, x), Ev("REL", Y, y), Syn>>
    ELSE <<Syn>>

\* A button above the third has no code, and its SYN reports nothing.
ButtonGroup(button, bDown) ==
    IF button \in 1 .. 3 THEN <<Ev("KEY", Btn[button], bDown), Syn>> ELSE <<Syn>>

\* The keys that are one key to the game.
Shared(k) ==
    {k} \cup {j \in DOMAIN ev_to_doom : k \in DOMAIN ev_to_doom /\ ev_to_doom[j] = ev_to_doom[k]}

HostActs ==
    /\ inputs < MaxInputs
    /\ inputs' = inputs + 1
    /\ UNCHANGED <<kernel, game>>

HandleKey(k) ==
    /\ HostActs
    /\ LET bDown == IF k \in held THEN 0 ELSE 1
       IN  /\ SendEvents("keyb", KeyGroup(k, bDown))
           /\ held' = IF bDown = 1 THEN held \cup {k} ELSE held \ {k}
           /\ asked' = IF bDown = 1 THEN asked \cup Shared(k) ELSE asked \ Shared(k)
           /\ whole' = IF Fits("keyb", KeyGroup(k, bDown)) THEN whole \cup {k} ELSE whole \ {k}
    /\ UNCHANGED <<relative_mode, pressed, moved>>

\* The key the host keeps: down, it turns the mode over.
HandleScrollLock ==
    /\ HostActs
    /\ relative_mode' = ~relative_mode
    /\ UNCHANGED <<virtio_queue_size, used, held, pressed, moved, whole, dropped, asked>>

HandleMotion(x, y) ==
    /\ HostActs
    /\ SendEvents("mouse", MotionGroup(x, y))
    /\ moved' = IF relative_mode THEN moved + x ELSE moved
    /\ UNCHANGED <<relative_mode, held, pressed, whole, asked>>

HandleButton(button) ==
    /\ HostActs
    /\ SendEvents("mouse", ButtonGroup(button, 1 - pressed))
    /\ pressed' = IF button = 1 THEN 1 - pressed ELSE pressed
    /\ UNCHANGED <<relative_mode, held, moved, whole, asked>>

-----------------------------------------------------------------------------
(* The guest's kernel.                                                     *)

\* Does the kernel keep this event?
Counts(e) ==
    CASE e.type = "KEY" -> (e.value = 1) # (e.code \in down)
      [] e.type = "REL" -> e.value # 0
      [] OTHER -> TRUE

\* The driver takes a used buffer and gives it back (process_command).
TakeUsed(d) ==
    /\ used[d] # <<>>
    /\ LET e == Head(used[d])
           kept == IF Counts(e) THEN Append(packet[d], e) ELSE packet[d]
       IN  /\ used' = [used EXCEPT ![d] = Tail(@)]
           /\ down' = IF e.type # "KEY" THEN down
                      ELSE IF e.value = 1 THEN down \cup {e.code} ELSE down \ {e.code}
           /\ \/ /\ e # Syn
                 /\ packet' = [packet EXCEPT ![d] = kept] /\ evdev' = evdev
              \/ /\ e = Syn
                 /\ packet' = [packet EXCEPT ![d] = <<>>]
                 /\ evdev' = [evdev EXCEPT ![d] = IF kept = <<Syn>> THEN @ ELSE @ \o kept]
    /\ virtio_queue_size' = [virtio_queue_size EXCEPT ![d] = @ + 1]
    /\ UNCHANGED <<relative_mode, game, host>>

-----------------------------------------------------------------------------
(* The game.                                                               *)

\* D_PostEvent.  No test for a full ring, but one for mouse events.
DPostEvent(e) ==
    IF (eventhead - eventtail) % MaxEvents > MaxEvents \div 2 /\ e.type = "mouse"
    THEN UNCHANGED <<events, eventhead>>
    ELSE /\ events' = [events EXCEPT ![eventhead] = e]
         /\ eventhead' = (eventhead + 1) % MaxEvents

\* The cases of check_for_events.  The buttons but the first have none.
Button(e) ==
    /\ e.type = "KEY" /\ e.code = Left
    /\ mouse_bits' = e.value
    /\ UNCHANGED <<delta_x, delta_y, old_mouse_bits, shiftdown, events, eventhead>>

ShiftKey(e) ==
    /\ e.type = "KEY" /\ e.code = Shift
    /\ shiftdown' = (e.value > 0)
    /\ UNCHANGED <<delta_x, delta_y, mouse_bits, old_mouse_bits, events, eventhead>>

OtherKey(e) ==
    /\ e.type = "KEY" /\ e.code \in DOMAIN ev_to_doom
    /\ DPostEvent(Ev(IF e.value = 0 THEN "keyup" ELSE "keydown", ev_to_doom[e.code], e.value))
    /\ UNCHANGED input

Motion(e) ==
    /\ e.type = "REL"
    /\ delta_x' = IF e.code = X THEN e.value ELSE delta_x
    /\ delta_y' = IF e.code = Y THEN e.value ELSE delta_y
    /\ UNCHANGED <<mouse_bits, old_mouse_bits, shiftdown, events, eventhead>>

ToReport == delta_x # 0 \/ delta_y # 0 \/ mouse_bits # old_mouse_bits

\* Bug: what a report has told is told again with the next.
ReportKeeps(e) ==
    /\ e.type = "SYN"
    /\ IF ToReport
       THEN /\ DPostEvent(Ev("mouse", mouse_bits, delta_x))
            /\ old_mouse_bits' = mouse_bits
            /\ UNCHANGED <<delta_x, delta_y>>
       ELSE UNCHANGED <<delta_x, delta_y, old_mouse_bits, events, eventhead>>
    /\ UNCHANGED <<mouse_bits, shiftdown>>

\* At a SYN: motion and buttons go to the game together, if there are any.
Report(e) ==
    /\ e.type = "SYN"
    /\ IF ToReport
       THEN /\ DPostEvent(Ev("mouse", mouse_bits, delta_x))
            /\ delta_x' = 0 /\ delta_y' = 0 /\ old_mouse_bits' = mouse_bits
       ELSE UNCHANGED <<delta_x, delta_y, old_mouse_bits, events, eventhead>>
    /\ UNCHANGED <<mouse_bits, shiftdown>>

NoCase(e) ==
    /\ e.type = "ABS" \/ (e.type = "KEY" /\ e.code \notin DOMAIN ev_to_doom \cup {Shift, Left})
    /\ UNCHANGED <<input, events, eventhead>>

\* The read of check_for_events: at most Batch events, of the keyboard's file
\* and then of the mouse's.
Read(d) ==
    /\ left = 0
    /\ \/ d = "keyb" /\ turn = "loop" /\ eventtail = eventhead
       \/ d = "mouse" /\ turn = "keyb"
    /\ turn' = d
    /\ left' = MinOf(Batch, Len(evdev[d]))
    /\ UNCHANGED <<queues, used, kernel, input, ring, gameHeld, gamePressed, gameMoved, host>>

\* One turn of the loop of check_for_events.
CheckEvent(d) ==
    /\ turn = d /\ left > 0
    /\ left' = left - 1
    /\ LET e == Head(evdev[d])
       IN  Button(e) \/ ShiftKey(e) \/ OtherKey(e) \/ Motion(e) \/ Report(e) \/ NoCase(e)
    /\ evdev' = [evdev EXCEPT ![d] = Tail(@)]
    /\ UNCHANGED <<queues, used, packet, down, turn, eventtail, gameHeld, gamePressed, gameMoved, host>>

\* I_GetEvent is over, and the game looks at its ring.
EndOfReads ==
    /\ turn = "mouse" /\ left = 0
    /\ turn' = "loop"
    /\ UNCHANGED <<queues, used, kernel, left, input, ring, gameHeld, gamePressed, gameMoved, host>>

\* D_PopEvent, and what the game makes of the event.
DPopEvent ==
    /\ turn = "loop" /\ eventtail # eventhead
    /\ LET e == events[eventtail]
       IN  /\ gameHeld' = CASE e.type = "keydown" -> gameHeld \cup {e.code}
                            [] e.type = "keyup" -> gameHeld \ {e.code}
                            [] OTHER -> gameHeld
           /\ gamePressed' = IF e.type = "mouse" THEN e.code ELSE gamePressed
           /\ gameMoved' = IF e.type = "mouse" THEN gameMoved + e.value ELSE gameMoved
    /\ eventtail' = (eventtail + 1) % MaxEvents
    /\ UNCHANGED <<queues, used, kernel, turn, left, input, events, eventhead, host>>

-----------------------------------------------------------------------------
InputNext ==
    \/ \E k \in Keys : HandleKey(k)
    \/ HandleScrollLock
    \/ \E x, y \in Motions : HandleMotion(x, y)
    \/ \E b \in {1, 3, 4} : HandleButton(b)
    \/ \E d \in Devices : TakeUsed(d) \/ Read(d) \/ CheckEvent(d)
    \/ EndOfReads
    \/ DPopEvent

InputSpec == InputInit /\ [][InputNext]_inputVars

-----------------------------------------------------------------------------
\* What is on its way to the game, oldest first.
Posted == [i \in 1 .. (eventhead - eventtail) % MaxEvents |-> events[((eventtail + i) - 1) % MaxEvents]]
OnTheWay(d) == evdev[d] \o packet[d] \o used[d]

\* The sum of the values some events of a sequence have, and the value of the
\* last of them, or what holds without any; value is a function of these events.
SumOf(seq, value) ==
    LET sum[i \in 0 .. Len(seq)] ==
            IF i = 0 THEN 0
            ELSE sum[i - 1] + (IF seq[i] \in DOMAIN value THEN value[seq[i]] ELSE 0)
    IN  sum[Len(seq)]

LastIs(seq, value, otherwise, v) ==
    \/ /\ v = otherwise
       /\ \A i \in DOMAIN seq : seq[i] \notin DOMAIN value
    \/ \E i \in DOMAIN seq :
        /\ seq[i] \in DOMAIN value /\ v = value[seq[i]]
        /\ \A j \in i + 1 .. Len(seq) : seq[j] \notin DOMAIN value

KeyEvents(K) == [type : {"KEY"}, code : K, value : {0, 1}]
KeyPosts(k) == [type : {"keydown", "keyup"}, code : {ev_to_doom[j] : j \in {k} \cap DOMAIN ev_to_doom}, value : {0, 1}]
MouseEvents == [type : {"mouse"}, code : {0, 1}, value : Motions \cup {0}]
MotionEvents == [type : {"REL"}, code : {X}, value : Motions]

DownIn(k, set) == IF k \in set THEN 1 ELSE 0
KeyValue(k) == [e \in KeyEvents({k}) |-> e.value]
SharedValue(k) == [e \in KeyEvents(Shared(k)) \cup KeyPosts(k) |-> e.value]
MouseButton == [e \in MouseEvents |-> e.code]
MouseMotion == [e \in MouseEvents \cup MotionEvents |-> e.value]

\* What the game has been told of a key: of the key of the game it stands for.
Told(k) ==
    IF (k = Shift /\ shiftdown) \/ (k \in DOMAIN ev_to_doom /\ ev_to_doom[k] \in gameHeld) THEN 1 ELSE 0

\* The game comes to hold what the host holds: whatever was dropped before and
\* between, once the last press or release of each key that stands for one key
\* of the game got its buffers, what the game has been told last of it, or what is
\* under way and will be reported, is the state of one of these keys, and the
\* ring, which nothing tests for full, never loses it.  If nothing was dropped it
\* is the state of the key that was pressed or released last: the game counts no
\* presses, and one key released ends what another still holds.
KeysFollow ==
    \A k \in Keys \cap (DOMAIN ev_to_doom \cup {Shift}) :
        Shared(k) \subseteq whole =>
            LET comes(v) == LastIs(Posted \o OnTheWay("keyb"), SharedValue(k), Told(k), v)
                unreported == packet["keyb"] \o used["keyb"]
            IN  /\ \E j \in Shared(k) : comes(DownIn(j, held))
                /\ ~dropped => comes(DownIn(k, asked))
                /\ \A i \in DOMAIN unreported :
                    unreported[i] \in KeyEvents(Shared(k)) =>
                        \E j \in i + 1 .. Len(unreported) : unreported[j] = Syn

\* If the guest has kept up with its buffers, no motion and no click is lost or
\* told twice, although the reads cut groups in two, both files share the sums
\* and the ring throws mouse events away when it is half full.
MouseArrives ==
    ~dropped =>
        /\ moved = gameMoved + delta_x + SumOf(Posted, MouseMotion)
                   + SumOf(OnTheWay("mouse"), MouseMotion)
        /\ LastIs(OnTheWay("mouse"), KeyValue(Left), mouse_bits, pressed)
        /\ LastIs(Posted, MouseButton, gamePressed, old_mouse_bits)
=============================================================================
