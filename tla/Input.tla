------------------------------- MODULE Input --------------------------------
(***************************************************************************)
(* The keyboard and mouse interrupts (kernel/hal/keyboard.c, mouse.c) and  *)
(* the input thread that takes what they leave to the USER message queues  *)
(* (InputWorker, ke_main.c).  The thread runs with interrupts enabled, so  *)
(* an interrupt may come between any two of its reads.                     *)
(***************************************************************************)
EXTENDS Integers, Sequences

CONSTANTS KBD_RING,           \* slots of the ring
          Scancodes,          \* bytes the keyboard sends
          MouseBytes,         \* bytes the mouse sends: [bit3, over, sx, sy, buttons, val]
          BYTE,               \* values of a byte (256)
          MaxX, MaxY,         \* mouse_max_x, mouse_max_y
          MaxTyped, MaxMoves  \* bounds: keyboard bytes, and changes of the mouse

InputAssumption ==
  /\ KBD_RING \in Nat \ {0, 1} /\ BYTE \in Nat
  /\ MaxX \in Nat /\ MaxY \in Nat /\ MaxTyped \in Nat /\ MaxMoves \in Nat
  /\ Scancodes \subseteq {"E0", "shift", "unshift", "caps", "letter", "digit", "keyup", "none"}
  /\ MouseBytes \subseteq [bit3 : BOOLEAN, over : BOOLEAN, sx : BOOLEAN, sy : BOOLEAN,
                           buttons : Nat, val : 0..(BYTE - 1)]

VARIABLES ring, kbd_head, kbd_tail,  \* kbd_ring
          shift, caps,        \* kbd_shift, kbd_caps
          typed,              \* number of keyboard bytes so far
          ext,                \* ghost: the last byte was 0xE0
          pending,            \* ghost: the characters pushed and not yet taken
          pkt,                \* the bytes of the packet under way
          mouse,              \* MouseState
          th,                 \* the input thread: [pc, c, last, unread, seen]
          user                \* [active, buttons]: g_user_active_hwnd, g_user_mouse_buttons;
                              \* ghosts: chars taken, posted, and the motion forwarded last

keyboard == <<ring, kbd_head, kbd_tail, shift, caps, typed, ext, pending>>
devices == <<keyboard, pkt, mouse, th, user>>

Fields == {"X", "Y", "Buttons"}
NoChar == ""

\* Boot: the cursor is seated by HalMouseSetBounds; no window is ever made active.
DeviceInit ==
  /\ ring = [i \in 0..(KBD_RING - 1) |-> NoChar] /\ kbd_head = 0 /\ kbd_tail = 0
  /\ shift = FALSE /\ caps = FALSE /\ typed = 0 /\ ext = FALSE /\ pending = <<>>
  /\ pkt = <<>>
  /\ mouse = [X |-> (MaxX + 1) \div 2, Y |-> (MaxY + 1) \div 2, Buttons |-> 0, Seq |-> 1]
  /\ th = [pc |-> "test", c |-> NoChar, last |-> -1, unread |-> {}, seen |-> mouse]
  /\ user = [active |-> 0, buttons |-> 0, chars |-> 0, posted |-> 0, motion |-> mouse]

(***************************************************************************)
(* The interrupts.                                                         *)
(***************************************************************************)

\* kbd_map and kbd_map_shift
Translate(code) ==
  CASE code = "letter" -> IF shift THEN "A" ELSE "a"
    [] code = "digit" -> IF shift THEN "!" ELSE "1"
    [] OTHER -> NoChar

\* Caps lock, as the two conditions have it.
WithCaps(c) ==
  IF caps /\ c = "a" THEN "A"
  ELSE IF caps /\ c = "A" /\ ~shift THEN "a" ELSE c

\* kbd_push: a character that finds the ring full is dropped.
kbd_push(c) ==
  IF (kbd_head + 1) % KBD_RING # kbd_tail
  THEN /\ ring' = [ring EXCEPT ![kbd_head] = c]
       /\ kbd_head' = (kbd_head + 1) % KBD_RING
       /\ pending' = Append(pending, c)
  ELSE UNCHANGED <<ring, kbd_head, pending>>

kbd_irq(code) ==
  /\ typed < MaxTyped /\ typed' = typed + 1
  /\ ext' = (code = "E0")
  /\ shift' = CASE code = "shift" -> TRUE [] code = "unshift" -> FALSE [] OTHER -> shift
  /\ caps' = (caps # (code = "caps"))
  /\ IF Translate(code) = NoChar THEN UNCHANGED <<ring, kbd_head, pending>>
     ELSE kbd_push(WithCaps(Translate(code)))
  /\ UNCHANGED <<kbd_tail, pkt, mouse, th, user>>

Clamp(v, max) == IF v < 0 THEN 0 ELSE IF v > max THEN max ELSE v

\* A packet of three bytes: nine-bit signed movements, Y upwards.
Moved(p) ==
  LET dx == p[2].val - (IF p[1].sx THEN BYTE ELSE 0)
      dy == p[3].val - (IF p[1].sy THEN BYTE ELSE 0)
  IN [X |-> Clamp(mouse.X + dx, MaxX), Y |-> Clamp(mouse.Y - dy, MaxY),
      Buttons |-> p[1].buttons, Seq |-> mouse.Seq + 1]

\* A first byte without bit 3 is skipped; a packet that overflowed is discarded.
mouse_irq(byte) ==
  /\ mouse.Seq <= MaxMoves
  /\ LET p == IF pkt = <<>> /\ ~byte.bit3 THEN <<>> ELSE Append(pkt, byte)
     IN /\ pkt' = IF Len(p) = 3 THEN <<>> ELSE p
        /\ mouse' = IF Len(p) = 3 /\ ~p[1].over THEN Moved(p) ELSE mouse
  /\ UNCHANGED <<keyboard, th, user>>

(***************************************************************************)
(* The input thread.                                                       *)
(***************************************************************************)
Goto(pc) == th' = [th EXCEPT !.pc = pc]

\* Faulty TestRing: a ring that has wrapped looks empty.
TestOrdered ==
  /\ th.pc = "test"
  /\ Goto(IF kbd_head > kbd_tail THEN "read" ELSE "seq")
  /\ UNCHANGED <<keyboard, pkt, mouse, user>>

\* KbdDataAvailable
TestRing ==
  /\ th.pc = "test"
  /\ Goto(IF kbd_head # kbd_tail THEN "read" ELSE "seq")
  /\ UNCHANGED <<keyboard, pkt, mouse, user>>

\* KbdReadChar, before and after the tail moves.
ReadSlot ==
  /\ th.pc = "read"
  /\ th' = [th EXCEPT !.pc = "advance", !.c = ring[kbd_tail]]
  /\ UNCHANGED <<keyboard, pkt, mouse, user>>

AdvanceTail ==
  /\ th.pc = "advance"
  /\ kbd_tail' = (kbd_tail + 1) % KBD_RING
  /\ pending' = Tail(pending)
  /\ Goto("forward")
  /\ UNCHANGED <<ring, kbd_head, shift, caps, typed, ext, pkt, mouse, user>>

\* KiUserQueueCharacter: without an active window the character goes nowhere.
KiUserQueueCharacter ==
  /\ th.pc = "forward"
  /\ user' = [user EXCEPT !.chars = @ + 1,
                          !.posted = IF user.active = 0 THEN @ ELSE @ + 1]
  /\ Goto("test")
  /\ UNCHANGED <<keyboard, pkt, mouse>>

\* The number is read, and remembered, before the fields.
ReadSeq ==
  /\ th.pc = "seq"
  /\ th' = IF mouse.Seq = th.last THEN [th EXCEPT !.pc = "test"]
           ELSE [th EXCEPT !.pc = "fields", !.last = mouse.Seq, !.unread = Fields]
  /\ UNCHANGED <<keyboard, pkt, mouse, user>>

\* The three fields are separate loads, in an order the compiler chooses.
ReadField(f) ==
  /\ th.pc = "fields" /\ f \in th.unread
  /\ th' = [th EXCEPT !.unread = @ \ {f}, !.seen[f] = mouse[f]]
  /\ UNCHANGED <<keyboard, pkt, mouse, user>>

\* Faulty KiUserQueueMouse: the number is remembered once the fields are forwarded.
QueueMouseThenSeq ==
  /\ th.pc = "fields" /\ th.unread = {}
  /\ user' = [user EXCEPT !.buttons = th.seen.Buttons, !.motion = th.seen,
                          !.posted = IF user.active = 0 THEN @ ELSE @ + 1]
  /\ th' = [th EXCEPT !.pc = "test", !.last = mouse.Seq]
  /\ UNCHANGED <<keyboard, pkt, mouse>>

\* KiUserQueueMouse, then KeYield.
KiUserQueueMouse ==
  /\ th.pc = "fields" /\ th.unread = {}
  /\ user' = [user EXCEPT !.buttons = th.seen.Buttons, !.motion = th.seen,
                          !.posted = IF user.active = 0 THEN @ ELSE @ + 1]
  /\ Goto("test")
  /\ UNCHANGED <<keyboard, pkt, mouse>>

InputWorker ==
  \/ TestRing \/ ReadSlot \/ AdvanceTail \/ KiUserQueueCharacter
  \/ ReadSeq \/ (\E f \in Fields : ReadField(f)) \/ KiUserQueueMouse

DeviceNext ==
  \/ \E code \in Scancodes : kbd_irq(code)
  \/ \E byte \in MouseBytes : mouse_irq(byte)
  \/ InputWorker

\* The input thread is always ready, and ready threads run (Dispatcher).
DeviceSpec == DeviceInit /\ [][DeviceNext]_devices /\ WF_devices(InputWorker)

(***************************************************************************)
(* Properties.                                                             *)
(***************************************************************************)
DeviceTypeOK ==
  /\ kbd_head \in DOMAIN ring /\ kbd_tail \in DOMAIN ring
  /\ mouse.X \in 0..MaxX /\ mouse.Y \in 0..MaxY
  /\ Len(pkt) < 3 /\ (pkt # <<>> => pkt[1].bit3)
  /\ th.unread \subseteq Fields

\* Whatever the interrupt pushes between two steps of the reader, the ring holds the
\* characters accepted and not yet taken, in order: none is lost, overwritten or
\* taken twice (kbd_push, KbdReadChar).
RingHolds ==
  /\ (kbd_head - kbd_tail) % KBD_RING = Len(pending)
  /\ \A k \in 1..Len(pending) : ring[(kbd_tail + k - 1) % KBD_RING] = pending[k]
  /\ th.pc = "advance" => pending # <<>> /\ th.c = Head(pending)

\* The thread's three loads may be torn by an interrupt, but then the number it
\* remembered is old: when it finds the number unchanged, the motion it forwarded
\* last is where the mouse is (InputWorker).
MotionSeen ==
  th.last = mouse.Seq /\ th.pc \in {"test", "read", "advance", "forward", "seq"} =>
    \A f \in Fields : user.motion[f] = mouse[f]

\* What the interrupts leave reaches the input thread whole (kbd_push, KbdReadChar,
\* mouse_irq, InputWorker).
InputKept == DeviceTypeOK /\ RingHolds /\ MotionSeen

\* Typed characters are taken, and the last motion is forwarded.
InputIsTaken ==
  /\ pending # <<>> ~> pending = <<>>
  /\ \A n \in 1..MaxMoves : mouse.Seq = n ~> th.last >= n

\* "0xE0 introduces an extended code; we ignore the follow-up byte for now."
ExtendedIgnored == [][ext /\ ~ext' => UNCHANGED <<shift, caps, kbd_head>>]_devices

\* "Caps lock affects letters only, and XORs with shift."
CapsXorShift ==
  [][\A c \in {"a", "A"} : pending' = Append(pending, c) => ((c = "A") <=> (caps # shift))]_devices

\* "The input thread bridges the hardware queues into the USER message queues":
\* every character it takes is posted.
CharactersPosted == th.pc = "test" => user.posted >= user.chars
=============================================================================
