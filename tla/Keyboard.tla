------------------------------ MODULE Keyboard ------------------------------
(***************************************************************************)
(* The kernel's keyboard driver (k-hardware.cc): keyboard_readc() decodes  *)
(* the controller's bytes one call at a time, and check_keyboard() acts on *)
(* the keys.  Of the keymap the model has keys of every kind: letters, a   *)
(* key with another character under shift, modifiers on the left and,      *)
(* after the byte 0xE0, on the right, and an arrow.                        *)
(***************************************************************************)
EXTENDS Integers, Sequences, FiniteSets, SequencesExt

CONSTANTS
  QUEUE_SIZE,  \* bytes the controller keeps
  MAX_EVENTS   \* bound on keys pressed and released

ASSUME KeyboardAssumption == {QUEUE_SIZE, MAX_EVENTS} \subseteq Nat

Keys == {"z", "f", "c", "2", "enter", "lshift", "rshift", "lctrl", "rctrl", "caps",
         "up", "printscreen"}
\* The byte of each key.  Extended keys send 0xE0 before it; printscreen then sends
\* the code of the left shift, and the arrow that of a key of the number pad.
E0 == 224
Extended == {"rctrl", "up", "printscreen"}
ScanCode ==
  [key \in Keys |->
     CASE key = "z" -> 44 [] key = "f" -> 33 [] key = "c" -> 46 [] key = "2" -> 3
       [] key = "enter" -> 28 [] key = "lshift" -> 42 [] key = "rshift" -> 54
       [] key = "lctrl" -> 29 [] key = "rctrl" -> 29 [] key = "caps" -> 58
       [] key = "up" -> 72 [] key = "printscreen" -> 42]

\* keymap[]
keymap(n) ==
  CASE n = 44 -> "z" [] n = 33 -> "f" [] n = 46 -> "c" [] n = 3 -> "2"
    [] n = 28 -> "enter" [] n = 72 -> "8" [] n = 200 -> "up"
    [] n \in {42, 54} -> "KEY_SHIFT" [] n \in {29, 157} -> "KEY_CONTROL"
    [] n = 58 -> "KEY_CAPSLOCK" [] OTHER -> "0"
Letters == {"z", "f", "c"}
Capital == [z |-> "Z", f |-> "F", c |-> "C"]
Control == [z |-> "^Z", f |-> "^F", c |-> "^C"]
\* complex_keymap[]: plain, with shift, with control, with both.
complex_keymap ==
  [k \in {"2", "enter"} |-> IF k = "2" THEN <<"2", "@", "0", "0">>
                            ELSE <<"n", "n", "r", "r">>]

VARIABLES
  modifiers,   \* keyboard_readc()'s static variables
  last_escape,
  queue,       \* bytes in the controller
  down,        \* keys held down
  caps,        \* caps lock, as the user means it
  want,        \* what each key press in the queue should give
  confused,    \* the driver cannot know what is held down
  events,      \* keys pressed and released so far
  given,       \* what the last call returned and what was wanted
  power        \* "on", "off"

keyVars == <<modifiers, last_escape, queue, down, caps, want, confused, events, given, power>>

KeyInit ==
  /\ modifiers = {} /\ last_escape = FALSE
  /\ queue = <<>> /\ down = {} /\ caps = FALSE
  /\ want = <<>> /\ confused = FALSE /\ events = 0
  /\ given = <<"0", "0">> /\ power = "on"

-----------------------------------------------------------------------------
(* The user and the controller.                                            *)

Shifts == {"lshift", "rshift"}
Controls == {"lctrl", "rctrl"}

\* What a key should give with these modifiers.
Meaning(key, shift, control, lock) ==
  CASE key \in Letters -> IF control THEN Control[key]
                          ELSE IF shift # lock THEN Capital[key] ELSE key
    [] key \in {"2", "enter"} ->
         complex_keymap[key][1 + (IF shift THEN 1 ELSE 0) + (IF control THEN 2 ELSE 0)]
    [] key = "up" -> "up"
    [] OTHER -> "0"

\* The controller sets the top bit of the byte when a key is released.
Bytes(key, up) == (IF key \in Extended THEN <<E0>> ELSE <<>>)
                  \o <<ScanCode[key] + IF up THEN 128 ELSE 0>>
Fits(key) == Len(queue) + (IF key \in Extended THEN 2 ELSE 1) <= QUEUE_SIZE

\* Both keys of a modifier together confuse the driver: it has one bit for both.
Press(key) ==
  /\ power = "on" /\ events < MAX_EVENTS /\ key \notin down /\ Fits(key)
  /\ events' = events + 1
  /\ queue' = queue \o Bytes(key, FALSE)
  /\ down' = down \cup {key}
  /\ caps' = IF key = "caps" THEN ~caps ELSE caps
  /\ want' = Append(want, Meaning(key, down \cap Shifts # {}, down \cap Controls # {}, caps))
  /\ confused' = (confused \/ Shifts \subseteq down' \/ Controls \subseteq down')
  /\ UNCHANGED <<modifiers, last_escape, given, power>>

Release(key) ==
  /\ power = "on" /\ key \in down /\ Fits(key)
  /\ queue' = queue \o Bytes(key, TRUE)
  /\ down' = down \ {key}
  /\ UNCHANGED <<modifiers, last_escape, caps, want, confused, events, given, power>>

-----------------------------------------------------------------------------
(* keyboard_readc() and check_keyboard().                                  *)

ModifierKeys == {"KEY_SHIFT", "KEY_CONTROL", "KEY_CAPSLOCK"}

\* The modifier bits mods after a press: set, or turned over for caps lock.
Pressed(mods, ch) ==
  IF ch = "KEY_CAPSLOCK" /\ ch \in mods THEN mods \ {ch}
  ELSE IF ch \in ModifierKeys THEN mods \cup {ch} ELSE mods

\* Mutant of Released: the release of caps lock turns it off.
ReleasedAny(mods, ch) == mods \ {ch}
Released(mods, ch) == IF ch \in {"KEY_SHIFT", "KEY_CONTROL"} THEN mods \ {ch} ELSE mods

Character(mods, ch) ==
  LET shift == "KEY_SHIFT" \in mods
      control == "KEY_CONTROL" \in mods
  IN CASE ch \in Letters -> IF control THEN Control[ch]
                            ELSE IF shift # ("KEY_CAPSLOCK" \in mods) THEN Capital[ch]
                            ELSE ch
       [] ch \in ModifierKeys -> "0"
       [] ch \in {"2", "enter"} ->
            complex_keymap[ch][1 + (IF shift THEN 1 ELSE 0) + (IF control THEN 2 ELSE 0)]
       [] ch = "8" -> IF control THEN "0" ELSE ch
       [] OTHER -> ch

\* check_keyboard(): "f" restarts the kernel, whose static variables are then
\* what they were at first; control-C turns the machine off.
Restarts(c) == c = "f"
PowersOff(c) == c = "^C"

\* Where in keymap[] the byte is looked up.
\* Mutant of Index: the byte before it is not looked at.
IndexPlain(escape, data) == data % 128
Index(escape, data) == (data % 128) + IF escape THEN 128 ELSE 0

\* A call that finds the byte 0xE0.
ReadEscape ==
  /\ power = "on" /\ queue # <<>> /\ Head(queue) = E0
  /\ queue' = Tail(queue) /\ last_escape' = TRUE
  /\ given' = <<"0", "0">>
  /\ UNCHANGED <<modifiers, down, caps, want, confused, events, power>>

\* A call that finds the byte of a key released.
ReadRelease ==
  /\ power = "on" /\ queue # <<>> /\ Head(queue) \in 128 .. E0 - 1
  /\ queue' = Tail(queue) /\ last_escape' = FALSE
  /\ modifiers' = Released(modifiers, keymap(Index(last_escape, Head(queue))))
  /\ given' = <<"0", "0">>
  /\ UNCHANGED <<down, caps, want, confused, events, power>>

\* A call that finds the byte of a key pressed.
ReadKey ==
  /\ power = "on" /\ queue # <<>> /\ Head(queue) < 128
  /\ queue' = Tail(queue) /\ last_escape' = FALSE
  /\ LET ch == keymap(Index(last_escape, Head(queue)))
         c == Character(modifiers, ch)
     IN /\ modifiers' = IF Restarts(c) THEN {} ELSE Pressed(modifiers, ch)
        /\ confused' = (confused \/ (Restarts(c) /\ modifiers # {}))
        /\ power' = IF PowersOff(c) THEN "off" ELSE "on"
        /\ given' = <<c, Head(want)>> /\ want' = Tail(want)
  /\ UNCHANGED <<down, caps, events>>

KeyNext == \/ \E key \in Keys : Press(key) \/ Release(key)
           \/ ReadEscape \/ ReadRelease \/ ReadKey

KeySpec == KeyInit /\ [][KeyNext]_keyVars

-----------------------------------------------------------------------------
(* Properties.                                                             *)

\* The decoder's two variables and the controller's queue keep their types.
KeyTypeOK ==
  /\ modifiers \subseteq ModifierKeys
  /\ last_escape \in BOOLEAN /\ Len(queue) <= QUEUE_SIZE
  /\ down \subseteq Keys /\ power \in {"on", "off"}

\* However late and in whatever pieces the bytes are read, a key gives the
\* character that the keys held down when it was pressed ask for.
KeysRight == confused \/ given[1] = given[2]

\* Once all bytes are read the driver knows which modifiers are held.
ModifiersRight ==
  (queue = <<>> /\ ~confused /\ power = "on") =>
    /\ ("KEY_SHIFT" \in modifiers) <=> (down \cap Shifts # {})
    /\ ("KEY_CONTROL" \in modifiers) <=> (down \cap Controls # {})
    /\ ("KEY_CAPSLOCK" \in modifiers) <=> caps

\* Each key gives its character, and the modifiers are those held down.
KeyboardRight == KeyTypeOK /\ KeysRight /\ ModifiersRight
=============================================================================
