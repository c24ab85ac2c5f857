------------------------------- MODULE Menus -------------------------------
(***************************************************************************)
(* The shell prism between its keyboard page and its screen: the main loop   *)
(* (main.c, ux/tui.c), the modifiers and listeners of kbd/kbd.c, the main     *)
(* menu (ux/menus/menu_main.c) and what it draws (gfx/text/text.c).          *)
(*                                                                         *)
(* What a keystroke goes through until kbd_update finds it is in Keyboard;    *)
(* here kbd_update finds any keystrokes, one step for each.  The shell draws   *)
(* texts that do not overlap on a screen large enough for them, so the screen *)
(* is what each text looks like: a text is written over wholly or not at all. *)
(***************************************************************************)
EXTENDS KeyTables, FiniteSets

CONSTANTS
    Others,        \* listeners besides the menu
    MaxListeners,  \* listeners that fit in their page
    MaxBuffered    \* bound: keystrokes kbd_update finds

MenusAssumption ==
    /\ IsFiniteSet(Others)
    /\ MaxListeners \in Nat \ {0} /\ MaxBuffered \in Nat \ {0}
    /\ {"menu", "null", "stray"} \cap Others = {}
ASSUME MenusAssumption

HID_KEYCODE_ENTER       == \h40
HID_KEYCODE_LEFT_SHIFT  == \h45
HID_KEYCODE_RIGHT_SHIFT == \h46
HID_KEYCODE_CAPSLOCK    == \h4B
HID_KEYCODE_NUMLOCK     == \h4D
HID_KEYCODE_UP          == \h54
HID_KEYCODE_LEFT        == \h55
HID_KEYCODE_DOWN        == \h56
HID_KEYCODE_RIGHT       == \h57

Shifts == {HID_KEYCODE_LEFT_SHIFT, HID_KEYCODE_RIGHT_SHIFT}
Released(k) == k + \h80
(* Every other key, and the release of every key but shift, is like a Q. *)
Keys == {\h0E, HID_KEYCODE_ENTER, HID_KEYCODE_CAPSLOCK, HID_KEYCODE_NUMLOCK,
         HID_KEYCODE_UP, HID_KEYCODE_LEFT, HID_KEYCODE_DOWN, HID_KEYCODE_RIGHT}
        \cup Shifts \cup {Released(k) : k \in Shifts}

Options == 1 .. 4
NULL    == 0
Pong    == 5           \* the text of __menu_option_ping
Texts   == Options \cup {Pong}

VARIABLES
    shift, caps, nums,         \* _kb_shift, _kb_caps, _kb_nums
    listener_page,             \* their page, and the entry behind it
    listeners_count,
    selected_option,
    needs_update,              \* _menu_needs_update
    pong,
    screen_ready,
    screen,                    \* what each text looks like
    tui_on,                    \* _tui_on, with kbd.c started and the menu set
    stage,                     \* "start", "update", "keys" or "ended"
    left,                      \* buffered_keys - i
    down,                      \* ghost: the shift keys that are held
    both,                      \* ghost: the two of them were held at once
    added                      \* ghost: the other listeners that are wanted

modifiers  == <<shift, caps, nums, down, both>>
listening  == <<listener_page, listeners_count, added>>
menu       == <<selected_option, needs_update, pong, screen>>
shell_vars == <<modifiers, listening, menu, screen_ready, tui_on, stage, left>>

-----------------------------------------------------------------------------
(* The screen.  Nothing is drawn before fb_req gave a frame buffer.          *)
Blank == [t \in Texts |-> "blank"]
text_render_clear(s, ready) == IF ready THEN Blank ELSE s
menu_render_string_at(s, ready, text, look) ==
    IF ready THEN [s EXCEPT ![text] = look] ELSE s

highlight_option(s, ready, option) == menu_render_string_at(s, ready, option, "highlit")
unhighlight_option(s, ready, option) == menu_render_string_at(s, ready, option, "plain")

(* Mutant: the option that was selected keeps its highlight. *)
select_without_unhighlight(m, ready, option) ==
    IF option = NULL THEN m
    ELSE [selected |-> option, screen |-> highlight_option(m.screen, ready, option)]

(* The menu m = [selected, screen] once an option was selected. *)
_menu_main_select_option(m, ready, option) ==
    IF option = NULL THEN m
    ELSE [selected |-> option,
          screen |-> highlight_option(unhighlight_option(m.screen, ready, m.selected), ready, option)]

_menu_main_draw(m, ready) ==
    LET cleared == text_render_clear(m.screen, ready)
        drawn   == IF ready THEN [t \in Texts |-> IF t \in Options THEN "plain" ELSE cleared[t]]
                   ELSE cleared
    IN  _menu_main_select_option([selected |-> m.selected, screen |-> drawn], ready, m.selected)

-----------------------------------------------------------------------------
(* The options: 1 Clear, 2 Ping, 3 Continue, 4 Option 4. *)
up    == <<2, 1, 4, 3>>
down_ == <<2, 1, 4, 3>>
left_ == <<NULL, NULL, 1, 1>>
right == <<3, NULL, NULL, NULL>>

Menu == [selected |-> selected_option, screen |-> screen]
Shows(m) == selected_option' = m.selected /\ screen' = m.screen
select(option) ==
    /\ Shows(_menu_main_select_option(Menu, screen_ready, option))
    /\ UNCHANGED <<needs_update, pong>>

(* Mutant: what was cleared is not drawn again. *)
__menu_option_clear_only ==
    /\ screen' = text_render_clear(screen, screen_ready)
    /\ UNCHANGED <<selected_option, needs_update, pong>>

__menu_option_clear ==
    /\ screen' = text_render_clear(screen, screen_ready)
    /\ needs_update' = TRUE
    /\ UNCHANGED <<selected_option, pong>>

__menu_option_ping ==
    /\ screen' = menu_render_string_at(screen, screen_ready, Pong, IF pong THEN "Pong!" ELSE "Pong?")
    /\ pong' = ~pong
    /\ UNCHANGED <<selected_option, needs_update>>

perform ==
    \/ selected_option = 1 /\ __menu_option_clear
    \/ selected_option = 2 /\ __menu_option_ping
    \/ selected_option \in {3, 4} /\ UNCHANGED menu

menu_main_handle_key(keycode) ==
    \/ keycode = HID_KEYCODE_UP    /\ select(up[selected_option])
    \/ keycode = HID_KEYCODE_DOWN  /\ select(down_[selected_option])
    \/ keycode = HID_KEYCODE_LEFT  /\ select(left_[selected_option])
    \/ keycode = HID_KEYCODE_RIGHT /\ select(right[selected_option])
    \/ keycode = HID_KEYCODE_ENTER /\ perform
    \/ keycode \notin {HID_KEYCODE_ENTER} \cup (HID_KEYCODE_UP .. HID_KEYCODE_RIGHT) /\ UNCHANGED menu

-----------------------------------------------------------------------------
(* kbd.c: the listeners are entries 0 .. listeners_count - 1. *)
Entry == {"menu", "null"} \cup Others

kbd_add_listener(l) ==
    /\ listeners_count < MaxListeners
    /\ listener_page' = [listener_page EXCEPT ![listeners_count] = l]
    /\ listeners_count' = listeners_count + 1

IndicesOf(l) == {i \in 0 .. listeners_count - 1 : listener_page[i] = l}
FirstOf(S) == CHOOSE i \in S : \A j \in S : i <= j

(* Index 0 stands for not found. *)
TargetIndex(l) == IF IndicesOf(l) = {} THEN 0 ELSE FirstOf(IndicesOf(l))

(* Mutant: the entries behind the target are not shifted. *)
Without(target) ==
    [[listener_page EXCEPT ![target] = "null"] EXCEPT ![listeners_count] = "null"]

(* The shift takes one entry more than there are, which the last assignment   *)
(* clears: behind the end of the page, if that is full.                     *)
Shift(target) ==
    [i \in 0 .. MaxListeners |->
        IF i = listeners_count THEN "null"
        ELSE IF i >= target /\ i < listeners_count THEN listener_page[i + 1]
        ELSE listener_page[i]]

kbd_remove_listener(l) ==
    LET target == TargetIndex(l)
    IN  IF target = 0 THEN UNCHANGED <<listener_page, listeners_count>>
        ELSE /\ listener_page' = Shift(target)
             /\ listeners_count' = listeners_count - 1

-----------------------------------------------------------------------------
(* Mutant: the right shift key is only ever pressed. *)
tracks_left_release(keycode) ==
    /\ caps' = IF keycode = HID_KEYCODE_CAPSLOCK THEN ~caps ELSE caps
    /\ nums' = IF keycode = HID_KEYCODE_NUMLOCK THEN ~nums ELSE nums
    /\ shift' = CASE keycode \in Shifts -> TRUE
                  [] keycode = Released(HID_KEYCODE_LEFT_SHIFT) -> FALSE
                  [] OTHER -> shift

tracks(keycode) ==
    /\ caps' = IF keycode = HID_KEYCODE_CAPSLOCK THEN ~caps ELSE caps
    /\ nums' = IF keycode = HID_KEYCODE_NUMLOCK THEN ~nums ELSE nums
    /\ shift' = CASE keycode \in Shifts -> TRUE
                  [] keycode \in {Released(k) : k \in Shifts} -> FALSE
                  [] OTHER -> shift

(* What the fingers do: a shift key that is held repeats, and one that is      *)
(* not held is not released.                                               *)
Held(keycode) ==
    /\ \A k \in Shifts : keycode = Released(k) => k \in down
    /\ down' = {k \in Shifts : k = keycode \/ (k \in down /\ keycode # Released(k))}
    /\ both' = (both \/ down' = Shifts)

(* The listeners run one after the other; the other ones change nothing here. *)
kbd_update_key ==
    /\ stage = "keys" /\ left > 0
    /\ \E keycode \in Keys :
        /\ Held(keycode)
        /\ tracks(keycode)
        /\ IF IndicesOf("menu") # {} THEN menu_main_handle_key(keycode) ELSE UNCHANGED menu
    /\ left' = left - 1
    /\ UNCHANGED <<listening, screen_ready, tui_on, stage>>

kbd_update_begins ==
    /\ stage = "update" /\ tui_on
    /\ stage' = "keys"
    /\ \E n \in 0 .. MaxBuffered : left' = n
    /\ UNCHANGED <<modifiers, listening, menu, screen_ready, tui_on>>

(* menu_main_update, at the end of every tui_update. *)
tui_graphic_update ==
    /\ stage = "keys" /\ left = 0
    /\ stage' = "update"
    /\ Shows(IF needs_update THEN _menu_main_draw(Menu, screen_ready) ELSE Menu)
    /\ needs_update' = FALSE
    /\ UNCHANGED <<modifiers, listening, pong, screen_ready, tui_on, left>>

(* kbd_init may fail, and the shell ends; fb_req may fail, and it goes on in    *)
(* the dark.  The option is selected before the menu is drawn.               *)
tui_start ==
    /\ stage = "start" /\ stage' = "update"
    /\ \/ /\ tui_on' = FALSE
          /\ UNCHANGED <<listener_page, listeners_count, menu, screen_ready>>
       \/ /\ tui_on' = TRUE
          /\ kbd_add_listener("menu")
          /\ \E ready \in BOOLEAN :
              /\ screen_ready' = ready
              /\ LET first == [selected |-> 1, screen |-> text_render_clear(screen, ready)]
                 IN  Shows(_menu_main_draw(_menu_main_select_option(first, ready, 1), ready))
          /\ needs_update' = FALSE
          /\ UNCHANGED pong
    /\ UNCHANGED <<modifiers, added, left>>

(* tui_update returns false: tui_cleanup_exit, and the program ends. *)
main_ends ==
    /\ stage = "update" /\ ~tui_on
    /\ stage' = "ended" /\ screen_ready' = FALSE
    /\ UNCHANGED <<modifiers, listening, menu, tui_on, left>>

(* The rest of kbd.h, which nothing in the shell calls yet. *)
FirstIn(s, l) == CHOOSE i \in DOMAIN s : s[i] = l /\ \A j \in 1 .. i - 1 : s[j] # l
Dropped(s, l) ==
    IF \E i \in DOMAIN s : s[i] = l
    THEN SubSeq(s, 1, FirstIn(s, l) - 1) \o SubSeq(s, FirstIn(s, l) + 1, Len(s))
    ELSE s

listener_comes_or_goes ==
    /\ stage = "update" /\ tui_on
    /\ \E l \in Others :
        \/ kbd_add_listener(l) /\ added' = Append(added, l)
        \/ kbd_remove_listener(l) /\ added' = Dropped(added, l)
    /\ UNCHANGED <<modifiers, menu, screen_ready, tui_on, stage, left>>

ShellInit ==
    /\ shift = FALSE /\ caps = FALSE /\ nums = FALSE
    /\ \E behind \in {"null", "stray"} :
         listener_page = [i \in 0 .. MaxListeners |-> IF i < MaxListeners THEN "null" ELSE behind]
    /\ listeners_count = 0
    /\ selected_option = NULL /\ needs_update = TRUE /\ pong = FALSE
    /\ screen_ready = FALSE /\ screen = Blank
    /\ tui_on = FALSE /\ stage = "start" /\ left = 0
    /\ down = {} /\ both = FALSE /\ added = <<>>

tui_update == kbd_update_begins \/ kbd_update_key \/ tui_graphic_update
ShellNext == tui_start \/ tui_update \/ main_ends \/ listener_comes_or_goes

(* The shell never waits: its processor is its own but for the interrupts. *)
ShellSpec ==
    /\ ShellInit /\ [][ShellNext]_shell_vars
    /\ WF_shell_vars(tui_start) /\ WF_shell_vars(tui_update)

-----------------------------------------------------------------------------
(* Every variable has its type: there are never more listeners than fit in    *)
(* their page.                                                             *)
ShellTypeOK ==
    /\ {shift, caps, nums, needs_update, pong, screen_ready, tui_on, both} \subseteq BOOLEAN
    /\ listener_page \in [0 .. MaxListeners -> {"menu", "null", "stray"} \cup Others]
    /\ listeners_count \in 0 .. MaxListeners
    /\ selected_option \in Options \cup {NULL}
    /\ screen \in [Texts -> {"blank", "plain", "highlit", "Pong?", "Pong!"}]
    /\ stage \in {"start", "update", "keys", "ended"}
    /\ left \in 0 .. MaxBuffered
    /\ down \subseteq Shifts
    /\ added \in Seq(Others)

(* _menu_needs_update is all that says whether the screen still shows the     *)
(* menu, and keys are handled while it does not: whenever it is not set, the  *)
(* screen has all options, with the selected one highlighted and no other.   *)
ShowsSelection ==
    screen_ready /\ tui_on /\ ~needs_update =>
        \A o \in Options :
            screen[o] = IF o = selected_option THEN "highlit" ELSE "plain"

(* The option Clear leaves a screen without options, on which the arrow keys   *)
(* highlight some: the main loop draws the menu again, whatever keys follow.  *)
ClearedIsDrawnAgain ==
    (screen_ready /\ \E o \in Options : screen[o] = "blank")
        ~> (\A o \in Options : screen[o] # "blank")

(* kbd_remove_listener closes the gap it makes, in a page that may be full:    *)
(* those that are called on a key are the menu and the listeners added and     *)
(* not removed since, in the order they were added.                         *)
CalledInOrder ==
    tui_on => [i \in 1 .. listeners_count |-> listener_page[i - 1]] = <<"menu">> \o added

(* As long as no one held both shift keys, what kbd_char_decode makes of a     *)
(* key is what the keyboard says: a letter is upper case if exactly one of a  *)
(* held shift and caps lock applies, and num lock makes characters of the     *)
(* keypad, and of nothing else but enter.                                   *)
DecodesAsTyped ==
    ~both =>
        LET decode(k) == kbd_char_decode(shift, caps, nums, k)
        IN  /\ \A k \in LetterKeys :
                 decode(k) \in Characters(IF (down # {}) # caps THEN Upper ELSE Lower)
            /\ \A k \in PadKeys : (decode(k) # NoChar) = nums
            /\ \A k \in (1 .. \h42) \ PadKeys :
                 decode(k) = kbd_char_decode(down # {}, caps, FALSE, Released(k))

(* kbd.h:13: kbd_char_decode tracks and accounts for shift by itself, so what  *)
(* it decodes with is whether a shift key is held.                          *)
ShiftIsTracked == shift = (down # {})
=============================================================================
