----------------------------- MODULE MenuSystem -----------------------------
(***************************************************************************)
(* The menu (Menu.cpp, MenuEntry.cpp), the list of event handlers          *)
(* (evt_handler.cpp) it pushes and pops as applications are entered and    *)
(* left, and what the applications (rf_test.cpp, rf_debug.cpp) and ui.cpp  *)
(* do with a key. All of it runs in the main loop: a key taken from the    *)
(* event queue is offered to one handler per step.                         *)
(***************************************************************************)
EXTENDS Integers, Sequences

CONSTANTS
  Menus, Root,        \* the MenuEntry arrays, and the one the Menu is built on
  Entries,            \* menu -> its entries, without the terminating NULL
  Ui, Apps,           \* the handlers: ui_event_notify and the applications'
  RegDump,            \* the applications that act as rf_debug_notify does
  Drops,              \* dropdown -> [type, min, max]
  Value,              \* what a dropdown's variable may hold before it is opened
  MAX_HANDLERS, MAX_MENU_DEPTH,
  Visible,            \* line_end - line_start + 1
  Depth, AppDepth,    \* bounds on the levels, and applications, above a menu
  None                \* NULL

Entry == [type : {"BRANCH", "EVT_HDL"}, next : Menus, cb : Apps \cup {None}]
           \cup [type : {"EXEC"}, exec : {"returns", "shutdown", "bootloader"}]
           \cup [type : {"DROPDOWN"}, drop : DOMAIN Drops]
           \cup [type : {"DUMMY"}]
SubMenu(e) == e.type \in {"BRANCH", "EVT_HDL"}

\* On a single line the icon of the entries below would hide that of those above.
ASSUME SizesAssumption ==
  /\ MAX_HANDLERS \in 1 .. 255
  /\ MAX_MENU_DEPTH \in 1 .. 255
  /\ Visible \in 2 .. 8
ASSUME MenusAssumption ==
  /\ Root \in Menus
  /\ Entries \in [Menus -> Seq(Entry)]
  /\ \A m \in Menus : Len(Entries[m]) <= 128      \* flag.selected has 7 bits
ASSUME DropsAssumption ==
  /\ Value \subseteq Nat
  /\ Drops \in [DOMAIN Drops -> {d \in [type : {"ENUM", "NUM"}, min : Nat, max : Nat] : d.min <= d.max}]
ASSUME HandlersAssumption ==
  /\ RegDump \subseteq Apps
  /\ Ui \notin Apps /\ None \notin Apps \cup {Ui}
\* Nothing in the code stops a push at MAX_MENU_DEPTH, and addhandler fails
\* silently: the menu tree must be shallow enough.
ASSUME TreeAssumption ==
  /\ Depth \in [Menus -> 0 .. MAX_MENU_DEPTH - 1]
  /\ AppDepth \in [Menus -> 0 .. MAX_HANDLERS - 1]
  /\ \A m \in Menus : \A i \in 1 .. Len(Entries[m]) :
       LET e == Entries[m][i] IN
       /\ SubMenu(e) => Depth[e.next] > Depth[m]
       /\ e.type = "BRANCH" => AppDepth[e.next] >= AppDepth[m]
       /\ e.type = "EVT_HDL" => e.cb \in Apps /\ AppDepth[e.next] > AppDepth[m]
\* The menu of a register dump is empty (rf_debug.cpp:103), and a dropdown, which
\* is a MenuEntry itself, is in one place of a menu.
ASSUME ContentsAssumption ==
  \A m \in Menus : \A i \in 1 .. Len(Entries[m]) :
    LET e == Entries[m][i] IN
    /\ e.type = "EVT_HDL" /\ e.cb \in RegDump => Len(Entries[e.next]) = 0
    /\ e.type = "DROPDOWN" => \A j \in 1 .. Len(Entries[m]) :
         Entries[m][j].type = "DROPDOWN" /\ Entries[m][j].drop = e.drop => j = i

VARIABLES
  pool, head,              \* evt_handler.cpp; node i is pool[i - 1], 0 is NULL
  stack, stack_idx,        \* class Menu; cur is always &stack[stack_idx]
  visible_lines,
  drop,                    \* dropdown -> is it open, and its value
  reg_addr,                \* rf_debug.cpp
  screen,                  \* lines line_start .. line_end of the display
  tmp, key,                \* evt_handler_dispatch: next handler to call, and the key
  power,                   \* pshold, and whether the program still runs
  started                  \* history: applications told to start, not yet to stop

handlers == <<pool, head>>
levels == <<stack, stack_idx>>
vars == <<handlers, levels, visible_lines, drop, reg_addr, screen, tmp, key, power, started>>

Key == {"UP", "DOWN", "LEFT", "RIGHT", "SELECT"}
Node == 1 .. MAX_HANDLERS
Line == 1 .. Visible
Level == 0 .. MAX_MENU_DEPTH - 1
Frame == [menu : Menus \cup {None}, num_entries : 0 .. 128, selected : 0 .. 127,
          evt_hdl_set : BOOLEAN]
Launch == [cb : Apps \cup {Ui, None}, at : Level]   \* an APP_START: to whom, at which level
Size(m) == Len(Entries[m])
Row(t, h, i) == [text |-> t, inverse |-> h, icon |-> i]
Empty == Row(<<>>, FALSE, "")
-----------------------------------------------------------------------------
\* evt_handler.cpp: the pool of nodes and the list made of them.

get_node(p) == IF \E i \in Node : p[i].cb = None
               THEN CHOOSE i \in Node : p[i].cb = None /\ \A j \in 1 .. i - 1 : p[j].cb # None
               ELSE 0

evt_handler_addhandler(cb) ==
  LET n == get_node(pool) IN
  IF n = 0 THEN UNCHANGED handlers
           ELSE /\ pool' = [pool EXCEPT ![n] = [cb |-> cb, next |-> head]]
                /\ head' = n

\* slip: the node goes back to the pool but stays on the list
PopKeepsNode ==
  IF head = 0 THEN UNCHANGED handlers
              ELSE /\ pool' = [pool EXCEPT ![head].cb = None]
                   /\ UNCHANGED head

evt_handler_pophandler ==
  IF head = 0 THEN UNCHANGED handlers
              ELSE /\ pool' = [pool EXCEPT ![head].cb = None]
                   /\ head' = pool[head].next
-----------------------------------------------------------------------------
\* MenuEntry.cpp: the operations on a dropdown's value.

\* slip: the value is shown as it is found
InitializeNoCheck(d, v) == v

initialize(d, v) ==
  IF v > Drops[d].max \/ (Drops[d].type = "NUM" /\ v < Drops[d].min)
  THEN Drops[d].min ELSE v

increment(d, v) == IF v >= Drops[d].max THEN v ELSE v + 1

decrement(d, v) ==
  IF \/ Drops[d].type = "ENUM" /\ v = 0
     \/ Drops[d].type = "NUM" /\ (v <= Drops[d].min \/ v >= Drops[d].max)
  THEN v ELSE v - 1
-----------------------------------------------------------------------------
\* Menu.cpp.

Cur == stack[stack_idx]
EntryOf(f) == IF f.selected < Size(f.menu) THEN Entries[f.menu][f.selected + 1]
                                                   ELSE [type |-> "DUMMY"]
Open == EntryOf(Cur).type = "DROPDOWN" /\ drop[EntryOf(Cur).drop].open

\* slip: no floor below the first entry
SelectAboveNoFloor(f) == f.selected - 1

SelectAbove(f) == IF f.selected > 0 THEN f.selected - 1 ELSE 0
SelectBelow(f) == IF f.selected >= f.num_entries - 1 THEN f.selected ELSE f.selected + 1

\* slip: one line too late
TopOffByOne(selected, lines) == IF selected > lines THEN selected - lines ELSE 0

\* Top visible element, for a selection and a number of lines.
Top(selected, lines) == IF selected > lines - 1 THEN selected - lines + 1 ELSE 0

DrawVisible(f, lines, drp, old) ==
  LET top == Top(f.selected, lines)
      below == f.num_entries >= lines /\ top + lines < f.num_entries
      entry(i) == EntryOf([f EXCEPT !.selected = top + i])
      inverse(i) == \/ top + i = f.selected
                    \/ entry(i).type = "DROPDOWN" /\ drp[entry(i).drop].open
      row(l) == IF l > lines THEN old[l]
                ELSE IF l > f.num_entries THEN Empty
                ELSE Row(<<f.menu, top + l>>, inverse(l - 1), "")
  IN [l \in Line |-> IF l = Visible /\ below THEN [row(l) EXCEPT !.icon = "DOWN"]
                     ELSE IF l = 1 /\ top > 0 THEN [row(l) EXCEPT !.icon = "UP"]
                     ELSE row(l)]

\* The closing DrawMenu of every key, on the menu state the key leaves.
DrawMenu(stk, idx, lines, drp, scr) ==
  LET n == stk[idx].num_entries
      f == [stk[idx] EXCEPT !.num_entries = IF n = 0 THEN Size(stk[idx].menu) ELSE n]
  IN /\ stack' = [stk EXCEPT ![idx] = f]
     /\ stack_idx' = idx
     /\ visible_lines' = lines
     /\ drop' = drp
     /\ screen' = DrawVisible(f, lines, drp, scr)

\* evt_handler_syncevent(EVENT_APP_START / EVENT_APP_STOP): the first handler
\* of the list consumes both, whichever it is; the menu's lines and the screen
\* change only for rf_debug_notify.
Dump(a) == [l \in Line |-> Row(<<"reg", a + 6 * (l - 1)>>, FALSE, "")]
\* slip: APP_STOP forgets to give the menu its lines back
LinesAfterNoEnable(cb, on) == IF cb \in RegDump THEN 0 ELSE visible_lines

\* slip: APP_START does not take the lines from the menu
LinesAfterNoDisable(cb, on) == IF cb \in RegDump THEN Visible ELSE visible_lines

LinesAfter(cb, on) == IF cb \in RegDump THEN (IF on THEN 0 ELSE Visible) ELSE visible_lines
ScreenAfter(cb, on) == IF on /\ cb \in RegDump THEN Dump(0) ELSE screen
Start(cb) ==
  /\ started' = Append(started, [cb |-> cb, at |-> stack_idx])
  /\ reg_addr' = IF cb \in RegDump THEN 0 ELSE reg_addr
Stop(cb) ==
  started' = IF started # <<>> /\ started[Len(started)].cb = cb
             THEN SubSeq(started, 1, Len(started) - 1) ELSE started

\* slip: APP_STOP sent after the pop
StopTargetAfterPop == pool[pool[head].next].cb

\* The handler a leaving menu's APP_STOP goes to: it is sent before the pop.
StopTarget == pool[head].cb

KeyUp ==
  /\ key = "UP"
  /\ IF Open
     THEN LET d == EntryOf(Cur).drop IN
          DrawMenu(stack, stack_idx, visible_lines,
                   [drop EXCEPT ![d].value = increment(d, @)], screen)
     ELSE DrawMenu([stack EXCEPT ![stack_idx].selected = SelectAbove(Cur)],
                   stack_idx, visible_lines, drop, screen)
  /\ UNCHANGED <<handlers, reg_addr, power, started>>

KeyDown ==
  /\ key = "DOWN"
  /\ IF Open
     THEN LET d == EntryOf(Cur).drop IN
          DrawMenu(stack, stack_idx, visible_lines,
                   [drop EXCEPT ![d].value = decrement(d, @)], screen)
     ELSE DrawMenu([stack EXCEPT ![stack_idx].selected = SelectBelow(Cur)],
                   stack_idx, visible_lines, drop, screen)
  /\ UNCHANGED <<handlers, reg_addr, power, started>>

CloseDropdown ==
  /\ key = "LEFT"
  /\ Open
  /\ DrawMenu(stack, stack_idx, visible_lines,
              [drop EXCEPT ![EntryOf(Cur).drop].open = FALSE], screen)
  /\ UNCHANGED <<handlers, reg_addr, power, started>>

LeaveMenu ==
  /\ key = "LEFT"
  /\ ~ Open
  /\ IF stack_idx = 0
     THEN /\ DrawMenu(stack, stack_idx, visible_lines, drop, screen)
          /\ UNCHANGED <<handlers, started>>
     ELSE IF ~ stack[stack_idx - 1].evt_hdl_set
     THEN /\ DrawMenu(stack, stack_idx - 1, visible_lines, drop, screen)
          /\ UNCHANGED <<handlers, started>>
     ELSE LET cb == StopTarget IN
          /\ Stop(cb)
          /\ evt_handler_pophandler
          /\ DrawMenu([stack EXCEPT ![stack_idx - 1].evt_hdl_set = FALSE], stack_idx - 1,
                      LinesAfter(cb, FALSE), drop, screen)
  /\ UNCHANGED <<reg_addr, power>>

OpenDropdown ==
  /\ key = "RIGHT"
  /\ EntryOf(Cur).type = "DROPDOWN"
  /\ ~ Open
  /\ LET d == EntryOf(Cur).drop IN
     DrawMenu(stack, stack_idx, visible_lines,
              [drop EXCEPT ![d] = [open |-> TRUE, value |-> initialize(d, @.value)]], screen)
  /\ UNCHANGED <<handlers, reg_addr, power, started>>

\* slip: num_entries keeps the size of the menu this level showed before
EnteredKeepsCount(stk, idx, m) ==
  [stk EXCEPT ![idx] = [@ EXCEPT !.menu = m, !.selected = 0]]

\* The frame a menu is entered with; evt_hdl_set keeps what an earlier use left.
Entered(stk, idx, m) ==
  [stk EXCEPT ![idx] = [@ EXCEPT !.menu = m, !.selected = 0, !.num_entries = 0]]

EnterMenu ==
  /\ key = "RIGHT"
  /\ SubMenu(EntryOf(Cur))
  /\ LET e == EntryOf(Cur)
         app == e.type = "EVT_HDL"
         saved == IF app THEN [stack EXCEPT ![stack_idx].evt_hdl_set = TRUE] ELSE stack
     IN /\ IF app THEN /\ evt_handler_addhandler(e.cb)
                       /\ Start(pool'[head'].cb)
                  ELSE UNCHANGED <<handlers, reg_addr, started>>
        /\ DrawMenu(Entered(saved, stack_idx + 1, e.next), stack_idx + 1,
                    IF app THEN LinesAfter(pool'[head'].cb, TRUE) ELSE visible_lines, drop,
                    IF app THEN ScreenAfter(pool'[head'].cb, TRUE) ELSE screen)
  /\ UNCHANGED power

IgnoreRight ==
  /\ key = "RIGHT"
  /\ ~ SubMenu(EntryOf(Cur))
  /\ EntryOf(Cur).type = "DROPDOWN" => Open
  /\ DrawMenu(stack, stack_idx, visible_lines, drop, screen)
  /\ UNCHANGED <<handlers, reg_addr, power, started>>

\* jmp_bootloader does not come back; shutdown lets go of the power supply.
KeySelect ==
  /\ key = "SELECT"
  /\ LET exec == IF EntryOf(Cur).type = "EXEC" THEN EntryOf(Cur).exec ELSE "returns" IN
     IF exec = "bootloader"
     THEN /\ power' = "bootloader"
          /\ UNCHANGED <<levels, visible_lines, drop, screen>>
     ELSE /\ power' = IF exec = "shutdown" THEN "released" ELSE power
          /\ DrawMenu(stack, stack_idx, visible_lines, drop, screen)
  /\ UNCHANGED <<handlers, reg_addr, started>>

KeyHandler == \/ KeyUp \/ KeyDown \/ CloseDropdown \/ LeaveMenu \/ OpenDropdown
              \/ EnterMenu \/ IgnoreRight \/ KeySelect
-----------------------------------------------------------------------------
Running == power \in {"on", "released"}

\* evt_handler_dispatch: EVENT_KEYPRESS with key k goes to the head of the list.
TakeKey(k) ==
  /\ Running
  /\ tmp = 0
  /\ tmp' = head
  /\ key' = k
  /\ UNCHANGED <<handlers, levels, visible_lines, drop, reg_addr, screen, power, started>>

Consume == tmp' = 0 /\ key' = None
Pass == tmp' = pool[tmp].next /\ key' = IF pool[tmp].next = 0 THEN None ELSE key

\* ui_event_notify: the key goes to the menu, and no further.
ui_event_notify ==
  /\ Running
  /\ tmp # 0
  /\ pool[tmp].cb = Ui
  /\ KeyHandler
  /\ Consume

\* rf_event_notify leaves every key to the handlers below.
rf_event_notify ==
  /\ Running
  /\ tmp # 0
  /\ pool[tmp].cb \in Apps \ RegDump
  /\ Pass
  /\ UNCHANGED <<handlers, levels, visible_lines, drop, reg_addr, screen, power, started>>

\* rf_debug_notify returns rv, which UP and DOWN leave uninitialised.
ScrollUp == IF reg_addr >= 6 THEN reg_addr - 6 ELSE reg_addr

\* slip: the last address that may be scrolled from is taken one line too far
ScrollDownTooFar == IF reg_addr <= 126 - 4 * 6 THEN reg_addr + 6 ELSE reg_addr

ScrollDown == IF reg_addr <= 126 - 5 * 6 THEN reg_addr + 6 ELSE reg_addr

rf_debug_notify ==
  /\ Running
  /\ tmp # 0
  /\ pool[tmp].cb \in RegDump
  /\ CASE key \in {"UP", "DOWN"} ->
            /\ reg_addr' = IF key = "UP" THEN ScrollUp ELSE ScrollDown
            /\ screen' = Dump(reg_addr')
            /\ Pass \/ Consume
       [] key = "LEFT" -> Pass /\ UNCHANGED <<reg_addr, screen>>
       [] OTHER -> Consume /\ UNCHANGED <<reg_addr, screen>>
  /\ UNCHANGED <<handlers, levels, visible_lines, drop, power, started>>

\* The supply, once pshold is released, ends the program sooner or later.
PowerOff ==
  /\ power = "released"
  /\ power' = "off"
  /\ UNCHANGED <<handlers, levels, visible_lines, drop, reg_addr, screen, tmp, key, started>>

\* ui_setup has registered ui_event_notify and drawn the root menu.
Init ==
  /\ pool = [i \in Node |-> [cb |-> IF i = 1 THEN Ui ELSE None, next |-> 0]]
  /\ head = 1
  /\ stack = [i \in Level |-> [menu |-> IF i = 0 THEN Root ELSE None,
                               num_entries |-> IF i = 0 THEN Size(Root) ELSE 0,
                               selected |-> 0, evt_hdl_set |-> FALSE]]
  /\ stack_idx = 0
  /\ visible_lines = Visible
  /\ drop \in [DOMAIN Drops -> [open : {FALSE}, value : Value]]
  /\ reg_addr = 0
  /\ screen = DrawVisible(stack[0], Visible, drop, [l \in Line |-> Empty])
  /\ tmp = 0
  /\ key = None
  /\ power = "on"
  /\ started = <<>>

Next ==
  \/ \E k \in Key : TakeKey(k)
  \/ ui_event_notify
  \/ rf_event_notify
  \/ rf_debug_notify
  \/ PowerOff

Spec == Init /\ [][Next]_vars
-----------------------------------------------------------------------------
\* Types: the handler list's links stay in the pool and the menu's level stays
\* inside the stack, whatever keys and events come (Menu.cpp, evt_handler.cpp).
TypeOK ==
  /\ pool \in [Node -> [cb : Apps \cup {Ui, None}, next : 0 .. MAX_HANDLERS]]
  /\ head \in 0 .. MAX_HANDLERS
  /\ stack \in [Level -> Frame]
  /\ stack_idx \in Level
  /\ visible_lines \in {0, Visible}
  /\ drop \in [DOMAIN Drops -> [open : BOOLEAN, value : Nat]]
  /\ reg_addr \in 0 .. 255
  /\ tmp \in 0 .. MAX_HANDLERS
  /\ key \in Key \cup {None}
  /\ power \in {"on", "released", "bootloader", "off"}
  /\ started \in Seq(Launch)

\* The levels of the stack are a path from the root down the entries selected
\* at each level, and num_entries is the size of each level's own menu.
MenuPath ==
  /\ stack[0].menu = Root
  /\ \A i \in 0 .. stack_idx :
       /\ stack[i].menu \in Menus
       /\ stack[i].num_entries = Size(stack[i].menu)
       /\ stack[i].selected = 0 \/ stack[i].selected < stack[i].num_entries
  /\ \A i \in 0 .. stack_idx - 1 :
       SubMenu(EntryOf(stack[i])) /\ stack[i + 1].menu = EntryOf(stack[i]).next

\* The applications started and not stopped are those of the levels above the
\* current one, outermost first: each got APP_START and APP_STOP in turn, from
\* the level that added its handler (Menu::KeyHandler, evt_hdl_set).
StartedMatchesMenu ==
  /\ \A k \in 1 .. Len(started) :
       /\ started[k].at < stack_idx
       /\ EntryOf(stack[started[k].at]).type = "EVT_HDL"
       /\ started[k].cb = EntryOf(stack[started[k].at]).cb
       /\ \A j \in 1 .. k - 1 : started[j].at < started[k].at
  /\ \A i \in 0 .. stack_idx - 1 :
       EntryOf(stack[i]).type = "EVT_HDL" => \E k \in 1 .. Len(started) : started[k].at = i

\* The handler list is the system handler at the tail ("never gets popped",
\* ui.cpp) and the started applications in front of it, and every other node
\* of the pool is free: entering and leaving applications leaks none.
HandlersMatchMenu ==
  /\ head = Len(started) + 1
  /\ pool[1] = [cb |-> Ui, next |-> 0]
  /\ \A k \in 1 .. Len(started) : pool[k + 1] = [cb |-> started[k].cb, next |-> k]
  /\ \A i \in Node : i > head => pool[i].cb = None

\* Between keys the display shows a window of the current menu with the
\* selected entry in it, and it alone, inverse; an icon at the top (bottom)
\* tells of entries above (below). Only a register dump takes the menu's place.
ShowsFrom(t) ==
  LET n == Size(Cur.menu) IN
  \A l \in Line :
    /\ screen[l].text = IF t + l <= n THEN <<Cur.menu, t + l>> ELSE <<>>
    /\ screen[l].inverse <=> t + l = Cur.selected + 1 /\ n > 0
    /\ screen[l].icon = "UP" <=> l = 1 /\ t > 0
    /\ screen[l].icon = "DOWN" <=> l = Visible /\ t + Visible < n
ScreenShowsMenu ==
  tmp = 0 /\ (\A k \in 1 .. Len(started) : started[k].cb \notin RegDump) =>
    \E t \in 0 .. 127 : Cur.selected \in t .. t + Visible - 1 /\ ShowsFrom(t)

\* MenuEntry.cpp has one text buffer ("only one instance!!"): at most one
\* dropdown is open, the selected entry's, and its value is in range unless the
\* range of an ENUM starts above 0.
OpenDropdownIsCurrent ==
  \A d \in DOMAIN Drops : drop[d].open =>
    /\ EntryOf(Cur).type = "DROPDOWN" /\ EntryOf(Cur).drop = d
    /\ drop[d].value <= Drops[d].max
    /\ Drops[d].type = "NUM" => drop[d].value >= Drops[d].min

\* dump_rf_regs reads six registers a line, two on the line of 0x7e: wherever
\* the user scrolls, none past the chip's last register 0x7f, and the window
\* always moves by whole lines ("Last line should be 0x7e", rf_debug.cpp).
LinesRead(a) == {a + 6 * (l - 1) : l \in 1 .. 5}
DumpStaysOnChip ==
  \A a \in LinesRead(reg_addr) : a + (IF a < 126 THEN 6 ELSE 2) - 1 <= 127

\* While the register dump is in front, its lines are on the display after every
\* key, those it leaves to the menu below included: Enable(0) keeps the menu
\* from drawing (rf_debug.cpp, "No menu"), but for the up icon that DrawMenu
\* computes from zero visible lines.
DumpShown ==
  tmp = 0 /\ pool[head].cb \in RegDump =>
    \A l \in Line :
      /\ screen[l].text = <<"reg", reg_addr + 6 * (l - 1)>> /\ ~ screen[l].inverse
      /\ screen[l].icon \in IF l = 1 THEN {"", "UP"} ELSE {""}
=============================================================================
