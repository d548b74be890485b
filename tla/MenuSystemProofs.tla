-------------------------- MODULE MenuSystemProofs --------------------------
(***************************************************************************)
(* Proofs about MenuSystem for every menu tree shallow enough for the      *)
(* handler pool and the menu stack: its types, the path the stack keeps,   *)
(* the pairing of APP_START and APP_STOP, the handler list, the open       *)
(* dropdown, and what the display shows.                                   *)
(***************************************************************************)
EXTENDS MenuSystem, TLAPS

USE SizesAssumption

\* How the levels of the stack use up the room the menu tree leaves: level i
\* is at most as deep as its menu, the k-th application is pushed by a menu
\* with room for it, and a flag is set exactly where an application was pushed.
LevelBounds ==
  /\ \A i \in 0 .. stack_idx : i <= Depth[stack[i].menu]
  /\ \A j \in 0 .. stack_idx : \A i \in 0 .. j :
       AppDepth[stack[i].menu] <= AppDepth[stack[j].menu]
  /\ \A k \in 1 .. Len(started) : k <= AppDepth[stack[started[k].at + 1].menu]
  /\ \A i \in Level : stack[i].evt_hdl_set <=> \E k \in 1 .. Len(started) : started[k].at = i

IInv ==
  /\ TypeOK
  /\ reg_addr \in {6 * n : n \in 0 .. 17}
  /\ MenuPath
  /\ StartedMatchesMenu
  /\ HandlersMatchMenu
  /\ LevelBounds

\* The parts that speak of the stack, the applications and the handlers only.
NavInv == MenuPath /\ StartedMatchesMenu /\ HandlersMatchMenu /\ LevelBounds

LEMMA MenuSize ==
  ASSUME NEW m \in Menus
  PROVE  /\ Size(m) \in 0 .. 128
         /\ \A i \in 1 .. Size(m) : Entries[m][i] \in Entry
<1>1. Entries[m] \in Seq(Entry)
  BY MenusAssumption
<1>2. Size(m) \in Nat /\ \A i \in 1 .. Size(m) : Entries[m][i] \in Entry
  BY <1>1 DEF Size
<1>3. Size(m) <= 128
  BY MenusAssumption DEF Size
<1>4. Size(m) \in 0 .. 128
  BY <1>2, <1>3
<1> QED
  BY <1>2, <1>4

LEMMA LevelFacts ==
  ASSUME NEW i \in Level
  PROVE  /\ i \in Nat /\ 0 .. i \subseteq Level
         /\ i > 0 => /\ i - 1 \in Level /\ 0 .. i - 1 \subseteq 0 .. i
                    /\ 0 .. (i - 1) - 1 \subseteq 0 .. i - 1
  BY DEF Level

\* An entry that leads to a menu names one, deeper than its own.
LEMMA EntryFacts ==
  ASSUME NEW f \in Frame, f.menu \in Menus, SubMenu(EntryOf(f))
  PROVE  LET e == EntryOf(f) IN
         /\ f.selected < Size(f.menu)
         /\ e.next \in Menus
         /\ Depth[e.next] > Depth[f.menu]
         /\ AppDepth[e.next] >= AppDepth[f.menu]
         /\ e.type = "EVT_HDL" => e.cb \in Apps /\ AppDepth[e.next] > AppDepth[f.menu]
<1>1. f.selected < Size(f.menu)
  BY DEF EntryOf, SubMenu
<1>2. EntryOf(f) = Entries[f.menu][f.selected + 1]
  BY <1>1 DEF EntryOf
<1>3. f.selected + 1 \in 1 .. Size(f.menu)
  <2>1. f.selected \in Nat
    BY DEF Frame
  <2> QED
    BY <1>1, <2>1, MenuSize
<1>4. EntryOf(f) \in Entry
  BY <1>2, <1>3, MenuSize
<1>5. EntryOf(f).next \in Menus
  BY <1>4 DEF Entry, SubMenu
<1>6. AppDepth[EntryOf(f).next] \in Int /\ AppDepth[f.menu] \in Int
  BY <1>5, TreeAssumption
<1> QED
  BY <1>1, <1>2, <1>3, <1>5, <1>6, TreeAssumption DEF SubMenu, Size

\* Applications are started from levels above the current one.
LEMMA StartedLevels ==
  ASSUME TypeOK, NavInv
  PROVE  /\ Len(started) \in Nat
         /\ \A k \in 1 .. Len(started) :
              /\ started[k].cb \in Apps
              /\ started[k].at \in 0 .. stack_idx - 1
              /\ started[k].at + 1 \in 0 .. stack_idx
<1>1. started \in Seq(Launch) /\ stack_idx \in Level
      /\ stack \in [Level -> Frame]
  BY DEF TypeOK
<1>2. Len(started) \in Nat /\ \A k \in 1 .. Len(started) : started[k] \in Launch
  BY <1>1
<1>3. ASSUME NEW k \in 1 .. Len(started)
      PROVE  /\ started[k].cb \in Apps
             /\ started[k].at \in 0 .. stack_idx - 1
             /\ started[k].at + 1 \in 0 .. stack_idx
  <2>1. /\ started[k].at < stack_idx
        /\ EntryOf(stack[started[k].at]).type = "EVT_HDL"
        /\ started[k].cb = EntryOf(stack[started[k].at]).cb
    BY DEF NavInv, StartedMatchesMenu
  <2>0. started[k].at \in Level
    BY <1>2 DEF Launch
  <2>2. started[k].at \in 0 .. stack_idx - 1 /\ started[k].at + 1 \in 0 .. stack_idx
    BY <1>1, <2>0, <2>1 DEF Level
  <2>3. started[k].at \in 0 .. stack_idx
    BY <1>1, <2>2 DEF Level
  <2>4. stack[started[k].at].menu \in Menus /\ stack[started[k].at] \in Frame
    BY <1>1, <2>0, <2>3 DEF NavInv, MenuPath
  <2> QED
    BY <2>1, <2>2, <2>4, EntryFacts DEF SubMenu
<1> QED
  BY <1>2, <1>3

\* DrawMenu leaves the state it is given, and the size of the menu it shows.
LEMMA DrawMenuFacts ==
  ASSUME NEW stk \in [Level -> Frame], NEW idx \in Level, NEW lines, NEW drp, NEW scr,
         stk[idx].menu \in Menus,
         stk[idx].num_entries \in {0, Size(stk[idx].menu)},
         DrawMenu(stk, idx, lines, drp, scr)
  PROVE  /\ stack' = [stk EXCEPT ![idx].num_entries = Size(stk[idx].menu)]
         /\ stack' \in [Level -> Frame]
         /\ stack_idx' = idx /\ visible_lines' = lines /\ drop' = drp
<1> DEFINE n == Size(stk[idx].menu)
<1>1. n \in 0 .. 128
  BY MenuSize
<1>2. /\ stack' = [stk EXCEPT ![idx] = [stk[idx] EXCEPT !.num_entries = n]]
      /\ stack_idx' = idx /\ visible_lines' = lines /\ drop' = drp
  BY DEF DrawMenu
<1>3. [stk[idx] EXCEPT !.num_entries = n] \in Frame
  BY <1>1 DEF Frame
<1> QED
  BY <1>2, <1>3

\* Choosing another entry of the current menu disturbs no level below it.
LEMMA MoveSelection ==
  ASSUME TypeOK, NavInv, NEW s \in 0 .. 127,
         s = 0 \/ s < Cur.num_entries,
         stack' = [stack EXCEPT ![stack_idx].selected = s],
         UNCHANGED <<handlers, stack_idx, started>>
  PROVE  NavInv' /\ stack' \in [Level -> Frame]
<1>1. stack \in [Level -> Frame] /\ stack_idx \in Level
  BY DEF TypeOK
<1>2. stack_idx \in Nat /\ 0 .. stack_idx \subseteq Level
  BY <1>1, LevelFacts
<1>3. [stack[stack_idx] EXCEPT !.selected = s] \in Frame
  BY <1>1 DEF Frame
<1>4. stack' \in [Level -> Frame]
  BY <1>1, <1>3
<1>5. \A i \in Level :
        /\ stack'[i].menu = stack[i].menu
        /\ stack'[i].num_entries = stack[i].num_entries
        /\ stack'[i].evt_hdl_set = stack[i].evt_hdl_set
        /\ i # stack_idx => stack'[i] = stack[i]
        /\ i = stack_idx => stack'[i].selected = s
  BY <1>1 DEF Frame
<1>6. \A k \in 1 .. Len(started) :
        started[k].at \in 0 .. stack_idx - 1 /\ started[k].at + 1 \in 0 .. stack_idx
  BY StartedLevels
<1>7. MenuPath'
  BY <1>2, <1>5 DEF NavInv, MenuPath, Cur
<1>8. StartedMatchesMenu'
  BY <1>2, <1>5, <1>6 DEF NavInv, StartedMatchesMenu
<1>9. HandlersMatchMenu'
  BY DEF NavInv, HandlersMatchMenu, handlers
<1>10. LevelBounds'
  BY <1>2, <1>5, <1>6 DEF NavInv, LevelBounds
<1> QED
  BY <1>4, <1>7, <1>8, <1>9, <1>10 DEF NavInv

\* Leaving a menu entered by a BRANCH entry pops one level and nothing else.
LEMMA LeaveBranch ==
  ASSUME TypeOK, NavInv, stack_idx > 0, ~ stack[stack_idx - 1].evt_hdl_set,
         stack' = stack, stack_idx' = stack_idx - 1, UNCHANGED <<handlers, started>>
  PROVE  NavInv'
<1>1. stack \in [Level -> Frame] /\ stack_idx \in Level
  BY DEF TypeOK
<1>2. /\ stack_idx \in Nat /\ 0 .. stack_idx \subseteq Level
      /\ stack_idx - 1 \in Level /\ 0 .. stack_idx - 1 \subseteq 0 .. stack_idx
      /\ 0 .. (stack_idx - 1) - 1 \subseteq 0 .. stack_idx - 1
  BY <1>1, LevelFacts
<1>3. \A k \in 1 .. Len(started) :
        /\ started[k].at \in 0 .. stack_idx - 1 /\ started[k].at + 1 \in 0 .. stack_idx
        /\ started[k].at # stack_idx - 1
  BY <1>2, StartedLevels DEF NavInv, LevelBounds
<1>4. MenuPath'
  BY <1>2 DEF NavInv, MenuPath
<1>5. StartedMatchesMenu'
  <2>1. \A k \in 1 .. Len(started) :
          /\ EntryOf(stack[started[k].at]).type = "EVT_HDL"
          /\ started[k].cb = EntryOf(stack[started[k].at]).cb
          /\ \A j \in 1 .. k - 1 : started[j].at < started[k].at
    BY DEF NavInv, StartedMatchesMenu
  <2>2. \A i \in 0 .. stack_idx - 1 :
          EntryOf(stack[i]).type = "EVT_HDL" => \E k \in 1 .. Len(started) : started[k].at = i
    BY DEF NavInv, StartedMatchesMenu
  <2>3. \A k \in 1 .. Len(started) : started[k].at < stack_idx - 1
    BY <1>2, <1>3
  <2>4. \A i \in 0 .. (stack_idx - 1) - 1 :
          EntryOf(stack[i]).type = "EVT_HDL" => \E k \in 1 .. Len(started) : started[k].at = i
    BY <1>2, <2>2
  <2> QED
    BY <2>1, <2>3, <2>4 DEF StartedMatchesMenu
<1>6. HandlersMatchMenu'
  BY DEF NavInv, HandlersMatchMenu, handlers
<1>7. LevelBounds'
  BY <1>2 DEF NavInv, LevelBounds
<1> QED
  BY <1>4, <1>5, <1>6, <1>7 DEF NavInv

\* Leaving an application's menu stops the application started last, and it is
\* that application's handler that is popped.
LEMMA LeaveApp ==
  ASSUME TypeOK, NavInv, stack_idx > 0, stack[stack_idx - 1].evt_hdl_set,
         Stop(StopTarget), evt_handler_pophandler,
         stack' = [stack EXCEPT ![stack_idx - 1].evt_hdl_set = FALSE],
         stack_idx' = stack_idx - 1
  PROVE  /\ NavInv'
         /\ pool' \in [Node -> [cb : Apps \cup {Ui, None}, next : 0 .. MAX_HANDLERS]]
         /\ head' \in 0 .. MAX_HANDLERS
         /\ started' \in Seq(Launch)
<1>1. /\ stack \in [Level -> Frame] /\ stack_idx \in Level
      /\ pool \in [Node -> [cb : Apps \cup {Ui, None}, next : 0 .. MAX_HANDLERS]]
      /\ head \in 0 .. MAX_HANDLERS
  BY DEF TypeOK
<1>2. /\ stack_idx \in Nat /\ 0 .. stack_idx \subseteq Level
      /\ stack_idx - 1 \in Level /\ 0 .. stack_idx - 1 \subseteq 0 .. stack_idx
      /\ 0 .. (stack_idx - 1) - 1 \subseteq 0 .. stack_idx - 1
  BY <1>1, LevelFacts
<1>3. started \in Seq(Launch)
  BY DEF TypeOK
<1>4. PICK n \in Nat : n = Len(started)
  BY <1>3
<1>5. \A k \in 1 .. n : started[k].cb \in Apps /\ started[k].at \in 0 .. stack_idx - 1
  BY <1>4, StartedLevels
<1>6. n >= 1 /\ started[n].at = stack_idx - 1
      /\ \A k \in 1 .. n - 1 : started[k].at \in 0 .. (stack_idx - 1) - 1
  <2>1. PICK k \in 1 .. n : started[k].at = stack_idx - 1
    BY <1>2, <1>4 DEF NavInv, LevelBounds
  <2>2. \A i \in 1 .. n : \A j \in 1 .. i - 1 : started[j].at < started[i].at
    BY <1>4 DEF NavInv, StartedMatchesMenu
  <2>3. \A i \in 1 .. n : started[i].at \in Int /\ started[i].at <= stack_idx - 1 /\ started[i].at >= 0
    BY <1>2, <1>5
  <2>4. k = n
    BY <2>1, <2>2, <2>3
  <2>5. \A i \in 1 .. n - 1 : started[i].at < stack_idx - 1
    BY <2>1, <2>2, <2>4
  <2> QED
    BY <1>2, <2>1, <2>3, <2>4, <2>5
<1>7. head = n + 1 /\ pool[n + 1] = [cb |-> started[n].cb, next |-> n] /\ n + 1 \in Node
  <2>1. head = n + 1
    BY <1>4 DEF NavInv, HandlersMatchMenu
  <2>2. pool[n + 1] = [cb |-> started[n].cb, next |-> n]
    BY <1>4, <1>6 DEF NavInv, HandlersMatchMenu
  <2>3. n + 1 \in Node
    BY <1>1, <2>1 DEF Node
  <2> QED
    BY <2>1, <2>2, <2>3
<1>8. StopTarget = started[n].cb
  BY <1>7 DEF StopTarget
<1>9. started' = SubSeq(started, 1, n - 1)
  BY <1>3, <1>4, <1>6, <1>8 DEF Stop
<1>10. /\ started' \in Seq(Launch)
       /\ Len(started') = n - 1
       /\ \A k \in 1 .. n - 1 : started'[k] = started[k]
  BY <1>3, <1>4, <1>6, <1>9
<1>11. /\ pool' = [pool EXCEPT ![n + 1].cb = None]
       /\ head' = n
  BY <1>1, <1>7 DEF evt_handler_pophandler
<1>12. /\ pool' \in [Node -> [cb : Apps \cup {Ui, None}, next : 0 .. MAX_HANDLERS]]
       /\ head' \in 0 .. MAX_HANDLERS
       /\ \A i \in Node : i # n + 1 => pool'[i] = pool[i]
       /\ pool'[n + 1].cb = None
  BY <1>1, <1>7, <1>11 DEF Node
<1>13. HandlersMatchMenu'
  <2>1. \A k \in 1 .. n - 1 : k + 1 \in Node /\ k + 1 # n + 1
    BY <1>7 DEF Node
  <2>2. pool'[1] = [cb |-> Ui, next |-> 0]
    <3>1. 1 \in Node /\ 1 # n + 1
      BY <1>6 DEF Node
    <3>2. pool[1] = [cb |-> Ui, next |-> 0]
      BY DEF NavInv, HandlersMatchMenu
    <3> QED
      BY <1>12, <3>1, <3>2
  <2>3. \A k \in 1 .. n - 1 : pool'[k + 1] = [cb |-> started'[k].cb, next |-> k]
    BY <1>4, <1>10, <1>12, <2>1 DEF NavInv, HandlersMatchMenu
  <2>4. \A i \in Node : i > n => pool'[i].cb = None
    <3>1. \A i \in Node : i > n => i = n + 1 \/ i > head
      BY <1>7 DEF Node
    <3>2. \A i \in Node : i > head => i # n + 1 /\ pool[i].cb = None
      BY <1>7 DEF NavInv, HandlersMatchMenu, Node
    <3> QED
      BY <1>12, <3>1, <3>2
  <2> QED
    BY <1>10, <1>11, <2>2, <2>3, <2>4 DEF HandlersMatchMenu
<1>14. \A i \in Level :
         /\ stack'[i].menu = stack[i].menu
         /\ stack'[i].num_entries = stack[i].num_entries
         /\ stack'[i].selected = stack[i].selected
         /\ i # stack_idx - 1 => stack'[i].evt_hdl_set = stack[i].evt_hdl_set
         /\ i = stack_idx - 1 => ~ stack'[i].evt_hdl_set
  BY <1>1, ZenonT(60) DEF Frame
<1>15. \A i \in Level : EntryOf(stack[i])' = EntryOf(stack[i])
  BY <1>14 DEF EntryOf
<1>16. MenuPath'
  BY <1>2, <1>14, <1>15 DEF NavInv, MenuPath
<1>17. StartedMatchesMenu'
  <2>1. \A k \in 1 .. n - 1 :
          /\ started'[k].at < stack_idx - 1
          /\ EntryOf(stack'[started'[k].at]).type = "EVT_HDL"
          /\ started'[k].cb = EntryOf(stack'[started'[k].at]).cb
          /\ \A j \in 1 .. k - 1 : started'[j].at < started'[k].at
    <3> SUFFICES ASSUME NEW k \in 1 .. n - 1
                 PROVE  /\ started[k].at < stack_idx - 1
                        /\ EntryOf(stack'[started[k].at]).type = "EVT_HDL"
                        /\ started[k].cb = EntryOf(stack'[started[k].at]).cb
                        /\ \A j \in 1 .. k - 1 : started[j].at < started[k].at
      <4>1. \A k \in 1 .. n - 1 : \A j \in 1 .. k - 1 : j \in 1 .. n - 1
        OBVIOUS
      <4> QED
        BY <1>10, <4>1
    <3>1. k \in 1 .. n /\ started[k].at \in 0 .. (stack_idx - 1) - 1
      BY <1>6
    <3>2. /\ EntryOf(stack[started[k].at]).type = "EVT_HDL"
          /\ started[k].cb = EntryOf(stack[started[k].at]).cb
          /\ \A j \in 1 .. k - 1 : started[j].at < started[k].at
      BY <1>4, <3>1 DEF NavInv, StartedMatchesMenu
    <3>3. started[k].at \in Level /\ started[k].at < stack_idx - 1
      BY <1>2, <3>1
    <3> QED
      BY <1>15, <3>2, <3>3
  <2>2. \A i \in 0 .. (stack_idx - 1) - 1 :
          EntryOf(stack'[i]).type = "EVT_HDL" => \E k \in 1 .. n - 1 : started'[k].at = i
    <3> SUFFICES ASSUME NEW i \in 0 .. (stack_idx - 1) - 1, EntryOf(stack'[i]).type = "EVT_HDL"
                 PROVE  \E k \in 1 .. n - 1 : started'[k].at = i
      OBVIOUS
    <3>1. PICK k \in 1 .. n : started[k].at = i
      BY <1>2, <1>4, <1>15 DEF NavInv, StartedMatchesMenu
    <3>2. k # n
      BY <1>2, <1>6, <3>1
    <3> QED
      BY <1>10, <3>1, <3>2
  <2> QED
    BY <1>10, <2>1, <2>2 DEF StartedMatchesMenu
<1>18. LevelBounds'
  <2>1. \A i \in 0 .. stack_idx - 1 : i <= Depth[stack'[i].menu]
    BY <1>2, <1>14 DEF NavInv, LevelBounds
  <2>2. \A j \in 0 .. stack_idx - 1 : \A i \in 0 .. j :
          AppDepth[stack'[i].menu] <= AppDepth[stack'[j].menu]
    BY <1>2, <1>14 DEF NavInv, LevelBounds
  <2>3. \A k \in 1 .. n - 1 : k <= AppDepth[stack'[started'[k].at + 1].menu]
    <3>1. \A k \in 1 .. n - 1 : started[k].at + 1 \in Level
      BY <1>2, <1>6
    <3> QED
      BY <1>4, <1>10, <1>14, <3>1 DEF NavInv, LevelBounds
  <2>4. \A i \in Level : stack'[i].evt_hdl_set <=> \E k \in 1 .. n - 1 : started'[k].at = i
    <3> SUFFICES ASSUME NEW i \in Level
                 PROVE  stack'[i].evt_hdl_set <=> \E k \in 1 .. n - 1 : started'[k].at = i
      OBVIOUS
    <3>1. CASE i = stack_idx - 1
      <4>1. \A k \in 1 .. n - 1 : started'[k].at # stack_idx - 1
        BY <1>2, <1>6, <1>10
      <4>2. ~ stack'[i].evt_hdl_set
        BY <1>14, <3>1
      <4> QED
        BY <3>1, <4>1, <4>2
    <3>2. CASE i # stack_idx - 1
      <4>1. stack'[i].evt_hdl_set <=> \E k \in 1 .. n : started[k].at = i
        BY <1>4, <1>14, <3>2 DEF NavInv, LevelBounds
      <4>2. (\E k \in 1 .. n : started[k].at = i) <=> \E k \in 1 .. n - 1 : started[k].at = i
        BY <1>6, <3>2
      <4>3. (\E k \in 1 .. n - 1 : started[k].at = i) <=> \E k \in 1 .. n - 1 : started'[k].at = i
        BY <1>10
      <4> QED
        BY <4>1, <4>2, <4>3
    <3> QED
      BY <3>1, <3>2
  <2> QED
    BY <1>10, <2>1, <2>2, <2>3, <2>4 DEF LevelBounds
<1> QED
  BY <1>10, <1>12, <1>13, <1>16, <1>17, <1>18 DEF NavInv

\* Entering the menu of the selected entry: the new level extends the path,
\* and the tree's bounds leave room for it on the stack.
LEMMA EnterLevel ==
  ASSUME TypeOK, NavInv, SubMenu(EntryOf(Cur)),
         NEW flag \in BOOLEAN,
         stack' = [stack EXCEPT
                     ![stack_idx].evt_hdl_set = flag,
                     ![stack_idx + 1] = [@ EXCEPT !.menu = EntryOf(Cur).next, !.selected = 0,
                                                  !.num_entries = Size(EntryOf(Cur).next)]],
         stack_idx' = stack_idx + 1
  PROVE  /\ stack_idx + 1 \in Level
         /\ stack' \in [Level -> Frame]
         /\ \A i \in Level : i <= stack_idx => /\ stack'[i].menu = stack[i].menu
                                               /\ EntryOf(stack[i])' = EntryOf(stack[i])
         /\ stack'[stack_idx + 1].menu = EntryOf(Cur).next
         /\ \A i \in Level : stack'[i].evt_hdl_set = IF i = stack_idx THEN flag
                                                     ELSE stack[i].evt_hdl_set
         /\ MenuPath'
         /\ \A i \in 0 .. stack_idx + 1 : i <= Depth[stack'[i].menu]
         /\ \A j \in 0 .. stack_idx + 1 : \A i \in 0 .. j :
              AppDepth[stack'[i].menu] <= AppDepth[stack'[j].menu]
<1> DEFINE m == EntryOf(Cur).next
<1>1. stack \in [Level -> Frame] /\ stack_idx \in Level
  BY DEF TypeOK
<1>2. stack_idx \in Nat /\ 0 .. stack_idx \subseteq Level
  BY <1>1, LevelFacts
<1>3. \A i \in 0 .. stack_idx : stack[i].menu \in Menus
  BY DEF NavInv, MenuPath
<1>4. Cur \in Frame /\ Cur.menu \in Menus /\ stack_idx \in 0 .. stack_idx
  BY <1>1, <1>2, <1>3 DEF Cur
<1>5. /\ m \in Menus /\ Depth[m] > Depth[Cur.menu] /\ AppDepth[m] >= AppDepth[Cur.menu]
  BY <1>4, EntryFacts
<1>6. /\ Depth[m] \in 0 .. MAX_MENU_DEPTH - 1 /\ Depth[Cur.menu] \in Int
      /\ \A x \in Menus : AppDepth[x] \in Int
  BY <1>4, <1>5, TreeAssumption
<1>7. stack_idx <= Depth[Cur.menu]
  BY <1>2, <1>4 DEF NavInv, LevelBounds, Cur
<1>8. stack_idx + 1 <= Depth[m] /\ stack_idx + 1 \in Level
  BY <1>2, <1>5, <1>6, <1>7 DEF Level
<1>9. Size(m) \in 0 .. 128
  BY <1>5, MenuSize
<1>10. /\ stack' \in [Level -> Frame]
       /\ stack'[stack_idx + 1].menu = m
       /\ stack'[stack_idx + 1].selected = 0
       /\ stack'[stack_idx + 1].num_entries = Size(m)
       /\ \A i \in Level : /\ stack'[i].evt_hdl_set = IF i = stack_idx THEN flag
                                                     ELSE stack[i].evt_hdl_set
                           /\ i # stack_idx + 1 => /\ stack'[i].menu = stack[i].menu
                                                   /\ stack'[i].selected = stack[i].selected
                                                   /\ stack'[i].num_entries = stack[i].num_entries
  <2> DEFINE f == [stack[stack_idx] EXCEPT !.evt_hdl_set = flag]
             g == [stack[stack_idx + 1] EXCEPT !.menu = m, !.selected = 0, !.num_entries = Size(m)]
  <2>1. f \in Frame
    BY <1>1 DEF Frame
  <2>2. g \in Frame
    <3>1. stack[stack_idx + 1] \in Frame /\ m \in Menus \cup {None} /\ 0 \in 0 .. 127
      BY <1>1, <1>5, <1>8
    <3> HIDE DEF m
    <3> QED
      BY <1>9, <3>1, ZenonT(60) DEF Frame
  <2>3. stack_idx # stack_idx + 1
    BY <1>2
  <2>4. /\ stack' \in [Level -> Frame]
        /\ stack'[stack_idx] = f /\ stack'[stack_idx + 1] = g
        /\ \A i \in Level : i # stack_idx /\ i # stack_idx + 1 => stack'[i] = stack[i]
    BY <1>1, <1>8, <2>1, <2>2, <2>3
  <2>5. /\ f.menu = stack[stack_idx].menu /\ f.selected = stack[stack_idx].selected
        /\ f.num_entries = stack[stack_idx].num_entries /\ f.evt_hdl_set = flag
        /\ g.menu = m /\ g.selected = 0 /\ g.num_entries = Size(m)
        /\ g.evt_hdl_set = stack[stack_idx + 1].evt_hdl_set
    BY <1>1, <1>8 DEF Frame
  <2> HIDE DEF f, g
  <2> QED
    BY <2>3, <2>4, <2>5
<1>11. \A i \in Level : i <= stack_idx => EntryOf(stack[i])' = EntryOf(stack[i])
  <2>1. \A i \in Level : i <= stack_idx => i # stack_idx + 1
    BY <1>2 DEF Level
  <2>2. ASSUME NEW i \in Level, i <= stack_idx PROVE EntryOf(stack[i])' = EntryOf(stack[i])
    <3>1. stack'[i].menu = stack[i].menu /\ stack'[i].selected = stack[i].selected
      BY <1>10, <2>1, <2>2
    <3> QED
      BY <3>1 DEF EntryOf
  <2> QED
    BY <2>2
<1>12. \A i \in 0 .. stack_idx : /\ stack'[i].menu = stack[i].menu
                                 /\ stack'[i].selected = stack[i].selected
                                 /\ stack'[i].num_entries = stack[i].num_entries
                                 /\ EntryOf(stack[i])' = EntryOf(stack[i])
  BY <1>2, <1>10, <1>11
<1>13. MenuPath'
  <2>1. stack'[0].menu = Root
    <3>1. 0 \in 0 .. stack_idx
      BY <1>2
    <3> QED
      BY <1>12, <3>1 DEF NavInv, MenuPath
  <2>2. \A i \in 0 .. stack_idx + 1 :
          /\ stack'[i].menu \in Menus
          /\ stack'[i].num_entries = Size(stack'[i].menu)
          /\ stack'[i].selected = 0 \/ stack'[i].selected < stack'[i].num_entries
    <3> SUFFICES ASSUME NEW i \in 0 .. stack_idx + 1
                 PROVE  /\ stack'[i].menu \in Menus
                        /\ stack'[i].num_entries = Size(stack'[i].menu)
                        /\ stack'[i].selected = 0 \/ stack'[i].selected < stack'[i].num_entries
      OBVIOUS
    <3>1. CASE i = stack_idx + 1
      BY <1>5, <1>10, <3>1
    <3>2. CASE i # stack_idx + 1
      <4>1. i \in 0 .. stack_idx
        BY <1>2, <3>2
      <4> QED
        BY <1>12, <4>1 DEF NavInv, MenuPath
    <3> QED
      BY <3>1, <3>2
  <2>3. \A i \in 0 .. stack_idx :
          SubMenu(EntryOf(stack[i])') /\ stack'[i + 1].menu = EntryOf(stack[i])'.next
    <3> SUFFICES ASSUME NEW i \in 0 .. stack_idx
                 PROVE  SubMenu(EntryOf(stack[i])) /\ stack'[i + 1].menu = EntryOf(stack[i]).next
      BY <1>12
    <3>1. CASE i = stack_idx
      BY <1>10, <3>1 DEF Cur
    <3>2. CASE i # stack_idx
      <4>1. i \in 0 .. stack_idx - 1 /\ i + 1 \in 0 .. stack_idx
        BY <1>2, <3>2
      <4> QED
        BY <1>12, <4>1 DEF NavInv, MenuPath
    <3> QED
      BY <3>1, <3>2
  <2>4. (stack_idx + 1) - 1 = stack_idx
    BY <1>2
  <2> QED
    BY <2>1, <2>2, <2>3, <2>4 DEF MenuPath
<1>14. \A i \in 0 .. stack_idx + 1 : i <= Depth[stack'[i].menu]
  <2>1. \A i \in 0 .. stack_idx : i <= Depth[stack'[i].menu]
    BY <1>12 DEF NavInv, LevelBounds
  <2> QED
    BY <1>2, <1>8, <1>10, <2>1
<1>15. \A j \in 0 .. stack_idx + 1 : \A i \in 0 .. j :
         AppDepth[stack'[i].menu] <= AppDepth[stack'[j].menu]
  <2>1. \A i \in 0 .. stack_idx : /\ AppDepth[stack'[i].menu] \in Int
                                  /\ AppDepth[stack'[i].menu] <= AppDepth[m]
    <3> SUFFICES ASSUME NEW i \in 0 .. stack_idx
                 PROVE  AppDepth[stack[i].menu] \in Int /\ AppDepth[stack[i].menu] <= AppDepth[m]
      BY <1>12
    <3>1. AppDepth[stack[i].menu] <= AppDepth[Cur.menu]
      BY <1>4 DEF NavInv, LevelBounds, Cur
    <3> QED
      BY <1>3, <1>4, <1>5, <1>6, <3>1
  <2>2. \A j \in 0 .. stack_idx : \A i \in 0 .. j :
          AppDepth[stack'[i].menu] <= AppDepth[stack'[j].menu]
    <3>1. \A j \in 0 .. stack_idx : \A i \in 0 .. j : i \in 0 .. stack_idx
      BY <1>2
    <3> QED
      BY <1>12, <3>1 DEF NavInv, LevelBounds
  <2> QED
    BY <1>2, <1>5, <1>6, <1>10, <2>1, <2>2
<1>16. \A i \in Level : i <= stack_idx => /\ stack'[i].menu = stack[i].menu
                                            /\ EntryOf(stack[i])' = EntryOf(stack[i])
  <2>1. \A i \in Level : i <= stack_idx => i \in 0 .. stack_idx
    BY <1>2 DEF Level
  <2> QED
    BY <1>12, <2>1
<1> HIDE DEF m
<1>17. stack'[stack_idx + 1].menu = EntryOf(Cur).next
  BY <1>10 DEF m
<1> QED
  BY <1>8, <1>10, <1>13, <1>14, <1>15, <1>16, <1>17, Zenon

\* A BRANCH entry adds a level without an application.
LEMMA EnterBranch ==
  ASSUME TypeOK, NavInv, EntryOf(Cur).type = "BRANCH",
         stack' = [stack EXCEPT
                     ![stack_idx].evt_hdl_set = stack[stack_idx].evt_hdl_set,
                     ![stack_idx + 1] = [@ EXCEPT !.menu = EntryOf(Cur).next, !.selected = 0,
                                                  !.num_entries = Size(EntryOf(Cur).next)]],
         stack_idx' = stack_idx + 1, UNCHANGED <<handlers, started>>
  PROVE  NavInv' /\ stack' \in [Level -> Frame] /\ stack_idx' \in Level
<1>1. /\ stack \in [Level -> Frame] /\ stack_idx \in Level
      /\ stack[stack_idx].evt_hdl_set \in BOOLEAN
  BY DEF TypeOK, Frame
<1>2. stack_idx \in Nat /\ 0 .. stack_idx \subseteq Level
  BY <1>1, LevelFacts
<1>3. /\ stack_idx + 1 \in Level
      /\ stack' \in [Level -> Frame]
      /\ \A i \in Level : i <= stack_idx => /\ stack'[i].menu = stack[i].menu
                                            /\ EntryOf(stack[i])' = EntryOf(stack[i])
      /\ \A i \in Level : stack'[i].evt_hdl_set = IF i = stack_idx THEN stack[stack_idx].evt_hdl_set
                                                  ELSE stack[i].evt_hdl_set
      /\ MenuPath'
      /\ \A i \in 0 .. stack_idx + 1 : i <= Depth[stack'[i].menu]
      /\ \A j \in 0 .. stack_idx + 1 : \A i \in 0 .. j :
           AppDepth[stack'[i].menu] <= AppDepth[stack'[j].menu]
  BY <1>1, EnterLevel, Zenon DEF SubMenu
<1>4. \A k \in 1 .. Len(started) :
        /\ started[k].at \in 0 .. stack_idx - 1 /\ started[k].at + 1 \in 0 .. stack_idx
        /\ started[k].at \in Level /\ started[k].at <= stack_idx /\ started[k].at < stack_idx + 1
        /\ started[k].at + 1 \in Level /\ started[k].at + 1 <= stack_idx
  BY <1>2, StartedLevels
<1>5. StartedMatchesMenu'
  <2>1. \A k \in 1 .. Len(started) :
          /\ started[k].at < stack_idx + 1
          /\ EntryOf(stack[started[k].at])'.type = "EVT_HDL"
          /\ started[k].cb = EntryOf(stack[started[k].at])'.cb
          /\ \A j \in 1 .. k - 1 : started[j].at < started[k].at
    BY <1>3, <1>4 DEF NavInv, StartedMatchesMenu
  <2>2. ASSUME NEW i \in 0 .. (stack_idx + 1) - 1, EntryOf(stack[i])'.type = "EVT_HDL"
        PROVE  \E k \in 1 .. Len(started) : started[k].at = i
    <3>1. i \in 0 .. stack_idx /\ i \in Level /\ i <= stack_idx
      BY <1>2
    <3>2. EntryOf(stack[i]).type = "EVT_HDL"
      BY <1>3, <2>2, <3>1
    <3>3. i \in 0 .. stack_idx - 1
      BY <1>2, <3>1, <3>2 DEF Cur
    <3> QED
      BY <3>2, <3>3 DEF NavInv, StartedMatchesMenu
  <2> QED
    BY <2>1, <2>2 DEF StartedMatchesMenu
<1>6. HandlersMatchMenu'
  BY DEF NavInv, HandlersMatchMenu, handlers
<1>7. LevelBounds'
  <2>1. \A k \in 1 .. Len(started) : k <= AppDepth[stack'[started[k].at + 1].menu]
    BY <1>3, <1>4 DEF NavInv, LevelBounds
  <2>2. \A i \in Level : stack'[i].evt_hdl_set = stack[i].evt_hdl_set
    BY <1>3
  <2>3. \A i \in Level : stack'[i].evt_hdl_set <=> \E k \in 1 .. Len(started) : started[k].at = i
    BY <2>2 DEF NavInv, LevelBounds
  <2> QED
    BY <1>3, <2>1, <2>3 DEF LevelBounds
<1> QED
  BY <1>3, <1>5, <1>6, <1>7 DEF NavInv

\* The pool always has the node an application needs, and it is the next one.
LEMMA AddHandler ==
  ASSUME TypeOK, NavInv, EntryOf(Cur).type = "EVT_HDL",
         evt_handler_addhandler(EntryOf(Cur).cb)
  PROVE  /\ EntryOf(Cur).cb \in Apps
         /\ Len(started) + 1 <= AppDepth[EntryOf(Cur).next]
         /\ head + 1 \in Node
         /\ head' = head + 1
         /\ pool' = [pool EXCEPT ![head + 1] = [cb |-> EntryOf(Cur).cb, next |-> head]]
<1> DEFINE e == EntryOf(Cur)
<1>1. /\ stack \in [Level -> Frame] /\ stack_idx \in Level /\ head \in 0 .. MAX_HANDLERS
  BY DEF TypeOK
<1>2. stack_idx \in Nat /\ 0 .. stack_idx \subseteq Level /\ stack_idx \in 0 .. stack_idx
  BY <1>1, LevelFacts
<1>3. Cur \in Frame /\ Cur.menu \in Menus
  BY <1>1, <1>2 DEF Cur, NavInv, MenuPath
<1>4. e.cb \in Apps /\ e.next \in Menus /\ AppDepth[e.next] > AppDepth[Cur.menu]
  BY <1>3, EntryFacts DEF SubMenu
<1>5. AppDepth[e.next] \in 0 .. MAX_HANDLERS - 1 /\ AppDepth[Cur.menu] \in 0 .. MAX_HANDLERS - 1
  BY <1>3, <1>4, TreeAssumption
<1>6. PICK n \in Nat : n = Len(started)
  BY StartedLevels
<1>7. n <= AppDepth[Cur.menu]
  <2>1. CASE n = 0
    BY <1>5, <2>1
  <2>2. CASE n > 0
    <3>1. n <= AppDepth[stack[started[n].at + 1].menu] /\ started[n].at + 1 \in 0 .. stack_idx
      BY <1>6, <2>2, StartedLevels DEF NavInv, LevelBounds
    <3>2. AppDepth[stack[started[n].at + 1].menu] <= AppDepth[Cur.menu]
      BY <1>2, <3>1 DEF NavInv, LevelBounds, Cur
    <3>3. stack[started[n].at + 1].menu \in Menus
      BY <3>1 DEF NavInv, MenuPath
    <3>4. AppDepth[stack[started[n].at + 1].menu] \in Int
      BY <3>3, TreeAssumption
    <3> QED
      BY <1>5, <3>1, <3>2, <3>4
  <2> QED
    BY <1>6, <2>1, <2>2
<1>8. head = n + 1 /\ n + 1 <= AppDepth[e.next] /\ head + 1 \in Node
  <2>1. head = n + 1
    BY <1>6 DEF NavInv, HandlersMatchMenu
  <2> HIDE DEF e
  <2> QED
    BY <1>4, <1>5, <1>7, <2>1 DEF Node
<1>9. \A i \in Node : i <= head => pool[i].cb # None
  <2> SUFFICES ASSUME NEW i \in Node, i <= head PROVE pool[i].cb # None
    OBVIOUS
  <2>1. CASE i = 1
    BY <2>1, HandlersAssumption DEF NavInv, HandlersMatchMenu
  <2>2. CASE i # 1
    <3>1. PICK k \in 1 .. n : i = k + 1
      BY <1>6, <1>8, <2>2 DEF Node
    <3>2. pool[k + 1] = [cb |-> started[k].cb, next |-> k]
      BY <1>6 DEF NavInv, HandlersMatchMenu
    <3> QED
      BY <1>6, <3>1, <3>2, StartedLevels, HandlersAssumption
  <2> QED
    BY <2>1, <2>2
<1>10. pool[head + 1].cb = None
  <2>1. head + 1 > head
    BY <1>1
  <2> QED
    BY <1>8, <2>1 DEF NavInv, HandlersMatchMenu
<1>11. get_node(pool) = head + 1
  <2>1. \A i \in Node : pool[i].cb = None /\ (\A j \in 1 .. i - 1 : pool[j].cb # None) <=> i = head + 1
    <3> SUFFICES ASSUME NEW i \in Node
                 PROVE  pool[i].cb = None /\ (\A j \in 1 .. i - 1 : pool[j].cb # None) <=> i = head + 1
      OBVIOUS
    <3>1. CASE i <= head
      BY <1>1, <1>9, <3>1 DEF Node
    <3>2. CASE i = head + 1
      <4>1. \A j \in 1 .. i - 1 : j \in Node /\ j <= head
        BY <1>1, <3>2 DEF Node
      <4> QED
        BY <1>9, <1>10, <3>2, <4>1
    <3>3. CASE i > head + 1
      <4>1. head + 1 \in 1 .. i - 1 /\ i # head + 1
        BY <1>1, <3>3 DEF Node
      <4> QED
        BY <1>10, <4>1
    <3> QED
      BY <1>1, <3>1, <3>2, <3>3 DEF Node
  <2> QED
    BY <1>8, <1>10, <2>1 DEF get_node
<1>12. head + 1 # 0
  BY <1>1
<1> QED
  BY <1>4, <1>6, <1>8, <1>11, <1>12 DEF evt_handler_addhandler

\* An EVT_HDL entry adds a level, starts its application and puts the
\* application's handler in front of the list.
LEMMA EnterApp ==
  ASSUME TypeOK, NavInv, EntryOf(Cur).type = "EVT_HDL",
         evt_handler_addhandler(EntryOf(Cur).cb), Start(pool'[head'].cb),
         stack' = [stack EXCEPT
                     ![stack_idx].evt_hdl_set = TRUE,
                     ![stack_idx + 1] = [@ EXCEPT !.menu = EntryOf(Cur).next, !.selected = 0,
                                                  !.num_entries = Size(EntryOf(Cur).next)]],
         stack_idx' = stack_idx + 1
  PROVE  /\ NavInv' /\ stack' \in [Level -> Frame] /\ stack_idx' \in Level
         /\ pool' \in [Node -> [cb : Apps \cup {Ui, None}, next : 0 .. MAX_HANDLERS]]
         /\ head' \in 0 .. MAX_HANDLERS
         /\ started' \in Seq(Launch)
<1> DEFINE e == EntryOf(Cur)
           h == [cb |-> e.cb, next |-> head]
<1>1. /\ stack \in [Level -> Frame] /\ stack_idx \in Level
      /\ pool \in [Node -> [cb : Apps \cup {Ui, None}, next : 0 .. MAX_HANDLERS]]
      /\ head \in 0 .. MAX_HANDLERS
  BY DEF TypeOK
<1>2. stack_idx \in Nat /\ 0 .. stack_idx \subseteq Level
  BY <1>1, LevelFacts
<1>3. /\ stack_idx + 1 \in Level
      /\ stack' \in [Level -> Frame]
      /\ \A i \in Level : i <= stack_idx => /\ stack'[i].menu = stack[i].menu
                                            /\ EntryOf(stack[i])' = EntryOf(stack[i])
      /\ stack'[stack_idx + 1].menu = EntryOf(Cur).next
      /\ \A i \in Level : stack'[i].evt_hdl_set = IF i = stack_idx THEN TRUE
                                                  ELSE stack[i].evt_hdl_set
      /\ MenuPath'
      /\ \A i \in 0 .. stack_idx + 1 : i <= Depth[stack'[i].menu]
      /\ \A j \in 0 .. stack_idx + 1 : \A i \in 0 .. j :
           AppDepth[stack'[i].menu] <= AppDepth[stack'[j].menu]
  BY EnterLevel, Zenon DEF SubMenu
<1>4. /\ e.cb \in Apps /\ Len(started) + 1 <= AppDepth[e.next]
      /\ head + 1 \in Node /\ head' = head + 1 /\ pool' = [pool EXCEPT ![head + 1] = h]
  BY AddHandler
<1>5. started \in Seq(Launch)
  BY DEF TypeOK
<1>6. PICK n \in Nat : n = Len(started)
  BY <1>5
<1>7. head = n + 1
  BY <1>6 DEF NavInv, HandlersMatchMenu
<1>8. /\ pool' \in [Node -> [cb : Apps \cup {Ui, None}, next : 0 .. MAX_HANDLERS]]
      /\ head' \in 0 .. MAX_HANDLERS
      /\ pool'[head + 1] = h
      /\ \A i \in Node : i # head + 1 => pool'[i] = pool[i]
  BY <1>1, <1>4 DEF Node
<1>9. /\ started' = Append(started, [cb |-> e.cb, at |-> stack_idx])
      /\ [cb |-> e.cb, at |-> stack_idx] \in Launch
  BY <1>1, <1>4, <1>8 DEF Start, Launch
<1>10. /\ started' \in Seq(Launch)
       /\ Len(started') = n + 1
       /\ started'[n + 1].cb = e.cb /\ started'[n + 1].at = stack_idx
       /\ \A k \in 1 .. n : started'[k] = started[k]
  BY <1>5, <1>6, <1>9
<1>11. \A k \in 1 .. n :
         /\ started[k].at \in 0 .. stack_idx - 1 /\ started[k].at + 1 \in 0 .. stack_idx
         /\ started[k].at \in Level /\ started[k].at <= stack_idx /\ started[k].at < stack_idx
         /\ started[k].at < stack_idx + 1
         /\ started[k].at + 1 \in Level /\ started[k].at + 1 <= stack_idx
  BY <1>2, <1>6, StartedLevels
<1>12. stack_idx \in Level /\ stack_idx <= stack_idx /\ stack_idx < stack_idx + 1
  BY <1>1, <1>2
<1>13. EntryOf(stack'[stack_idx]) = e
  BY <1>3, <1>12 DEF Cur
<1> HIDE DEF e, h
<1>14. \A k \in 1 .. n + 1 : k # n + 1 => k \in 1 .. n
  OBVIOUS
<1>15. StartedMatchesMenu'
  <2>1. ASSUME NEW k \in 1 .. n + 1
        PROVE  /\ started'[k].at < stack_idx + 1
               /\ EntryOf(stack'[started'[k].at]).type = "EVT_HDL"
               /\ started'[k].cb = EntryOf(stack'[started'[k].at]).cb
               /\ \A j \in 1 .. k - 1 : started'[j].at < started'[k].at
    <3>1. CASE k = n + 1
      <4>1. \A j \in 1 .. k - 1 : j \in 1 .. n
        BY <3>1
      <4>2. \A j \in 1 .. k - 1 : started'[j].at < stack_idx
        BY <1>10, <1>11, <4>1
      <4> QED
        BY <1>10, <1>12, <1>13, <3>1, <4>2 DEF e
    <3>2. CASE k # n + 1
      <4>1. k \in 1 .. n /\ \A j \in 1 .. k - 1 : j \in 1 .. n
        BY <1>14, <3>2
      <4>2. /\ EntryOf(stack[started[k].at]).type = "EVT_HDL"
            /\ started[k].cb = EntryOf(stack[started[k].at]).cb
            /\ \A j \in 1 .. k - 1 : started[j].at < started[k].at
        BY <1>6, <4>1 DEF NavInv, StartedMatchesMenu
      <4>3. started'[k] = started[k] /\ \A j \in 1 .. k - 1 : started'[j] = started[j]
        BY <1>10, <4>1
      <4>4. EntryOf(stack'[started[k].at]) = EntryOf(stack[started[k].at])
        BY <1>3, <1>11, <4>1
      <4>5. started[k].at < stack_idx + 1
        BY <1>11, <4>1
      <4> QED
        BY <4>2, <4>3, <4>4, <4>5
    <3> QED
      BY <3>1, <3>2
  <2>2. ASSUME NEW i \in 0 .. (stack_idx + 1) - 1, EntryOf(stack'[i]).type = "EVT_HDL"
        PROVE  \E k \in 1 .. n + 1 : started'[k].at = i
    <3>1. CASE i = stack_idx
      BY <1>10, <3>1
    <3>2. CASE i # stack_idx
      <4>1. i \in 0 .. stack_idx - 1 /\ i \in Level /\ i <= stack_idx
        BY <1>2, <3>2
      <4>2. PICK k \in 1 .. n : started[k].at = i
        BY <1>3, <1>6, <2>2, <4>1 DEF NavInv, StartedMatchesMenu
      <4> QED
        BY <1>10, <4>2
    <3> QED
      BY <3>1, <3>2
  <2> QED
    BY <1>10, <2>1, <2>2 DEF StartedMatchesMenu
<1>16. HandlersMatchMenu'
  <2>1. head' = n + 2
    BY <1>4, <1>7
  <2>2. pool'[1] = [cb |-> Ui, next |-> 0]
    <3>1. 1 \in Node /\ 1 # head + 1
      BY <1>7 DEF Node
    <3>2. pool[1] = [cb |-> Ui, next |-> 0]
      BY DEF NavInv, HandlersMatchMenu
    <3> QED
      BY <1>8, <3>1, <3>2
  <2>3. ASSUME NEW k \in 1 .. n + 1
        PROVE  pool'[k + 1] = [cb |-> started'[k].cb, next |-> k]
    <3>1. CASE k = n + 1
      BY <1>7, <1>8, <1>10, <3>1 DEF h
    <3>2. CASE k # n + 1
      <4>1. k \in 1 .. n
        BY <1>14, <3>2
      <4>2. n + 2 \in Node /\ head + 1 = n + 2
        BY <1>4, <1>7
      <4>3. k + 1 # head + 1 /\ k + 1 \in Node
        BY <4>1, <4>2 DEF Node
      <4>4. pool[k + 1] = [cb |-> started[k].cb, next |-> k]
        BY <1>6, <4>1 DEF NavInv, HandlersMatchMenu
      <4> QED
        BY <1>8, <1>10, <4>1, <4>3, <4>4
    <3> QED
      BY <3>1, <3>2
  <2>4. \A i \in Node : i > n + 2 => i # head + 1 /\ i > head
    BY <1>7 DEF Node
  <2>5. \A i \in Node : i > n + 2 => pool'[i].cb = None
    BY <1>8, <2>4 DEF NavInv, HandlersMatchMenu
  <2> QED
    BY <1>10, <2>1, <2>2, <2>3, <2>5 DEF HandlersMatchMenu
<1>17. LevelBounds'
  <2>1. ASSUME NEW k \in 1 .. n + 1
        PROVE  k <= AppDepth[stack'[started'[k].at + 1].menu]
    <3>1. CASE k = n + 1
      BY <1>3, <1>4, <1>6, <1>10, <3>1 DEF e
    <3>2. CASE k # n + 1
      <4>1. k \in 1 .. n
        BY <1>14, <3>2
      <4>2. k <= AppDepth[stack[started[k].at + 1].menu]
        BY <1>6, <4>1 DEF NavInv, LevelBounds
      <4>3. stack'[started[k].at + 1].menu = stack[started[k].at + 1].menu
        BY <1>3, <1>11, <4>1
      <4> QED
        BY <1>10, <4>1, <4>2, <4>3
    <3> QED
      BY <3>1, <3>2
  <2>2. ASSUME NEW i \in Level
        PROVE  stack'[i].evt_hdl_set <=> \E k \in 1 .. n + 1 : started'[k].at = i
    <3>1. CASE i = stack_idx
      <4>1. \E k \in 1 .. n + 1 : started'[k].at = i
        BY <1>10, <3>1
      <4>2. stack'[i].evt_hdl_set
        BY <1>3, <3>1
      <4> QED
        BY <4>1, <4>2
    <3>2. CASE i # stack_idx
      <4>1. stack'[i].evt_hdl_set = stack[i].evt_hdl_set
        BY <1>3, <3>2
      <4>2. stack[i].evt_hdl_set <=> \E k \in 1 .. n : started[k].at = i
        BY <1>6 DEF NavInv, LevelBounds
      <4>3. (\E k \in 1 .. n : started[k].at = i) <=> \E k \in 1 .. n + 1 : started'[k].at = i
        BY <1>10, <3>2
      <4> QED
        BY <4>1, <4>2, <4>3
    <3> QED
      BY <3>1, <3>2
  <2> QED
    BY <1>3, <1>10, <2>1, <2>2 DEF LevelBounds
<1> QED
  BY <1>3, <1>8, <1>10, <1>15, <1>16, <1>17 DEF NavInv

-----------------------------------------------------------------------------
\* The types of what a key may change.
KeyTypes ==
  /\ pool \in [Node -> [cb : Apps \cup {Ui, None}, next : 0 .. MAX_HANDLERS]]
  /\ head \in 0 .. MAX_HANDLERS
  /\ stack \in [Level -> Frame]
  /\ stack_idx \in Level
  /\ visible_lines \in {0, Visible}
  /\ drop \in [DOMAIN Drops -> [open : BOOLEAN, value : Nat]]
  /\ reg_addr \in {6 * n : n \in 0 .. 17}
  /\ power \in {"on", "released", "bootloader", "off"}
  /\ started \in Seq(Launch)

LEMMA CurFacts ==
  ASSUME IInv
  PROVE  /\ stack \in [Level -> Frame] /\ stack_idx \in Level /\ stack_idx \in Nat
         /\ Cur \in Frame /\ Cur.menu \in Menus
         /\ Cur.num_entries = Size(Cur.menu) /\ Size(Cur.menu) \in 0 .. 128
         /\ Cur.selected = 0 \/ Cur.selected < Cur.num_entries
         /\ stack_idx \in 0 .. stack_idx
<1>1. stack \in [Level -> Frame] /\ stack_idx \in Level
  BY DEF IInv, TypeOK
<1>2. stack_idx \in Nat /\ stack_idx \in 0 .. stack_idx
  BY <1>1, LevelFacts
<1> QED
  BY <1>1, <1>2, MenuSize DEF IInv, MenuPath, Cur

\* Redrawing the current menu with another selection, dropdown state or none.
LEMMA Redraw ==
  ASSUME IInv, NEW s \in 0 .. 127, s = 0 \/ s < Cur.num_entries, NEW drp,
         DrawMenu([stack EXCEPT ![stack_idx].selected = s], stack_idx, visible_lines, drp, screen),
         UNCHANGED <<handlers, started>>
  PROVE  NavInv' /\ stack' \in [Level -> Frame] /\ stack_idx' \in Level
         /\ visible_lines' = visible_lines /\ drop' = drp
<1> DEFINE stk == [stack EXCEPT ![stack_idx].selected = s]
<1>1. stk \in [Level -> Frame]
  <2>1. [stack[stack_idx] EXCEPT !.selected = s] \in Frame
    BY CurFacts DEF Cur, Frame
  <2> QED
    BY <2>1, CurFacts
<1>2. stk[stack_idx].menu = Cur.menu /\ stk[stack_idx].num_entries = Size(Cur.menu)
  BY CurFacts DEF Cur, Frame
<1>3. /\ stack' = [stk EXCEPT ![stack_idx].num_entries = Size(Cur.menu)]
      /\ stack_idx' = stack_idx /\ visible_lines' = visible_lines /\ drop' = drp
  <2> HIDE DEF stk
  <2>1. stk[stack_idx].menu \in Menus /\ stack_idx \in Level
        /\ stk[stack_idx].num_entries \in {0, Size(stk[stack_idx].menu)}
    BY <1>2, CurFacts
  <2>2. DrawMenu(stk, stack_idx, visible_lines, drp, screen)
    BY DEF stk
  <2> QED
    BY <1>1, <1>2, <2>1, <2>2, DrawMenuFacts
<1>4. [stk EXCEPT ![stack_idx].num_entries = Size(Cur.menu)] = stk
  <2>1. stk[stack_idx] = [stk[stack_idx] EXCEPT !.num_entries = Size(Cur.menu)]
    BY <1>1, <1>2, CurFacts DEF Frame
  <2> HIDE DEF stk
  <2> QED
    BY <1>1, <2>1, CurFacts
<1>5. stack' = stk
  BY <1>3, <1>4
<1> QED
  BY <1>3, <1>5, CurFacts, MoveSelection DEF IInv, NavInv

\* The same without a new selection.
LEMMA RedrawSame ==
  ASSUME IInv, NEW drp, DrawMenu(stack, stack_idx, visible_lines, drp, screen),
         UNCHANGED <<handlers, started>>
  PROVE  NavInv' /\ stack' \in [Level -> Frame] /\ stack_idx' \in Level
         /\ visible_lines' = visible_lines /\ drop' = drp
<1>1. [stack EXCEPT ![stack_idx].selected = Cur.selected] = stack
  <2>1. [stack[stack_idx] EXCEPT !.selected = Cur.selected] = stack[stack_idx]
    BY CurFacts DEF Frame, Cur
  <2> QED
    BY <2>1, CurFacts
<1>2. Cur.selected \in 0 .. 127
  BY CurFacts DEF Frame
<1> QED
  BY <1>1, <1>2, CurFacts, Redraw

\* The dropdown operations stay in the naturals.
LEMMA DropTypes ==
  ASSUME NEW d \in DOMAIN Drops, NEW v \in Nat
  PROVE  initialize(d, v) \in Nat /\ increment(d, v) \in Nat /\ decrement(d, v) \in Nat
<1>1. Drops[d].type \in {"ENUM", "NUM"} /\ Drops[d].min \in Nat /\ Drops[d].max \in Nat
  BY DropsAssumption
<1>2. CASE Drops[d].type = "ENUM"
  BY <1>1, <1>2 DEF initialize, increment, decrement
<1>3. CASE Drops[d].type = "NUM"
  BY <1>1, <1>3 DEF initialize, increment, decrement
<1> QED
  BY <1>1, <1>2, <1>3

LEMMA OpenDrop ==
  ASSUME IInv, EntryOf(Cur).type = "DROPDOWN"
  PROVE  EntryOf(Cur).drop \in DOMAIN Drops
<1>1. Cur.selected < Size(Cur.menu) /\ EntryOf(Cur) = Entries[Cur.menu][Cur.selected + 1]
  BY DEF EntryOf
<1>2. Cur.selected + 1 \in 1 .. Size(Cur.menu)
  <2>1. Cur.selected \in Nat
    BY CurFacts DEF Frame
  <2> QED
    BY <1>1, <2>1, CurFacts
<1>3. EntryOf(Cur) \in Entry
  BY <1>1, <1>2, CurFacts, MenuSize
<1> QED
  BY <1>3 DEF Entry

LEMMA SelectFacts ==
  ASSUME IInv, NEW s, s = SelectAbove(Cur) \/ s = SelectBelow(Cur)
  PROVE  s \in 0 .. 127 /\ (s = 0 \/ s < Cur.num_entries)
<1>1. Cur.selected \in 0 .. 127
  BY CurFacts DEF Frame
<1>2. PICK n \in 0 .. 128 : Cur.num_entries = n
  BY CurFacts
<1>3. Cur.selected = 0 \/ Cur.selected < n
  BY <1>2, CurFacts
<1> QED
  BY <1>1, <1>2, <1>3 DEF SelectAbove, SelectBelow

\* The level a menu is left to.
LEMMA ParentFacts ==
  ASSUME IInv, stack_idx # 0
  PROVE  /\ stack_idx > 0 /\ stack_idx - 1 \in Level /\ stack[stack_idx - 1] \in Frame
         /\ stack[stack_idx - 1].menu \in Menus
         /\ stack[stack_idx - 1].num_entries = Size(stack[stack_idx - 1].menu)
<1>1. stack_idx > 0 /\ stack_idx - 1 \in Level /\ stack_idx - 1 \in 0 .. stack_idx
  BY CurFacts, LevelFacts
<1> QED
  BY <1>1, CurFacts DEF IInv, MenuPath

LEMMA KeyUpInv == ASSUME IInv, KeyUp PROVE NavInv' /\ KeyTypes'
<1> USE DEF KeyUp, IInv, TypeOK
<1>1. CASE Open
  <2> DEFINE d == EntryOf(Cur).drop
             drp == [drop EXCEPT ![d].value = increment(d, @)]
  <2>1. d \in DOMAIN Drops
    BY <1>1, OpenDrop DEF Open
  <2>2. drp \in [DOMAIN Drops -> [open : BOOLEAN, value : Nat]]
    BY <2>1, DropTypes
  <2>3. DrawMenu(stack, stack_idx, visible_lines, drp, screen) /\ UNCHANGED <<handlers, reg_addr, power, started>>
    BY <1>1
  <2> HIDE DEF drp
  <2> QED
    BY <2>2, <2>3, RedrawSame DEF KeyTypes, handlers
<1>2. CASE ~ Open
  <2>1. SelectAbove(Cur) \in 0 .. 127 /\ (SelectAbove(Cur) = 0 \/ SelectAbove(Cur) < Cur.num_entries)
    BY SelectFacts
  <2> QED
    BY <1>2, <2>1, Redraw DEF KeyTypes, handlers
<1> QED
  BY <1>1, <1>2

LEMMA KeyDownInv == ASSUME IInv, KeyDown PROVE NavInv' /\ KeyTypes'
<1> USE DEF KeyDown, IInv, TypeOK
<1>1. CASE Open
  <2> DEFINE d == EntryOf(Cur).drop
             drp == [drop EXCEPT ![d].value = decrement(d, @)]
  <2>1. d \in DOMAIN Drops
    BY <1>1, OpenDrop DEF Open
  <2>2. drp \in [DOMAIN Drops -> [open : BOOLEAN, value : Nat]]
    BY <2>1, DropTypes
  <2>3. DrawMenu(stack, stack_idx, visible_lines, drp, screen) /\ UNCHANGED <<handlers, reg_addr, power, started>>
    BY <1>1
  <2> HIDE DEF drp
  <2> QED
    BY <2>2, <2>3, RedrawSame DEF KeyTypes, handlers
<1>2. CASE ~ Open
  <2>1. SelectBelow(Cur) \in 0 .. 127 /\ (SelectBelow(Cur) = 0 \/ SelectBelow(Cur) < Cur.num_entries)
    BY SelectFacts
  <2> QED
    BY <1>2, <2>1, Redraw DEF KeyTypes, handlers
<1> QED
  BY <1>1, <1>2

LEMMA DropdownInv == ASSUME IInv, CloseDropdown \/ OpenDropdown PROVE NavInv' /\ KeyTypes'
<1> DEFINE d == EntryOf(Cur).drop
<1> USE DEF IInv, TypeOK
<1>1. d \in DOMAIN Drops
  BY OpenDrop DEF CloseDropdown, OpenDropdown, Open
<1>2. ASSUME NEW drp \in [DOMAIN Drops -> [open : BOOLEAN, value : Nat]],
             DrawMenu(stack, stack_idx, visible_lines, drp, screen),
             UNCHANGED <<handlers, reg_addr, power, started>>
      PROVE  NavInv' /\ KeyTypes'
  BY <1>2, RedrawSame DEF KeyTypes, handlers
<1>3. CASE CloseDropdown
  <2>1. [drop EXCEPT ![d].open = FALSE] \in [DOMAIN Drops -> [open : BOOLEAN, value : Nat]]
    BY <1>1
  <2> QED
    BY <1>2, <1>3, <2>1 DEF CloseDropdown
<1>4. CASE OpenDropdown
  <2>1. [drop EXCEPT ![d] = [open |-> TRUE, value |-> initialize(d, @.value)]]
          \in [DOMAIN Drops -> [open : BOOLEAN, value : Nat]]
    BY <1>1, DropTypes
  <2> QED
    BY <1>2, <1>4, <2>1 DEF OpenDropdown
<1> QED
  BY <1>3, <1>4

LEMMA LeaveMenuInv == ASSUME IInv, LeaveMenu PROVE NavInv' /\ KeyTypes'
<1> USE DEF LeaveMenu
<1>0. KeyTypes
  BY DEF IInv, TypeOK, KeyTypes
<1>1. CASE stack_idx = 0
  BY <1>0, <1>1, RedrawSame DEF KeyTypes, handlers
<1> DEFINE up == stack_idx - 1
<1>2. ASSUME stack_idx # 0, NEW flag \in BOOLEAN, NEW lines,
             DrawMenu([stack EXCEPT ![up].evt_hdl_set = flag], up, lines, drop, screen)
      PROVE  /\ stack' = [stack EXCEPT ![up].evt_hdl_set = flag]
             /\ stack' \in [Level -> Frame]
             /\ stack_idx' = up /\ up \in Level /\ stack_idx > 0
             /\ visible_lines' = lines /\ drop' = drop
  <2> DEFINE stk == [stack EXCEPT ![up].evt_hdl_set = flag]
  <2>1. stack \in [Level -> Frame] /\ up \in Level /\ stack[up] \in Frame /\ stack_idx > 0
    BY <1>2, CurFacts, ParentFacts
  <2>2. stack[up].menu \in Menus /\ stack[up].num_entries = Size(stack[up].menu)
    BY <1>2, ParentFacts
  <2>3. stk \in [Level -> Frame] /\ stk[up].menu = stack[up].menu
        /\ stk[up].num_entries = Size(stack[up].menu)
    <3>1. [stack[up] EXCEPT !.evt_hdl_set = flag] \in Frame
      BY <2>1 DEF Frame
    <3> QED
      BY <2>1, <2>2, <3>1 DEF Frame
  <2> HIDE DEF stk, up
  <2>4. /\ stack' = [stk EXCEPT ![up].num_entries = Size(stack[up].menu)]
        /\ stack_idx' = up /\ visible_lines' = lines /\ drop' = drop
    <3>1. DrawMenu(stk, up, lines, drop, screen)
      BY <1>2 DEF stk
    <3> QED
      BY <2>1, <2>2, <2>3, <3>1, DrawMenuFacts
  <2>5. [stk EXCEPT ![up].num_entries = Size(stack[up].menu)] = stk
    <3>1. stk[up] = [stk[up] EXCEPT !.num_entries = Size(stack[up].menu)]
      BY <2>1, <2>3 DEF Frame
    <3> QED
      BY <2>1, <2>3, <3>1
  <2> QED
    BY <2>1, <2>3, <2>4, <2>5 DEF stk
<1>3. CASE stack_idx # 0 /\ ~ stack[up].evt_hdl_set
  <2>1. up \in Level /\ stack[up] \in Frame
    BY <1>3, ParentFacts
  <2>2. [stack EXCEPT ![up].evt_hdl_set = FALSE] = stack
    <3>1. [stack[up] EXCEPT !.evt_hdl_set = FALSE] = stack[up]
      BY <1>3, <2>1 DEF Frame
    <3> QED
      BY <2>1, <3>1, CurFacts
  <2>3. DrawMenu([stack EXCEPT ![up].evt_hdl_set = FALSE], up, visible_lines, drop, screen)
        /\ UNCHANGED <<handlers, started, reg_addr, power>>
    BY <1>3, <2>2
  <2>4. stack' = stack /\ stack_idx' = up /\ stack_idx > 0 /\ visible_lines' = visible_lines /\ drop' = drop
    BY <1>2, <1>3, <2>2, <2>3
  <2>5. NavInv'
    BY <1>3, <2>3, <2>4, LeaveBranch DEF IInv, NavInv
  <2> QED
    BY <1>0, <2>1, <2>3, <2>4, <2>5, CurFacts DEF KeyTypes, handlers
<1>4. CASE stack_idx # 0 /\ stack[up].evt_hdl_set
  <2>1. /\ Stop(StopTarget) /\ evt_handler_pophandler /\ UNCHANGED <<reg_addr, power>>
        /\ DrawMenu([stack EXCEPT ![up].evt_hdl_set = FALSE], up,
                    LinesAfter(StopTarget, FALSE), drop, screen)
    BY <1>4
  <2>2. /\ stack' = [stack EXCEPT ![up].evt_hdl_set = FALSE]
        /\ stack' \in [Level -> Frame]
        /\ stack_idx' = up /\ up \in Level /\ stack_idx > 0
        /\ visible_lines' = LinesAfter(StopTarget, FALSE) /\ drop' = drop
    BY <1>2, <1>4, <2>1
  <2>3. /\ NavInv' /\ head' \in 0 .. MAX_HANDLERS /\ started' \in Seq(Launch)
        /\ pool' \in [Node -> [cb : Apps \cup {Ui, None}, next : 0 .. MAX_HANDLERS]]
    BY <1>4, <2>1, <2>2, LeaveApp DEF IInv, NavInv
  <2>4. visible_lines' \in {0, Visible}
    BY <1>0, <2>2 DEF LinesAfter, KeyTypes
  <2> QED
    BY <1>0, <2>1, <2>2, <2>3, <2>4 DEF KeyTypes
<1> QED
  BY <1>1, <1>3, <1>4

LEMMA EnterMenuInv == ASSUME IInv, EnterMenu PROVE NavInv' /\ KeyTypes'
<1> DEFINE e == EntryOf(Cur)
           new(stk) == Entered(stk, stack_idx + 1, e.next)
           end(flag) == [stack EXCEPT
                           ![stack_idx].evt_hdl_set = flag,
                           ![stack_idx + 1] = [@ EXCEPT !.menu = e.next, !.selected = 0,
                                                        !.num_entries = Size(e.next)]]
<1>0. KeyTypes /\ TypeOK /\ NavInv
  BY DEF IInv, TypeOK, KeyTypes, NavInv
<1>1. SubMenu(e) /\ UNCHANGED power
  BY DEF EnterMenu
<1>2. /\ stack \in [Level -> Frame] /\ stack_idx \in Level /\ stack_idx # stack_idx + 1
      /\ stack[stack_idx] \in Frame /\ stack[stack_idx].evt_hdl_set \in BOOLEAN
  BY CurFacts DEF Frame
<1>3. stack_idx + 1 \in Level /\ e.next \in Menus /\ Size(e.next) \in 0 .. 128
  <2>1. e.next \in Menus /\ Depth[e.next] > Depth[Cur.menu]
    BY <1>1, CurFacts, EntryFacts
  <2>2. stack_idx <= Depth[Cur.menu]
    BY CurFacts DEF IInv, LevelBounds, Cur
  <2>3. Depth[e.next] \in 0 .. MAX_MENU_DEPTH - 1 /\ Depth[Cur.menu] \in 0 .. MAX_MENU_DEPTH - 1
    BY <2>1, CurFacts, TreeAssumption
  <2>4. Size(e.next) \in 0 .. 128
    BY <2>1, MenuSize
  <2> HIDE DEF e
  <2>5. stack_idx + 1 \in Level
    BY <2>1, <2>2, <2>3, CurFacts DEF Level
  <2> QED
    BY <2>1, <2>4, <2>5
<1>4. ASSUME NEW stk \in [Level -> Frame], NEW lines, NEW scr,
             DrawMenu(new(stk), stack_idx + 1, lines, drop, scr)
      PROVE  /\ stack' = [stk EXCEPT ![stack_idx + 1] = [@ EXCEPT !.menu = e.next, !.selected = 0,
                                                                 !.num_entries = Size(e.next)]]
             /\ stack_idx' = stack_idx + 1 /\ visible_lines' = lines /\ drop' = drop
  <2> DEFINE i == stack_idx + 1
             g == [stk[i] EXCEPT !.menu = e.next, !.selected = 0, !.num_entries = 0]
  <2>1. stk[i] \in Frame
    BY <1>3
  <2> HIDE DEF e, i
  <2>2. g \in Frame /\ g.menu = e.next /\ g.num_entries = 0
    <3>1. e.next \in Menus \cup {None} /\ 0 \in 0 .. 127 /\ 0 \in 0 .. 128
      BY <1>3
    <3> QED
      BY <2>1, <3>1, ZenonT(60) DEF Frame
  <2>3. [g EXCEPT !.num_entries = Size(e.next)]
          = [stk[i] EXCEPT !.menu = e.next, !.selected = 0, !.num_entries = Size(e.next)]
    BY <2>1 DEF Frame
  <2>4. new(stk) = [stk EXCEPT ![i] = g] /\ i \in Level
    BY <1>3 DEF Entered, i
  <2> HIDE DEF g
  <2>5. /\ new(stk) \in [Level -> Frame] /\ new(stk)[i].menu = e.next
        /\ new(stk)[i].num_entries = 0 /\ new(stk)[i] = g
    BY <2>2, <2>4
  <2> HIDE DEF new
  <2>6. /\ stack' = [new(stk) EXCEPT ![i].num_entries = Size(e.next)]
        /\ stack_idx' = i /\ visible_lines' = lines /\ drop' = drop
    <3>1. DrawMenu(new(stk), i, lines, drop, scr)
      BY <1>4 DEF i
    <3>2. new(stk)[i].menu \in Menus
          /\ new(stk)[i].num_entries \in {0, Size(new(stk)[i].menu)}
      BY <1>3, <2>5
    <3>3. /\ stack' = [new(stk) EXCEPT ![i].num_entries = Size(new(stk)[i].menu)]
          /\ stack_idx' = i /\ visible_lines' = lines /\ drop' = drop
      BY <2>4, <2>5, <3>1, <3>2, DrawMenuFacts
    <3> QED
      BY <2>5, <3>3
  <2>7. stack' = [stk EXCEPT ![i] = [g EXCEPT !.num_entries = Size(e.next)]]
    BY <2>4, <2>5, <2>6
  <2> QED
    BY <2>3, <2>6, <2>7 DEF i
<1>5. CASE e.type = "EVT_HDL"
  <2>1. /\ evt_handler_addhandler(e.cb)
        /\ Start(pool'[head'].cb)
        /\ DrawMenu(new([stack EXCEPT ![stack_idx].evt_hdl_set = TRUE]), stack_idx + 1,
                    LinesAfter(pool'[head'].cb, TRUE), drop, ScreenAfter(pool'[head'].cb, TRUE))
    BY <1>5 DEF EnterMenu
  <2>2. [stack EXCEPT ![stack_idx].evt_hdl_set = TRUE] \in [Level -> Frame]
    <3>1. [stack[stack_idx] EXCEPT !.evt_hdl_set = TRUE] \in Frame
      BY <1>2, ZenonT(60) DEF Frame
    <3> QED
      BY <1>2, <3>1
  <2>3. /\ stack' = end(TRUE)
        /\ stack_idx' = stack_idx + 1 /\ drop' = drop
        /\ visible_lines' = LinesAfter(pool'[head'].cb, TRUE)
    <3> DEFINE stk == [stack EXCEPT ![stack_idx].evt_hdl_set = TRUE]
    <3> HIDE DEF e, new
    <3>1. end(TRUE) = [stk EXCEPT ![stack_idx + 1] = [@ EXCEPT !.menu = e.next, !.selected = 0,
                                                               !.num_entries = Size(e.next)]]
      BY <1>2
    <3> HIDE DEF stk, end
    <3>2. stk \in [Level -> Frame] /\ DrawMenu(new(stk), stack_idx + 1,
                    LinesAfter(pool'[head'].cb, TRUE), drop, ScreenAfter(pool'[head'].cb, TRUE))
      BY <2>1, <2>2 DEF stk
    <3> QED
      BY <1>4, <3>1, <3>2
  <2>4. /\ NavInv' /\ stack' \in [Level -> Frame] /\ stack_idx' \in Level
        /\ pool' \in [Node -> [cb : Apps \cup {Ui, None}, next : 0 .. MAX_HANDLERS]]
        /\ head' \in 0 .. MAX_HANDLERS
        /\ started' \in Seq(Launch)
    BY <1>0, <1>5, <2>1, <2>3, EnterApp
  <2>5. visible_lines' \in {0, Visible}
    BY <1>0, <2>3 DEF LinesAfter, KeyTypes
  <2>6. reg_addr' \in {6 * n : n \in 0 .. 17}
    <3>1. 0 = 6 * 0 /\ 0 \in 0 .. 17
      OBVIOUS
    <3>2. 0 \in {6 * n : n \in 0 .. 17}
      BY <3>1
    <3> QED
      BY <1>0, <2>1, <3>2 DEF Start, KeyTypes
  <2> QED
    BY <1>0, <1>1, <2>3, <2>4, <2>5, <2>6 DEF KeyTypes
<1>6. CASE e.type = "BRANCH"
  <2>1. /\ UNCHANGED <<handlers, reg_addr, started>>
        /\ DrawMenu(new(stack), stack_idx + 1, visible_lines, drop, screen)
    BY <1>6 DEF EnterMenu
  <2>2. stack = [stack EXCEPT ![stack_idx].evt_hdl_set = stack[stack_idx].evt_hdl_set]
    <3>1. stack[stack_idx] = [stack[stack_idx] EXCEPT !.evt_hdl_set = stack[stack_idx].evt_hdl_set]
      BY <1>2 DEF Frame
    <3> QED
      BY <1>2, <3>1
  <2>3. /\ stack' = [stack EXCEPT ![stack_idx + 1] = [@ EXCEPT !.menu = e.next, !.selected = 0,
                                                            !.num_entries = Size(e.next)]]
        /\ stack_idx' = stack_idx + 1 /\ drop' = drop /\ visible_lines' = visible_lines
    <3> HIDE DEF e, new
    <3> QED
      BY <1>2, <1>4, <2>1
  <2>4. stack' = end(stack[stack_idx].evt_hdl_set)
    BY <2>2, <2>3
  <2>5. NavInv' /\ stack' \in [Level -> Frame] /\ stack_idx' \in Level
    BY <1>0, <1>6, <2>1, <2>3, <2>4, EnterBranch
  <2> QED
    BY <1>0, <1>1, <2>1, <2>3, <2>5 DEF KeyTypes, handlers
<1> QED
  BY <1>1, <1>5, <1>6 DEF SubMenu

LEMMA OtherKeysInv == ASSUME IInv, IgnoreRight \/ KeySelect PROVE NavInv' /\ KeyTypes'
<1>0. KeyTypes /\ TypeOK /\ NavInv
  BY DEF IInv, TypeOK, KeyTypes, NavInv
<1>1. ASSUME DrawMenu(stack, stack_idx, visible_lines, drop, screen),
             UNCHANGED <<handlers, reg_addr, started>>,
             power' \in {power, "released"}
      PROVE  NavInv' /\ KeyTypes'
  BY <1>0, <1>1, RedrawSame DEF KeyTypes, handlers
<1>2. ASSUME UNCHANGED <<handlers, levels, visible_lines, drop, reg_addr, started>>,
             power' = "bootloader"
      PROVE  NavInv' /\ KeyTypes'
  BY <1>0, <1>2, ZenonT(60) DEF KeyTypes, handlers, levels, NavInv, MenuPath, StartedMatchesMenu,
                    HandlersMatchMenu, LevelBounds, EntryOf
<1>3. CASE IgnoreRight
  BY <1>1, <1>3 DEF IgnoreRight
<1>4. CASE KeySelect
  BY <1>1, <1>2, <1>4 DEF KeySelect
<1> QED
  BY <1>3, <1>4

\* ui_event_notify: a key that reaches the menu keeps the invariant.
LEMMA UiInv == ASSUME IInv, ui_event_notify PROVE IInv'
<1>1. NavInv' /\ KeyTypes'
  BY KeyUpInv, KeyDownInv, DropdownInv, LeaveMenuInv, EnterMenuInv, OtherKeysInv
     DEF ui_event_notify, KeyHandler
<1>2. tmp' \in 0 .. MAX_HANDLERS /\ key' \in Key \cup {None}
  BY DEF ui_event_notify, Consume
<1>3. reg_addr' \in 0 .. 255
  BY <1>1 DEF KeyTypes
<1> QED
  BY <1>1, <1>2, <1>3 DEF IInv, NavInv, KeyTypes, TypeOK

\* Everything else leaves the stack, the applications and the handlers alone.
LEMMA OtherInv ==
  ASSUME IInv, (\E k \in Key : TakeKey(k)) \/ rf_event_notify \/ rf_debug_notify \/ PowerOff
  PROVE  IInv'
<1>0. KeyTypes /\ NavInv /\ tmp \in 0 .. MAX_HANDLERS /\ key \in Key \cup {None}
  BY DEF IInv, TypeOK, KeyTypes, NavInv
<1>1. UNCHANGED <<handlers, levels, started, visible_lines, drop>>
  BY DEF TakeKey, rf_event_notify, rf_debug_notify, PowerOff
<1>2. NavInv'
  BY <1>0, <1>1 DEF handlers, levels, NavInv, MenuPath, StartedMatchesMenu,
                    HandlersMatchMenu, LevelBounds, EntryOf
<1>3. reg_addr' \in {6 * n : n \in 0 .. 17}
  <2>1. PICK n \in 0 .. 17 : reg_addr = 6 * n
    BY <1>0 DEF KeyTypes
  <2>2. ScrollUp \in {6 * i : i \in 0 .. 17}
    <3>1. CASE n = 0
      BY <2>1, <3>1 DEF ScrollUp
    <3>2. CASE n # 0
      <4>1. n - 1 \in 0 .. 17 /\ ScrollUp = 6 * (n - 1)
        BY <2>1, <3>2 DEF ScrollUp
      <4> QED
        BY <4>1
    <3> QED
      BY <3>1, <3>2
  <2>3. ScrollDown \in {6 * i : i \in 0 .. 17}
    <3>1. CASE n = 17
      BY <2>1, <3>1 DEF ScrollDown
    <3>2. CASE n # 17
      <4>1. n + 1 \in 0 .. 17 /\ ScrollDown = 6 * (n + 1)
        BY <2>1, <3>2 DEF ScrollDown
      <4> QED
        BY <4>1
    <3> QED
      BY <3>1, <3>2
  <2>4. reg_addr' \in {reg_addr, ScrollUp, ScrollDown}
    BY DEF TakeKey, rf_event_notify, rf_debug_notify, PowerOff
  <2> QED
    BY <1>0, <2>2, <2>3, <2>4 DEF KeyTypes
<1>4. tmp' \in 0 .. MAX_HANDLERS
  <2>1. \A i \in 1 .. MAX_HANDLERS : pool[i].next \in 0 .. MAX_HANDLERS
    BY <1>0 DEF KeyTypes, Node
  <2>2. tmp' \in {0, head, tmp} \/ (tmp # 0 /\ tmp' = pool[tmp].next)
    BY DEF TakeKey, rf_event_notify, rf_debug_notify, PowerOff, Pass, Consume
  <2> QED
    BY <1>0, <2>1, <2>2 DEF KeyTypes
<1>5. key' \in Key \cup {None}
  BY <1>0 DEF TakeKey, rf_event_notify, rf_debug_notify, PowerOff, Pass, Consume
<1>6. power' \in {"on", "released", "bootloader", "off"}
  BY <1>0 DEF TakeKey, rf_event_notify, rf_debug_notify, PowerOff, KeyTypes
<1>7. reg_addr' \in 0 .. 255
  BY <1>3
<1> QED
  BY <1>0, <1>1, <1>2, <1>3, <1>4, <1>5, <1>6, <1>7
     DEF IInv, NavInv, KeyTypes, TypeOK, handlers, levels

LEMMA InitIInv == Init => IInv
<1> SUFFICES ASSUME Init PROVE IInv
  OBVIOUS
<1>1. 0 \in Level /\ 1 \in Node /\ Root \in Menus
  BY MenusAssumption DEF Level, Node
<1>2. Size(Root) \in 0 .. 128
  BY <1>1, MenuSize
<1>3. stack \in [Level -> Frame] /\ stack[0].menu = Root /\ stack[0].selected = 0
      /\ stack[0].num_entries = Size(Root) /\ \A i \in Level : ~ stack[i].evt_hdl_set
  <2>1. \A i \in Level : [menu |-> IF i = 0 THEN Root ELSE None,
                          num_entries |-> IF i = 0 THEN Size(Root) ELSE 0,
                          selected |-> 0, evt_hdl_set |-> FALSE] \in Frame
    BY <1>1, <1>2 DEF Frame
  <2> QED
    BY <1>1, <2>1 DEF Init
<1>4. started = <<>> /\ Len(started) = 0 /\ started \in Seq(Launch)
  BY DEF Init
<1>5. pool \in [Node -> [cb : Apps \cup {Ui, None}, next : 0 .. MAX_HANDLERS]]
  BY DEF Init
<1>6. drop \in [DOMAIN Drops -> [open : BOOLEAN, value : Nat]]
  BY DropsAssumption DEF Init
<1>7. reg_addr = 0 /\ 0 \in 0 .. 255 /\ 0 \in {6 * n : n \in 0 .. 17}
  <2>1. 0 = 6 * 0 /\ 0 \in 0 .. 17
    OBVIOUS
  <2> QED
    BY <2>1 DEF Init
<1>8. TypeOK
  <2>1. head \in 0 .. MAX_HANDLERS /\ tmp \in 0 .. MAX_HANDLERS
    BY DEF Init
  <2>2. stack_idx \in Level
    BY <1>1 DEF Init
  <2>3. visible_lines \in {0, Visible} /\ key \in Key \cup {None}
        /\ power \in {"on", "released", "bootloader", "off"}
    BY DEF Init
  <2> QED
    BY <1>3, <1>4, <1>5, <1>6, <1>7, <2>1, <2>2, <2>3 DEF TypeOK
<1>9. MenuPath
  BY <1>1, <1>3 DEF Init, MenuPath
<1>10. StartedMatchesMenu
  BY <1>4 DEF Init, StartedMatchesMenu
<1>11. HandlersMatchMenu
  BY <1>1, <1>4 DEF Init, HandlersMatchMenu, Node
<1>12. LevelBounds
  <2>1. Depth[Root] \in 0 .. MAX_MENU_DEPTH - 1 /\ AppDepth[Root] \in Int
    BY <1>1, TreeAssumption
  <2> QED
    BY <1>3, <1>4, <2>1 DEF Init, LevelBounds
<1> QED
  BY <1>7, <1>8, <1>9, <1>10, <1>11, <1>12 DEF IInv

LEMMA AlwaysIInv == Spec => []IInv
<1>1. IInv /\ [Next]_vars => IInv'
  <2> SUFFICES ASSUME IInv, [Next]_vars PROVE IInv'
    OBVIOUS
  <2>1. CASE Next
    BY <2>1, UiInv, OtherInv DEF Next
  <2>2. CASE UNCHANGED vars
    <3>1. TypeOK' /\ (reg_addr \in {6 * n : n \in 0 .. 17})'
      BY <2>2 DEF vars, handlers, levels, IInv, TypeOK
    <3>2. MenuPath' /\ StartedMatchesMenu'
      BY <2>2 DEF vars, handlers, levels, IInv, MenuPath, StartedMatchesMenu, EntryOf
    <3>3. HandlersMatchMenu' /\ LevelBounds'
      BY <2>2 DEF vars, handlers, levels, IInv, HandlersMatchMenu, LevelBounds
    <3> QED
      BY <3>1, <3>2, <3>3 DEF IInv
  <2> QED
    BY <2>1, <2>2
<1> QED
  BY InitIInv, <1>1, PTL DEF Spec

\* For every menu tree the stack, the handler pool and the indices of Menu.cpp
\* and evt_handler.cpp stay in their types: no push runs off stack[].
THEOREM TypeCorrect == Spec => []TypeOK
  BY AlwaysIInv, PTL DEF IInv

\* Menu.cpp: the levels always are the path of selections from the root, and
\* no level keeps the size of another menu.
THEOREM PathKept == Spec => []MenuPath
  BY AlwaysIInv, PTL DEF IInv

\* Menu.cpp, rf_*.cpp: the applications running are those the user has entered.
THEOREM ApplicationsMatch == Spec => []StartedMatchesMenu
  BY AlwaysIInv, PTL DEF IInv

\* evt_handler.cpp: however applications are entered and left, the list is the
\* started applications in front of the system handler, and no node leaks.
THEOREM HandlersMatch == Spec => []HandlersMatchMenu
  BY AlwaysIInv, PTL DEF IInv

\* rf_debug.cpp: no line of the dump reads past the last register.
THEOREM DumpInRange == Spec => []DumpStaysOnChip
<1>1. IInv => DumpStaysOnChip
  <2> SUFFICES ASSUME IInv, NEW l \in 1 .. 5
               PROVE  LET a == reg_addr + 6 * (l - 1) IN a + (IF a < 126 THEN 6 ELSE 2) - 1 <= 127
    BY DEF DumpStaysOnChip, LinesRead
  <2>1. PICK n \in 0 .. 17 : reg_addr = 6 * n
    BY DEF IInv
  <2>2. PICK q \in 0 .. 21 : reg_addr + 6 * (l - 1) = 6 * q
    <3>1. n + (l - 1) \in 0 .. 21 /\ reg_addr + 6 * (l - 1) = 6 * (n + (l - 1))
      BY <2>1
    <3> QED
      BY <3>1
  <2> QED
    BY <2>2
<1> QED
  BY <1>1, AlwaysIInv, PTL
-----------------------------------------------------------------------------
\* What is on the display at any time, between keys or not: the register dump,
\* when it is in front, with the menu kept from drawing; or else the menu.
IsRow(r) == r = [text |-> r.text, inverse |-> r.inverse, icon |-> r.icon]
Dumped(scr, a) ==
  \A l \in Line :
    /\ IsRow(scr[l])
    /\ scr[l].text = <<"reg", a + 6 * (l - 1)>> /\ ~ scr[l].inverse
    /\ scr[l].icon \in IF l = 1 THEN {"", "UP"} ELSE {""}
MenuOn == \E t \in 0 .. 127 : Cur.selected \in t .. t + Visible - 1 /\ ShowsFrom(t)
InFront == pool[head].cb \in RegDump
DisplayInv ==
  /\ OpenDropdownIsCurrent
  /\ visible_lines = IF InFront THEN 0 ELSE Visible
  /\ InFront => Dumped(screen, reg_addr)
  /\ ~ InFront => MenuOn

\* A register dump's menu is empty, so nothing is entered from it: the dump is
\* in front of every other handler.
LEMMA DumpInFront ==
  ASSUME TypeOK, NavInv, NEW i \in Node, pool[i].cb \in RegDump
  PROVE  i = head /\ Size(Cur.menu) = 0
<1>1. PICK n \in Nat : n = Len(started)
  BY StartedLevels
<1>2. head = n + 1
  BY <1>1 DEF NavInv, HandlersMatchMenu
<1>3. pool[i].cb \in Apps /\ pool[i].cb # Ui /\ pool[i].cb # None
  BY HandlersAssumption
<1>4. i # 1 /\ ~ (i > head)
  BY <1>3 DEF NavInv, HandlersMatchMenu
<1>5. PICK k \in 1 .. n : i = k + 1
  BY <1>2, <1>4 DEF Node
<1>6. pool[i].cb = started[k].cb
  <2>1. pool[k + 1] = [cb |-> started[k].cb, next |-> k]
    BY <1>1 DEF NavInv, HandlersMatchMenu
  <2> QED
    BY <1>5, <2>1
<1> DEFINE a == started[k].at
           f == stack[a]
<1>7. /\ a \in 0 .. stack_idx - 1 /\ a + 1 \in 0 .. stack_idx
      /\ \A j \in 1 .. n : started[j].at \in 0 .. stack_idx - 1
  BY <1>1, StartedLevels
<1>8. EntryOf(f).type = "EVT_HDL" /\ EntryOf(f).cb = started[k].cb
      /\ \A j \in 1 .. n : j > k => started[k].at < started[j].at
  <2>1. EntryOf(f).type = "EVT_HDL" /\ EntryOf(f).cb = started[k].cb
    BY <1>1 DEF NavInv, StartedMatchesMenu
  <2>2. \A j \in 1 .. n : j > k => k \in 1 .. j - 1
    OBVIOUS
  <2> QED
    BY <1>1, <2>1, <2>2 DEF NavInv, StartedMatchesMenu
<1>9. stack_idx \in Nat /\ stack_idx \in Level /\ 0 .. stack_idx \subseteq Level /\ stack \in [Level -> Frame]
  BY LevelFacts DEF TypeOK
<1>10. f \in Frame /\ f.menu \in Menus /\ stack[a + 1].menu = EntryOf(f).next
  <2>1. a \in 0 .. stack_idx
    BY <1>7, <1>9
  <2> QED
    BY <1>7, <1>9, <2>1 DEF NavInv, MenuPath
<1>11. Size(stack[a + 1].menu) = 0
  <2>1. f.selected < Size(f.menu) /\ EntryOf(f) = Entries[f.menu][f.selected + 1]
    BY <1>8 DEF EntryOf
  <2>2. f.selected \in Nat /\ Size(f.menu) \in Nat
    BY <1>10, MenuSize DEF Frame
  <2>3. f.selected + 1 \in 1 .. Len(Entries[f.menu])
    BY <2>1, <2>2 DEF Size
  <2> HIDE DEF f
  <2>4. EntryOf(f).cb \in RegDump
    BY <1>6, <1>8
  <2>5. Len(Entries[EntryOf(f).next]) = 0
    BY <1>8, <1>10, <2>1, <2>3, <2>4, ContentsAssumption
  <2> QED
    BY <1>10, <2>5 DEF Size
<1>12. stack[a + 1].selected \in Nat
  BY <1>7, <1>9 DEF Frame
<1>13. EntryOf(stack[a + 1]).type = "DUMMY"
  BY <1>11, <1>12 DEF EntryOf
<1>14. a + 1 = stack_idx
  <2>1. SUFFICES ASSUME a + 1 # stack_idx PROVE FALSE
    OBVIOUS
  <2>2. a + 1 \in 0 .. stack_idx - 1
    BY <1>7, <1>9, <2>1
  <2>3. SubMenu(EntryOf(stack[a + 1]))
    BY <2>2 DEF NavInv, MenuPath
  <2> QED
    BY <1>13, <2>3 DEF SubMenu
<1>15. k = n
  <2>1. SUFFICES ASSUME k # n PROVE FALSE
    OBVIOUS
  <2>2. n \in 1 .. n /\ n > k
    BY <2>1
  <2>3. started[n].at \in 0 .. stack_idx - 1 /\ a < started[n].at
    BY <1>7, <1>8, <2>2
  <2> QED
    BY <1>7, <1>9, <1>14, <2>3
<1> QED
  BY <1>2, <1>5, <1>11, <1>14, <1>15 DEF Cur

\* Every open dropdown is the one a frame has selected.
OpenIn(f, drp) ==
  \A d \in DOMAIN Drops : drp[d].open => EntryOf(f).type = "DROPDOWN" /\ EntryOf(f).drop = d

Iconed(r, i) == [r EXCEPT !.icon = i]

LEMMA IconFacts ==
  ASSUME NEW r, IsRow(r), NEW i
  PROVE  /\ IsRow(Iconed(r, i))
         /\ Iconed(r, i).text = r.text /\ Iconed(r, i).inverse = r.inverse /\ Iconed(r, i).icon = i
<1>1. DOMAIN r = {"text", "inverse", "icon"}
  BY DEF IsRow
<1>2. Iconed(r, i).text = r.text /\ Iconed(r, i).inverse = r.inverse /\ Iconed(r, i).icon = i
  BY <1>1 DEF Iconed
<1>3. Iconed(r, i) = [k \in {"text", "inverse", "icon"} |-> IF k = "icon" THEN i ELSE r[k]]
  BY <1>1 DEF Iconed
<1>4. IsRow(Iconed(r, i))
  BY <1>2, <1>3 DEF IsRow
<1> QED
  BY <1>2, <1>4

LEMMA EmptyRow ==
  ASSUME NEW r, r = Empty
  PROVE  IsRow(r) /\ r.icon = "" /\ r.text = <<>> /\ ~ r.inverse
<1>1. IsRow(r) /\ r.icon = ""
  BY DEF Empty, Row, IsRow
<1>2. r.text = <<>>
  BY DEF Empty, Row
<1>3. ~ r.inverse
  BY DEF Empty, Row
<1> QED
  BY <1>1, <1>2, <1>3

\* A screen shows the menu of a frame from entry t + 1 on.
Window(scr, f, t) ==
  LET n == Size(f.menu) IN
  /\ t \in 0 .. 127 /\ f.selected \in t .. t + Visible - 1
  /\ \A l \in Line :
       /\ scr[l].text = IF t + l <= n THEN <<f.menu, t + l>> ELSE <<>>
       /\ scr[l].inverse <=> t + l = f.selected + 1 /\ n > 0
       /\ scr[l].icon = "UP" <=> l = 1 /\ t > 0
       /\ scr[l].icon = "DOWN" <=> l = Visible /\ t + Visible < n

\* DrawVisible with all its lines shows a window of the menu.
LEMMA MenuDrawn ==
  ASSUME NEW f \in Frame, f.menu \in Menus, f.num_entries = Size(f.menu),
         f.selected = 0 \/ f.selected < f.num_entries,
         NEW drp, OpenIn(f, drp), NEW old
  PROVE  \E t : Window(DrawVisible(f, Visible, drp, old), f, t)
<1> DEFINE scr == DrawVisible(f, Visible, drp, old)
           n == Size(f.menu)
           t == Top(f.selected, Visible)
           below == f.num_entries >= Visible /\ t + Visible < f.num_entries
           entry(i) == EntryOf([f EXCEPT !.selected = t + i])
           inverse(i) == \/ t + i = f.selected
                         \/ entry(i).type = "DROPDOWN" /\ drp[entry(i).drop].open
           row(l) == IF l > Visible THEN old[l]
                     ELSE IF l > f.num_entries THEN Empty
                     ELSE Row(<<f.menu, t + l>>, inverse(l - 1), "")
<1>1. n \in 0 .. 128 /\ f.selected \in 0 .. 127 /\ f.num_entries = n
  BY MenuSize DEF Frame
<1>2. t \in 0 .. 127 /\ f.selected \in t .. t + Visible - 1
  BY <1>1 DEF Top
<1>3. \A l \in Line : l <= n => t + l <= n
  <2>1. t = 0 \/ (t = f.selected - Visible + 1 /\ f.selected < n)
    BY <1>1 DEF Top
  <2> HIDE DEF t, n
  <2> QED
    BY <1>1, <1>2, <2>1 DEF Line
<1>4. ASSUME NEW l \in Line
      PROVE  scr[l] = IF l = Visible /\ below THEN Iconed(row(l), "DOWN")
                      ELSE IF l = 1 /\ t > 0 THEN Iconed(row(l), "UP")
                      ELSE row(l)
  BY DEF DrawVisible, Iconed
<1>5. ASSUME NEW l \in Line, l <= n
      PROVE  inverse(l - 1) <=> t + l = f.selected + 1
  <2>1. t + l \in 1 .. n /\ t + (l - 1) = (t + l) - 1 /\ t + (l - 1) \in Nat /\ t + (l - 1) < n
    <3> HIDE DEF t, n
    <3> QED
      BY <1>1, <1>2, <1>3, <1>5 DEF Line
  <2>2. entry(l - 1) = Entries[f.menu][t + l]
    <3> DEFINE g == [f EXCEPT !.selected = t + (l - 1)]
    <3>1. g.selected = t + (l - 1) /\ g.menu = f.menu
      BY DEF Frame
    <3> HIDE DEF g, t, n
    <3>2. EntryOf(g) = Entries[f.menu][g.selected + 1]
      BY <2>1, <3>1 DEF EntryOf, n
    <3>3. g.selected + 1 = t + l
      BY <1>1, <1>2, <2>1, <3>1 DEF Line
    <3> QED
      BY <3>2, <3>3 DEF g
  <2>3. ASSUME entry(l - 1).type = "DROPDOWN", drp[entry(l - 1).drop].open
        PROVE  t + l = f.selected + 1
    <3> DEFINE d == entry(l - 1).drop
    <3>1. entry(l - 1) \in Entry
      BY <2>1, <2>2, MenuSize
    <3>2. d \in DOMAIN Drops
      BY <2>3, <3>1 DEF Entry
    <3>3. EntryOf(f).type = "DROPDOWN" /\ EntryOf(f).drop = d
      BY <2>3, <3>2 DEF OpenIn
    <3>4. f.selected < n /\ EntryOf(f) = Entries[f.menu][f.selected + 1]
      BY <3>3 DEF EntryOf
    <3>5. f.selected + 1 \in 1 .. n
      BY <1>1, <3>4, SMTT(30)
    <3> HIDE DEF t, entry
    <3> QED
      BY <2>1, <2>2, <2>3, <3>3, <3>4, <3>5, ContentsAssumption DEF Size
  <2> HIDE DEF entry, t
  <2> QED
    BY <1>1, <1>2, <2>1, <2>3 DEF Line
<1>6. ASSUME NEW l \in Line
      PROVE  /\ IsRow(row(l)) /\ row(l).icon = ""
             /\ row(l).text = IF t + l <= n THEN <<f.menu, t + l>> ELSE <<>>
             /\ row(l).inverse <=> t + l = f.selected + 1 /\ n > 0
  <2>0. ~ (l > Visible)
    BY DEF Line
  <2>1. CASE l > n
    <3>1. row(l) = Empty
      BY <1>1, <2>0, <2>1
    <3> HIDE DEF row, inverse, t, n
    <3>2. ~ (t + l <= n) /\ ~ (t + l = f.selected + 1 /\ n > 0)
      BY <1>1, <1>2, <2>1 DEF Line
    <3>3. IsRow(row(l)) /\ row(l).icon = "" /\ row(l).text = <<>> /\ ~ row(l).inverse
      BY <3>1, EmptyRow
    <3> QED
      BY <3>2, <3>3
  <2>2. CASE ~ (l > n)
    <3>1. row(l) = Row(<<f.menu, t + l>>, inverse(l - 1), "")
      BY <1>1, <2>0, <2>2, Zenon
    <3>2. PICK r : r = row(l)
      OBVIOUS
    <3> HIDE DEF row, entry, t
    <3>3. r = Row(<<f.menu, t + l>>, inverse(l - 1), "")
      BY <3>1, <3>2, Zenon
    <3>4. r.inverse <=> inverse(l - 1)
      BY <3>3 DEF Row
    <3>5. IsRow(r) /\ r.icon = "" /\ r.text = <<f.menu, t + l>>
      <4>1. IsRow(r)
        BY <3>3 DEF Row, IsRow
      <4>2. r.icon = ""
        BY <3>3 DEF Row
      <4>3. r.text = <<f.menu, t + l>>
        BY <3>3 DEF Row
      <4> QED
        BY <4>1, <4>2, <4>3
    <3> HIDE DEF inverse, n
    <3>6. l <= n /\ t + l <= n /\ n > 0
      BY <1>1, <1>3, <2>2 DEF Line
    <3>7. inverse(l - 1) <=> t + l = f.selected + 1
      BY <1>5, <3>6
    <3> QED
      BY <3>2, <3>4, <3>5, <3>6, <3>7
  <2> QED
    BY <2>1, <2>2
<1>7. below <=> t + Visible < n
  <2> HIDE DEF t, n
  <2> QED
    BY <1>1, <1>2
<1> HIDE DEF scr, below, t, n, row
<1>8. ASSUME NEW l \in Line
      PROVE  /\ scr[l].text = (IF t + l <= n THEN <<f.menu, t + l>> ELSE <<>>)
             /\ scr[l].inverse <=> t + l = f.selected + 1 /\ n > 0
             /\ scr[l].icon = "UP" <=> l = 1 /\ t > 0
             /\ scr[l].icon = "DOWN" <=> l = Visible /\ t + Visible < n
  <2> DEFINE icon == IF l = Visible /\ below THEN "DOWN" ELSE IF l = 1 /\ t > 0 THEN "UP" ELSE ""
  <2>1. scr[l].text = row(l).text /\ scr[l].inverse = row(l).inverse /\ scr[l].icon = icon
    <3>1. IsRow(row(l)) /\ row(l).icon = ""
      BY <1>6
    <3>2. \A i : /\ Iconed(row(l), i).text = row(l).text
                 /\ Iconed(row(l), i).inverse = row(l).inverse /\ Iconed(row(l), i).icon = i
      BY <3>1, IconFacts
    <3>3. CASE l = Visible /\ below
      <4>1. scr[l] = Iconed(row(l), "DOWN") /\ icon = "DOWN"
        BY <1>4, <3>3, Zenon
      <4> QED
        BY <3>2, <4>1, Zenon
    <3>4. CASE ~ (l = Visible /\ below) /\ l = 1 /\ t > 0
      <4>1. scr[l] = Iconed(row(l), "UP") /\ icon = "UP"
        BY <1>4, <3>4, Zenon
      <4> QED
        BY <3>2, <4>1, Zenon
    <3>5. CASE ~ (l = Visible /\ below) /\ ~ (l = 1 /\ t > 0)
      <4>1. scr[l] = row(l) /\ icon = ""
        BY <1>4, <3>5, Zenon
      <4> QED
        BY <3>1, <4>1, Zenon
    <3> QED
      BY <3>3, <3>4, <3>5, Zenon
  <2>2. ~ (l = 1 /\ l = Visible)
    OBVIOUS
  <2>3. /\ icon = "UP" <=> l = 1 /\ t > 0
        /\ icon = "DOWN" <=> l = Visible /\ t + Visible < n
    BY <1>7, <2>2
  <2> HIDE DEF icon
  <2> QED
    BY <1>6, <2>1, <2>3
<1>9. Window(scr, f, t)
  BY <1>2, <1>8 DEF Window, n
<1> QED
  BY <1>9 DEF scr

LEMMA DumpIsDumped == ASSUME NEW a PROVE Dumped(Dump(a), a)
<1> SUFFICES ASSUME NEW l \in Line
             PROVE  /\ IsRow(Dump(a)[l])
                    /\ Dump(a)[l].text = <<"reg", a + 6 * (l - 1)>> /\ ~ Dump(a)[l].inverse
                    /\ Dump(a)[l].icon \in IF l = 1 THEN {"", "UP"} ELSE {""}
  BY DEF Dumped
<1>1. PICK r : r = Dump(a)[l]
  OBVIOUS
<1>2. r = Row(<<"reg", a + 6 * (l - 1)>>, FALSE, "")
  BY <1>1 DEF Dump
<1>3. IsRow(r)
  BY <1>2 DEF Row, IsRow
<1>4. r.text = <<"reg", a + 6 * (l - 1)>>
  BY <1>2 DEF Row
<1>5. ~ r.inverse
  BY <1>2 DEF Row
<1>6. r.icon \in IF l = 1 THEN {"", "UP"} ELSE {""}
  BY <1>2 DEF Row
<1> QED
  BY <1>1, <1>3, <1>4, <1>5, <1>6, Zenon

\* With no lines at all, over an empty menu, it leaves a dump but for its icon.
LEMMA DumpDrawn ==
  ASSUME NEW f \in Frame, f.num_entries = 0, NEW drp, NEW old, NEW a, Dumped(old, a)
  PROVE  Dumped(DrawVisible(f, 0, drp, old), a)
<1> DEFINE scr == DrawVisible(f, 0, drp, old)
           top == Top(f.selected, 0)
<1>1. top \in Nat /\ top > 0
  BY DEF Top, Frame
<1>2. ~ (f.num_entries >= 0 /\ top + 0 < f.num_entries)
  BY <1>1
<1>3. \A l \in Line : scr[l] = IF l = 1 THEN Iconed(old[l], "UP") ELSE old[l]
  <2>1. \A l \in Line : l > 0
    BY DEF Line
  <2> QED
    BY <1>1, <1>2, <2>1 DEF DrawVisible, Iconed
<1> HIDE DEF scr
<1>4. ASSUME NEW l \in Line
      PROVE  /\ IsRow(scr[l])
             /\ scr[l].text = <<"reg", a + 6 * (l - 1)>> /\ ~ scr[l].inverse
             /\ scr[l].icon \in IF l = 1 THEN {"", "UP"} ELSE {""}
  <2>1. /\ IsRow(old[l])
        /\ old[l].text = <<"reg", a + 6 * (l - 1)>> /\ ~ old[l].inverse
        /\ old[l].icon \in IF l = 1 THEN {"", "UP"} ELSE {""}
    BY DEF Dumped
  <2>2. CASE l = 1
    <3>1. PICK r : r = Iconed(old[l], "UP")
      OBVIOUS
    <3>2. scr[l] = r
      BY <1>3, <2>2, <3>1
    <3>3. IsRow(r) /\ r.text = old[l].text /\ r.inverse = old[l].inverse /\ r.icon = "UP"
      BY <2>1, <3>1, IconFacts, Zenon
    <3>4. "UP" \in IF l = 1 THEN {"", "UP"} ELSE {""}
      BY <2>2
    <3> QED
      BY <2>1, <3>2, <3>3, <3>4, Zenon
  <2>3. CASE l # 1
    <3>1. scr[l] = old[l]
      BY <1>3, <2>3
    <3> QED
      BY <2>1, <3>1, Zenon
  <2> QED
    BY <2>2, <2>3
<1> QED
  BY <1>4 DEF Dumped, scr

\* The screen a key leaves is drawn, over scr, from the menu state it leaves.
Drawn(scr) == screen' = DrawVisible(Cur', visible_lines', drop', scr)

LEMMA DrawMenuDraws ==
  ASSUME NEW stk \in [Level -> Frame], NEW idx \in Level, NEW lines, NEW drp, NEW scr,
         DrawMenu(stk, idx, lines, drp, scr)
  PROVE  /\ Drawn(scr) /\ visible_lines' = lines /\ drop' = drp
         /\ EntryOf(Cur') = EntryOf(stk[idx])
<1> DEFINE n == stk[idx].num_entries
           f == [stk[idx] EXCEPT !.num_entries = IF n = 0 THEN Size(stk[idx].menu) ELSE n]
<1>1. /\ stack' = [stk EXCEPT ![idx] = f] /\ stack_idx' = idx
      /\ visible_lines' = lines /\ drop' = drp /\ screen' = DrawVisible(f, lines, drp, scr)
  BY DEF DrawMenu
<1>2. f.menu = stk[idx].menu /\ f.selected = stk[idx].selected
  BY DEF Frame
<1> HIDE DEF f
<1>3. Cur' = f
  BY <1>1 DEF Cur
<1>4. EntryOf(f) = EntryOf(stk[idx])
  BY <1>2 DEF EntryOf
<1> QED
  BY <1>1, <1>3, <1>4 DEF Drawn

\* The range a dropdown keeps its value in while it is open.
InRange(d, v) == v <= Drops[d].max /\ (Drops[d].type = "NUM" => v >= Drops[d].min)

LEMMA RangeKept ==
  ASSUME NEW d \in DOMAIN Drops, NEW v \in Nat
  PROVE  /\ InRange(d, initialize(d, v))
         /\ InRange(d, v) => InRange(d, increment(d, v)) /\ InRange(d, decrement(d, v))
<1>1. /\ Drops[d].type \in {"ENUM", "NUM"} /\ Drops[d].min \in Nat /\ Drops[d].max \in Nat
      /\ Drops[d].min <= Drops[d].max
  BY DropsAssumption
<1>2. CASE Drops[d].type = "ENUM"
  BY <1>1, <1>2 DEF InRange, initialize, increment, decrement
<1>3. CASE Drops[d].type = "NUM"
  BY <1>1, <1>3 DEF InRange, initialize, increment, decrement
<1> QED
  BY <1>1, <1>2, <1>3

LEMMA ClosedUnlessOpen ==
  ASSUME OpenDropdownIsCurrent, ~ Open, NEW d \in DOMAIN Drops
  PROVE  ~ drop[d].open
  BY DEF OpenDropdownIsCurrent, Open

\* The value of the selected dropdown changes within its range.
LEMMA ValueKept ==
  ASSUME IInv, OpenDropdownIsCurrent, NEW d \in DOMAIN Drops,
         EntryOf(Cur).type = "DROPDOWN", EntryOf(Cur).drop = d,
         NEW open \in BOOLEAN, NEW v \in Nat, open => InRange(d, v),
         drop' = [drop EXCEPT ![d] = [open |-> open, value |-> v]],
         EntryOf(Cur') = EntryOf(Cur)
  PROVE  OpenDropdownIsCurrent'
<1>1. drop \in [DOMAIN Drops -> [open : BOOLEAN, value : Nat]]
  BY DEF IInv, TypeOK
<1>2. drop'[d].open = open /\ drop'[d].value = v
      /\ \A c \in DOMAIN Drops : c # d => drop'[c] = drop[c]
  BY <1>1
<1>3. ASSUME NEW c \in DOMAIN Drops, drop'[c].open
      PROVE  EntryOf(Cur').type = "DROPDOWN" /\ EntryOf(Cur').drop = c /\ InRange(c, drop'[c].value)
  <2>1. CASE c = d
    BY <1>2, <1>3, <2>1
  <2>2. CASE c # d
    BY <1>2, <1>3, <2>2 DEF OpenDropdownIsCurrent, InRange
  <2> QED
    BY <2>1, <2>2
<1> QED
  BY <1>3 DEF OpenDropdownIsCurrent, InRange

\* What a key that reaches the menu leaves on the display.
Redrawn ==
  /\ OpenDropdownIsCurrent'
  /\ visible_lines' = IF InFront' THEN 0 ELSE Visible
  /\ \E scr : Drawn(scr) /\ (InFront' => Dumped(scr, reg_addr'))

LEMMA Kept ==
  ASSUME DisplayInv, UNCHANGED <<handlers, reg_addr, visible_lines>>, Drawn(screen),
         OpenDropdownIsCurrent'
  PROVE  Redrawn
<1>1. InFront' = InFront
  BY DEF InFront, handlers
<1>2. reg_addr' = reg_addr /\ visible_lines' = visible_lines
  OBVIOUS
<1>3. visible_lines = (IF InFront THEN 0 ELSE Visible) /\ (InFront => Dumped(screen, reg_addr))
  BY DEF DisplayInv
<1> HIDE DEF Drawn, Dumped, InFront
<1> QED
  BY <1>1, <1>2, <1>3 DEF Redrawn

LEMMA DropRecord ==
  ASSUME NEW r \in [open : BOOLEAN, value : Nat], NEW v
  PROVE  r.open => [r EXCEPT !.value = v] = [open |-> TRUE, value |-> v]
<1>1. DOMAIN r = {"open", "value"} /\ r.open \in BOOLEAN
  OBVIOUS
<1>2. [r EXCEPT !.value = v] = [open |-> r.open, value |-> v]
  <2>1. DOMAIN r = {"open", "value"}
    BY <1>1
  <2> QED
    BY <2>1
<1>3. r.open => r.open = TRUE
  BY <1>1, Zenon
<1> QED
  BY <1>2, <1>3, Zenon

\* The keys that leave the handlers, the level and the lines as they are.
LEMMA UpDownRedrawn == ASSUME IInv, DisplayInv, KeyUp \/ KeyDown PROVE Redrawn
<1> DEFINE d == EntryOf(Cur).drop
<1>1. /\ stack \in [Level -> Frame] /\ stack_idx \in Level
      /\ drop \in [DOMAIN Drops -> [open : BOOLEAN, value : Nat]]
  BY DEF IInv, TypeOK
<1>2. OpenDropdownIsCurrent
  BY DEF DisplayInv
<1>3. UNCHANGED <<handlers, reg_addr>>
  BY DEF KeyUp, KeyDown
<1>4. CASE Open
  <2>1. d \in DOMAIN Drops /\ EntryOf(Cur).type = "DROPDOWN" /\ drop[d].open
    BY <1>4, OpenDrop DEF Open
  <2>2. drop[d].value \in Nat /\ InRange(d, drop[d].value)
    BY <1>1, <1>2, <2>1 DEF OpenDropdownIsCurrent, InRange
  <2>3. ASSUME NEW v \in Nat, InRange(d, v),
               DrawMenu(stack, stack_idx, visible_lines, [drop EXCEPT ![d].value = v], screen)
        PROVE  Redrawn
    <3>1. /\ Drawn(screen) /\ visible_lines' = visible_lines
          /\ drop' = [drop EXCEPT ![d].value = v] /\ EntryOf(Cur') = EntryOf(Cur)
      BY <1>1, <2>3, DrawMenuDraws DEF Cur
    <3>2. [drop EXCEPT ![d].value = v] = [drop EXCEPT ![d] = [open |-> TRUE, value |-> v]]
      <4>1. [drop[d] EXCEPT !.value = v] = [open |-> TRUE, value |-> v]
        <5>1. drop[d] \in [open : BOOLEAN, value : Nat]
          BY <1>1, <2>1
        <5> QED
          BY <2>1, <5>1, DropRecord
      <4> QED
        BY <1>1, <4>1
    <3>3. OpenDropdownIsCurrent'
      <4>1. drop' = [drop EXCEPT ![d] = [open |-> TRUE, value |-> v]]
        BY <3>1, <3>2
      <4> HIDE DEF d
      <4>2. EntryOf(Cur).drop = d
        BY DEF d
      <4> QED
        BY <1>2, <2>1, <2>3, <3>1, <4>1, <4>2, ValueKept
    <3> QED
      BY <1>3, <3>1, <3>3, Kept
  <2>4. /\ increment(d, drop[d].value) \in Nat /\ InRange(d, increment(d, drop[d].value))
        /\ decrement(d, drop[d].value) \in Nat /\ InRange(d, decrement(d, drop[d].value))
    BY <2>1, <2>2, DropTypes, RangeKept
  <2>5. CASE KeyUp
    BY <1>4, <2>3, <2>4, <2>5 DEF KeyUp
  <2>6. CASE KeyDown
    BY <1>4, <2>3, <2>4, <2>6 DEF KeyDown
  <2> QED
    BY <2>5, <2>6
<1>5. CASE ~ Open
  <2>1. ASSUME NEW s \in 0 .. 127,
               DrawMenu([stack EXCEPT ![stack_idx].selected = s], stack_idx, visible_lines, drop, screen)
        PROVE  Redrawn
    <3> DEFINE stk == [stack EXCEPT ![stack_idx].selected = s]
    <3>1. stk \in [Level -> Frame]
      <4>1. [stack[stack_idx] EXCEPT !.selected = s] \in Frame
        BY <1>1 DEF Frame
      <4> QED
        BY <1>1, <4>1
    <3> HIDE DEF stk
    <3>2. Drawn(screen) /\ visible_lines' = visible_lines /\ drop' = drop
      <4>1. DrawMenu(stk, stack_idx, visible_lines, drop, screen)
        BY <2>1 DEF stk
      <4> QED
        BY <1>1, <3>1, <4>1, DrawMenuDraws
    <3>3. OpenDropdownIsCurrent'
      BY <1>2, <1>5, <3>2, ClosedUnlessOpen DEF OpenDropdownIsCurrent
    <3> QED
      BY <1>3, <3>2, <3>3, Kept
  <2>2. CASE KeyUp
    <3>1. SelectAbove(Cur) \in 0 .. 127
      BY SelectFacts
    <3> QED
      BY <1>5, <2>1, <2>2, <3>1 DEF KeyUp
  <2>3. CASE KeyDown
    <3>1. SelectBelow(Cur) \in 0 .. 127
      BY SelectFacts
    <3> QED
      BY <1>5, <2>1, <2>3, <3>1 DEF KeyDown
  <2> QED
    BY <2>2, <2>3
<1> QED
  BY <1>4, <1>5

LEMMA DropdownRedrawn == ASSUME IInv, DisplayInv, CloseDropdown \/ OpenDropdown PROVE Redrawn
<1> DEFINE d == EntryOf(Cur).drop
<1>1. /\ stack \in [Level -> Frame] /\ stack_idx \in Level
      /\ drop \in [DOMAIN Drops -> [open : BOOLEAN, value : Nat]]
  BY DEF IInv, TypeOK
<1>2. OpenDropdownIsCurrent
  BY DEF DisplayInv
<1>3. UNCHANGED <<handlers, reg_addr>> /\ EntryOf(Cur).type = "DROPDOWN"
  BY DEF CloseDropdown, OpenDropdown, Open
<1>4. d \in DOMAIN Drops /\ drop[d].value \in Nat
  BY <1>1, <1>3, OpenDrop
<1>5. ASSUME NEW open \in BOOLEAN, NEW v \in Nat, open => InRange(d, v),
             DrawMenu(stack, stack_idx, visible_lines,
                      [drop EXCEPT ![d] = [open |-> open, value |-> v]], screen)
      PROVE  Redrawn
  <2>1. /\ Drawn(screen) /\ visible_lines' = visible_lines
        /\ drop' = [drop EXCEPT ![d] = [open |-> open, value |-> v]]
        /\ EntryOf(Cur') = EntryOf(Cur)
    BY <1>1, <1>5, DrawMenuDraws DEF Cur
  <2>2. EntryOf(Cur).drop = d
    OBVIOUS
  <2> HIDE DEF d
  <2>3. OpenDropdownIsCurrent'
    BY <1>2, <1>3, <1>4, <1>5, <2>1, <2>2, ValueKept
  <2> QED
    BY <1>3, <2>1, <2>3, Kept
<1>6. CASE CloseDropdown
  <2>1. DrawMenu(stack, stack_idx, visible_lines, [drop EXCEPT ![d].open = FALSE], screen)
    BY <1>6 DEF CloseDropdown
  <2>2. /\ Drawn(screen) /\ visible_lines' = visible_lines
        /\ drop' = [drop EXCEPT ![d].open = FALSE]
    BY <1>1, <2>1, DrawMenuDraws
  <2>3. ~ drop'[d].open /\ \A c \in DOMAIN Drops : c # d => drop'[c] = drop[c]
    BY <1>1, <1>4, <2>2
  <2>4. \A c \in DOMAIN Drops : ~ drop'[c].open
    BY <1>2, <2>3 DEF OpenDropdownIsCurrent
  <2>5. OpenDropdownIsCurrent'
    BY <2>4 DEF OpenDropdownIsCurrent
  <2> QED
    BY <1>3, <2>2, <2>5, Kept
<1>7. CASE OpenDropdown
  <2>1. initialize(d, drop[d].value) \in Nat /\ InRange(d, initialize(d, drop[d].value))
    BY <1>4, DropTypes, RangeKept
  <2>2. DrawMenu(stack, stack_idx, visible_lines,
                 [drop EXCEPT ![d] = [open |-> TRUE, value |-> initialize(d, drop[d].value)]], screen)
    BY <1>1, <1>4, <1>7 DEF OpenDropdown
  <2> QED
    BY <1>5, <2>1, <2>2
<1> QED
  BY <1>6, <1>7

LEMMA OtherKeysRedrawn ==
  ASSUME IInv, DisplayInv, DrawMenu(stack, stack_idx, visible_lines, drop, screen),
         UNCHANGED <<handlers, reg_addr>>
  PROVE  Redrawn
<1>1. stack \in [Level -> Frame] /\ stack_idx \in Level /\ OpenDropdownIsCurrent
  BY DEF IInv, TypeOK, DisplayInv
<1>2. /\ Drawn(screen) /\ visible_lines' = visible_lines /\ drop' = drop
      /\ EntryOf(Cur') = EntryOf(Cur)
  BY <1>1, DrawMenuDraws DEF Cur
<1>3. OpenDropdownIsCurrent'
  BY <1>1, <1>2 DEF OpenDropdownIsCurrent
<1> QED
  BY <1>2, <1>3, Kept

\* Leaving a menu: nothing is open, and a register dump that is left gives the
\* menu its lines back, as another handler comes to the front.
LEMMA LeaveRedrawn == ASSUME IInv, DisplayInv, LeaveMenu PROVE Redrawn
<1> DEFINE up == stack_idx - 1
<1>1. /\ stack \in [Level -> Frame] /\ stack_idx \in Level /\ TypeOK /\ NavInv
      /\ pool \in [Node -> [cb : Apps \cup {Ui, None}, next : 0 .. MAX_HANDLERS]]
      /\ head \in 0 .. MAX_HANDLERS
  BY DEF IInv, TypeOK, NavInv
<1>2. ~ Open /\ UNCHANGED reg_addr
  BY DEF LeaveMenu
<1>3. \A d \in DOMAIN Drops : ~ drop[d].open
  BY <1>2, ClosedUnlessOpen DEF DisplayInv
<1>4. ASSUME drop' = drop PROVE OpenDropdownIsCurrent'
  BY <1>3, <1>4 DEF OpenDropdownIsCurrent
<1>5. CASE stack_idx = 0
  <2>1. DrawMenu(stack, stack_idx, visible_lines, drop, screen) /\ UNCHANGED handlers
    BY <1>5 DEF LeaveMenu
  <2> QED
    BY <1>2, <2>1, OtherKeysRedrawn
<1>6. CASE stack_idx # 0 /\ ~ stack[up].evt_hdl_set
  <2>1. DrawMenu(stack, up, visible_lines, drop, screen) /\ UNCHANGED handlers
    BY <1>6 DEF LeaveMenu
  <2>2. up \in Level
    BY <1>6, ParentFacts
  <2>3. Drawn(screen) /\ visible_lines' = visible_lines /\ drop' = drop
    <3> HIDE DEF up
    <3> QED
      BY <1>1, <2>1, <2>2, DrawMenuDraws
  <2> QED
    BY <1>2, <1>4, <2>1, <2>3, Kept
<1>7. CASE stack_idx # 0 /\ stack[up].evt_hdl_set
  <2>1. /\ Stop(StopTarget) /\ evt_handler_pophandler
        /\ DrawMenu([stack EXCEPT ![up].evt_hdl_set = FALSE], up,
                    LinesAfter(StopTarget, FALSE), drop, screen)
    BY <1>7 DEF LeaveMenu
  <2>2. up \in Level /\ [stack EXCEPT ![up].evt_hdl_set = FALSE] \in [Level -> Frame]
    <3>1. up \in Level /\ stack[up] \in Frame
      BY <1>7, ParentFacts
    <3>2. [stack[up] EXCEPT !.evt_hdl_set = FALSE] \in Frame
      BY <3>1, ZenonT(60) DEF Frame
    <3> QED
      BY <1>1, <3>1, <3>2
  <2>3. Drawn(screen) /\ visible_lines' = LinesAfter(StopTarget, FALSE) /\ drop' = drop
    <3> DEFINE stk == [stack EXCEPT ![up].evt_hdl_set = FALSE]
    <3>1. stk \in [Level -> Frame] /\ DrawMenu(stk, up, LinesAfter(StopTarget, FALSE), drop, screen)
      BY <2>1, <2>2
    <3> HIDE DEF stk, up
    <3> QED
      BY <2>2, <3>1, DrawMenuDraws
  <2>4. visible_lines' = Visible
    BY <2>3 DEF LinesAfter, StopTarget, DisplayInv, InFront
  <2>5. ~ InFront'
    <3>1. PICK n \in Nat : n = Len(started)
      BY <1>1, StartedLevels
    <3>2. n >= 1
      <4>1. up \in Level /\ \E k \in 1 .. n : started[k].at = up
        BY <1>1, <1>7, <2>2, <3>1 DEF NavInv, LevelBounds
      <4> QED
        BY <4>1
    <3>3. head = n + 1 /\ pool[n + 1].next = n /\ n + 1 \in Node /\ n \in Node
      <4>1. head = n + 1
        BY <1>1, <3>1 DEF NavInv, HandlersMatchMenu
      <4>2. pool[n + 1] = [cb |-> started[n].cb, next |-> n]
        BY <1>1, <3>1, <3>2 DEF NavInv, HandlersMatchMenu
      <4>3. n + 1 \in Node /\ n \in Node
        BY <1>1, <3>2, <4>1 DEF Node
      <4> QED
        BY <4>1, <4>2, <4>3
    <3>4. pool' = [pool EXCEPT ![n + 1].cb = None] /\ head' = n
      BY <2>1, <3>3 DEF evt_handler_pophandler
    <3>5. pool'[n] = pool[n]
      BY <1>1, <3>3, <3>4
    <3>6. pool[n].cb \notin RegDump
      BY <1>1, <3>3, DumpInFront
    <3> QED
      BY <3>4, <3>5, <3>6 DEF InFront
  <2>6. OpenDropdownIsCurrent'
    BY <1>4, <2>3
  <2> HIDE DEF InFront
  <2> QED
    BY <2>3, <2>4, <2>5, <2>6 DEF Redrawn
<1> QED
  BY <1>5, <1>6, <1>7

\* Entering one: not from an open dropdown, nor from a dump's empty menu.
LEMMA EnterRedrawn == ASSUME IInv, DisplayInv, EnterMenu PROVE Redrawn
<1> DEFINE e == EntryOf(Cur)
           i == stack_idx + 1
<1>1. /\ stack \in [Level -> Frame] /\ stack_idx \in Level /\ TypeOK /\ NavInv
      /\ pool \in [Node -> [cb : Apps \cup {Ui, None}, next : 0 .. MAX_HANDLERS]]
      /\ head \in 0 .. MAX_HANDLERS
  BY DEF IInv, TypeOK, NavInv
<1>2. SubMenu(e)
  BY DEF EnterMenu
<1>3. \A d \in DOMAIN Drops : ~ drop[d].open
  BY <1>2 DEF DisplayInv, OpenDropdownIsCurrent, SubMenu
<1>4. ASSUME drop' = drop PROVE OpenDropdownIsCurrent'
  BY <1>3, <1>4 DEF OpenDropdownIsCurrent
<1>5. i \in Level /\ e.next \in Menus
  <2>1. e.next \in Menus /\ Depth[e.next] > Depth[Cur.menu]
    BY <1>2, CurFacts, EntryFacts
  <2>2. stack_idx <= Depth[Cur.menu]
    BY CurFacts DEF IInv, LevelBounds, Cur
  <2>3. Depth[e.next] \in 0 .. MAX_MENU_DEPTH - 1 /\ Depth[Cur.menu] \in 0 .. MAX_MENU_DEPTH - 1
    BY <2>1, CurFacts, TreeAssumption
  <2> HIDE DEF e
  <2> QED
    BY <2>1, <2>2, <2>3, CurFacts DEF Level
<1>6. ASSUME NEW stk \in [Level -> Frame], NEW lines, NEW scr,
             DrawMenu(Entered(stk, i, e.next), i, lines, drop, scr)
      PROVE  Drawn(scr) /\ visible_lines' = lines /\ drop' = drop
  <2> DEFINE new == Entered(stk, i, e.next)
             g == [stk[i] EXCEPT !.menu = e.next, !.selected = 0, !.num_entries = 0]
  <2> HIDE DEF e, i
  <2>1. stk[i] \in Frame /\ e.next \in Menus \cup {None} /\ 0 \in 0 .. 127 /\ 0 \in 0 .. 128
    BY <1>5
  <2>2. g \in Frame
    BY <2>1, ZenonT(60) DEF Frame
  <2>3. new = [stk EXCEPT ![i] = g]
    BY <1>5 DEF Entered
  <2> HIDE DEF g
  <2>4. new \in [Level -> Frame]
    BY <2>2, <2>3
  <2> HIDE DEF new
  <2>5. DrawMenu(new, i, lines, drop, scr)
    BY <1>6 DEF new
  <2> QED
    BY <1>5, <2>4, <2>5, DrawMenuDraws
<1>7. CASE e.type = "EVT_HDL"
  <2> DEFINE stk == [stack EXCEPT ![stack_idx].evt_hdl_set = TRUE]
             cb == pool'[head'].cb
  <2>1. /\ evt_handler_addhandler(e.cb) /\ Start(cb)
        /\ DrawMenu(Entered(stk, i, e.next), i, LinesAfter(cb, TRUE), drop, ScreenAfter(cb, TRUE))
    BY <1>7 DEF EnterMenu
  <2>2. stk \in [Level -> Frame]
    <3>1. stack[stack_idx] \in Frame
      BY <1>1
    <3>2. [stack[stack_idx] EXCEPT !.evt_hdl_set = TRUE] \in Frame
      BY <3>1, ZenonT(60) DEF Frame
    <3> QED
      BY <1>1, <3>2
  <2> HIDE DEF stk
  <2>3. Drawn(ScreenAfter(cb, TRUE)) /\ visible_lines' = LinesAfter(cb, TRUE) /\ drop' = drop
    <3> HIDE DEF cb, e, i
    <3> QED
      BY <1>6, <2>1, <2>2
  <2>4. ~ InFront
    <3>1. Size(Cur.menu) # 0
      <4>1. Cur.selected < Size(Cur.menu) /\ Cur.selected \in Nat
        BY <1>2, CurFacts, EntryFacts DEF Frame
      <4> QED
        BY <4>1
    <3>2. head \in Node
      <4>1. Len(started) \in Nat /\ head = Len(started) + 1
        BY <1>1, StartedLevels DEF NavInv, HandlersMatchMenu
      <4> QED
        BY <1>1, <4>1 DEF Node
    <3> QED
      BY <1>1, <3>1, <3>2, DumpInFront DEF InFront
  <2>5. visible_lines' = IF InFront' THEN 0 ELSE Visible
    BY <2>3, <2>4 DEF LinesAfter, DisplayInv, InFront
  <2>6. InFront' => Dumped(ScreenAfter(cb, TRUE), reg_addr')
    <3>1. SUFFICES ASSUME cb \in RegDump PROVE Dumped(ScreenAfter(cb, TRUE), reg_addr')
      BY DEF InFront
    <3>2. reg_addr' = 0 /\ ScreenAfter(cb, TRUE) = Dump(0)
      BY <2>1, <3>1 DEF Start, ScreenAfter
    <3> QED
      BY <3>2, DumpIsDumped
  <2> HIDE DEF InFront
  <2> QED
    BY <1>4, <2>3, <2>5, <2>6 DEF Redrawn
<1>8. CASE e.type = "BRANCH"
  <2>1. /\ UNCHANGED <<handlers, reg_addr>>
        /\ DrawMenu(Entered(stack, i, e.next), i, visible_lines, drop, screen)
    BY <1>8 DEF EnterMenu
  <2>2. Drawn(screen) /\ visible_lines' = visible_lines /\ drop' = drop
    <3> HIDE DEF e, i
    <3> QED
      BY <1>1, <1>6, <2>1
  <2> QED
    BY <1>4, <2>1, <2>2, Kept
<1> QED
  BY <1>2, <1>7, <1>8 DEF SubMenu

\* What DrawVisible needs of the frame it draws.
FrameOK ==
  /\ Cur \in Frame /\ Cur.menu \in Menus
  /\ Cur.num_entries = Size(Cur.menu)
  /\ Cur.selected = 0 \/ Cur.selected < Cur.num_entries
  /\ InFront => Cur.num_entries = 0

LEMMA FrameFits == IInv => FrameOK
<1> SUFFICES ASSUME IInv PROVE FrameOK
  OBVIOUS
<1>1. TypeOK /\ NavInv /\ head \in 0 .. MAX_HANDLERS
  BY DEF IInv, TypeOK, NavInv
<1>2. head \in Node
  <2>1. Len(started) \in Nat /\ head = Len(started) + 1
    BY <1>1, StartedLevels DEF NavInv, HandlersMatchMenu
  <2> QED
    BY <1>1, <2>1 DEF Node
<1>3. InFront => Size(Cur.menu) = 0
  BY <1>1, <1>2, DumpInFront DEF InFront
<1> QED
  BY <1>3, CurFacts DEF FrameOK

\* A screen drawn from the current frame is what the invariant says it is.
LEMMA ShownMenu ==
  ASSUME FrameOK, OpenDropdownIsCurrent, NEW scr,
         screen = DrawVisible(Cur, Visible, drop, scr)
  PROVE  MenuOn
<1>1. PICK f : f = Cur
  OBVIOUS
<1>2. /\ f \in Frame /\ f.menu \in Menus /\ f.num_entries = Size(f.menu)
      /\ f.selected = 0 \/ f.selected < f.num_entries
  BY <1>1 DEF FrameOK
<1>3. OpenIn(f, drop)
  BY <1>1 DEF OpenIn, OpenDropdownIsCurrent
<1>4. screen = DrawVisible(f, Visible, drop, scr)
  BY <1>1
<1>5. PICK t : Window(screen, f, t)
  BY <1>2, <1>3, <1>4, MenuDrawn
<1> QED
  BY <1>1, <1>5 DEF MenuOn, ShowsFrom, Window

\* The same, as one formula of a state.
ScreenDrawn == \E scr : screen = DrawVisible(Cur, visible_lines, drop, scr)
                        /\ (InFront => Dumped(scr, reg_addr))
LinesFit == visible_lines = IF InFront THEN 0 ELSE Visible

LEMMA ShownAll == FrameOK /\ OpenDropdownIsCurrent /\ LinesFit /\ ScreenDrawn => DisplayInv
<1> SUFFICES ASSUME FrameOK, OpenDropdownIsCurrent, LinesFit, ScreenDrawn PROVE DisplayInv
  OBVIOUS
<1>1. PICK scr : screen = DrawVisible(Cur, visible_lines, drop, scr)
                 /\ (InFront => Dumped(scr, reg_addr))
  BY DEF ScreenDrawn
<1>2. CASE InFront
  <2>1. Cur \in Frame /\ Cur.num_entries = 0 /\ screen = DrawVisible(Cur, 0, drop, scr)
        /\ Dumped(scr, reg_addr)
    BY <1>1, <1>2 DEF FrameOK, LinesFit
  <2>2. Dumped(screen, reg_addr)
    BY <2>1, DumpDrawn
  <2> QED
    BY <1>2, <2>2 DEF DisplayInv, LinesFit
<1>3. CASE ~ InFront
  <2>1. screen = DrawVisible(Cur, Visible, drop, scr)
    BY <1>1, <1>3 DEF LinesFit
  <2>2. MenuOn
    BY <2>1, ShownMenu
  <2> QED
    BY <1>3, <2>2 DEF DisplayInv, LinesFit
<1> QED
  BY <1>2, <1>3

LEMMA UiDisplay == ASSUME IInv, DisplayInv, ui_event_notify PROVE DisplayInv'
<1>1. FrameOK'
  <2>1. IInv'
    BY UiInv
  <2> QED
    BY <2>1, FrameFits, PTL
<1>2. CASE Redrawn
  <2>1. OpenDropdownIsCurrent' /\ LinesFit'
    BY <1>2 DEF Redrawn, LinesFit
  <2>2. ScreenDrawn'
    <3>1. PICK scr : Drawn(scr) /\ (InFront' => Dumped(scr, reg_addr'))
      BY <1>2 DEF Redrawn
    <3> QED
      BY <3>1 DEF Drawn, ScreenDrawn
  <2> QED
    BY <1>1, <2>1, <2>2, ShownAll, PTL
<1>3. CASE UNCHANGED <<handlers, levels, visible_lines, drop, reg_addr, screen>>
  BY <1>3 DEF handlers, levels, DisplayInv, OpenDropdownIsCurrent, InFront, Dumped, MenuOn,
              ShowsFrom, Cur, EntryOf
<1>4. Redrawn \/ UNCHANGED <<handlers, levels, visible_lines, drop, reg_addr, screen>>
  <2>1. CASE KeyUp \/ KeyDown
    BY <2>1, UpDownRedrawn
  <2>2. CASE CloseDropdown \/ OpenDropdown
    BY <2>2, DropdownRedrawn
  <2>3. CASE LeaveMenu
    BY <2>3, LeaveRedrawn
  <2>4. CASE EnterMenu
    BY <2>4, EnterRedrawn
  <2>5. CASE IgnoreRight
    BY <2>5, OtherKeysRedrawn DEF IgnoreRight
  <2>6. CASE KeySelect
    <3>1. UNCHANGED <<handlers, reg_addr>>
          /\ \/ DrawMenu(stack, stack_idx, visible_lines, drop, screen)
             \/ UNCHANGED <<levels, visible_lines, drop, screen>>
      BY <2>6 DEF KeySelect
    <3> QED
      BY <3>1, OtherKeysRedrawn
  <2> QED
    BY <2>1, <2>2, <2>3, <2>4, <2>5, <2>6 DEF ui_event_notify, KeyHandler
<1> QED
  BY <1>2, <1>3, <1>4

\* The dump draws itself only while it is in front.
LEMMA OtherDisplay ==
  ASSUME IInv, DisplayInv,
         (\E k \in Key : TakeKey(k)) \/ rf_event_notify \/ rf_debug_notify \/ PowerOff
  PROVE  DisplayInv'
<1>1. UNCHANGED <<handlers, levels, visible_lines, drop>>
  BY DEF TakeKey, rf_event_notify, rf_debug_notify, PowerOff
<1>2. CASE UNCHANGED <<reg_addr, screen>>
  BY <1>1, <1>2 DEF handlers, levels, DisplayInv, OpenDropdownIsCurrent, InFront, Dumped, MenuOn,
                    ShowsFrom, Cur, EntryOf
<1>3. CASE rf_debug_notify /\ screen' = Dump(reg_addr')
  <2>1. TypeOK /\ NavInv /\ tmp \in Node /\ pool[tmp].cb \in RegDump
    BY <1>3 DEF IInv, NavInv, TypeOK, rf_debug_notify, Node
  <2>2. InFront
    BY <2>1, DumpInFront DEF InFront
  <2>3. InFront' /\ OpenDropdownIsCurrent' /\ visible_lines' = 0
    BY <1>1, <2>2 DEF handlers, levels, DisplayInv, OpenDropdownIsCurrent, InFront, Cur, EntryOf
  <2>4. Dumped(screen', reg_addr')
    BY <1>3, DumpIsDumped
  <2> QED
    BY <2>3, <2>4 DEF DisplayInv
<1>4. UNCHANGED <<reg_addr, screen>> \/ (rf_debug_notify /\ screen' = Dump(reg_addr'))
  BY DEF TakeKey, rf_event_notify, rf_debug_notify, PowerOff
<1> QED
  BY <1>2, <1>3, <1>4

LEMMA InitDisplay == Init => DisplayInv
<1> SUFFICES ASSUME Init PROVE DisplayInv
  OBVIOUS
<1>1. FrameOK
  BY InitIInv, FrameFits
<1>2. OpenDropdownIsCurrent
  <2>1. \A d \in DOMAIN Drops : drop[d].open \in {FALSE}
    BY DEF Init
  <2>2. \A d \in DOMAIN Drops : ~ drop[d].open
    BY <2>1, Zenon
  <2> QED
    BY <2>2 DEF OpenDropdownIsCurrent
<1>3. ~ InFront
  <2>1. pool[head].cb = Ui
    BY DEF Init, Node
  <2> QED
    BY <2>1, HandlersAssumption DEF InFront
<1>4. LinesFit
  BY <1>3 DEF Init, LinesFit
<1>5. ScreenDrawn
  <2>1. screen = DrawVisible(Cur, visible_lines, drop, [l \in Line |-> Empty])
    BY DEF Init, Cur
  <2> QED
    BY <1>3, <2>1 DEF ScreenDrawn
<1> QED
  BY <1>1, <1>2, <1>4, <1>5, ShownAll

LEMMA AlwaysDisplay == Spec => []DisplayInv
<1>1. IInv /\ DisplayInv /\ [Next]_vars => DisplayInv'
  <2> SUFFICES ASSUME IInv, DisplayInv, [Next]_vars PROVE DisplayInv'
    OBVIOUS
  <2>1. CASE Next
    BY <2>1, UiDisplay, OtherDisplay DEF Next
  <2>2. CASE UNCHANGED vars
    BY <2>2 DEF vars, handlers, levels, DisplayInv, OpenDropdownIsCurrent, InFront, Dumped, MenuOn,
                ShowsFrom, Cur, EntryOf
  <2> QED
    BY <2>1, <2>2
<1> QED
  BY InitDisplay, AlwaysIInv, <1>1, PTL DEF Spec

\* MenuEntry.cpp: at most one dropdown is open, the selected entry's, and its
\* value is in range: the one text buffer is never shared.
THEOREM OneDropdownOpen == Spec => []OpenDropdownIsCurrent
  BY AlwaysDisplay, PTL DEF DisplayInv

\* Menu.cpp: for every menu and number of lines, the display shows a window of
\* the current menu with the selected entry in it, and the icons tell truly of
\* entries above and below.
THEOREM MenuShown == Spec => []ScreenShowsMenu
<1>1. IInv /\ DisplayInv => ScreenShowsMenu
  <2> SUFFICES ASSUME IInv, DisplayInv, \A k \in 1 .. Len(started) : started[k].cb \notin RegDump
               PROVE  MenuOn
    BY DEF ScreenShowsMenu, MenuOn
  <2>1. TypeOK /\ NavInv
    BY DEF IInv, NavInv
  <2>2. PICK n \in Nat : n = Len(started)
    BY <2>1, StartedLevels
  <2>3. head = n + 1
    BY <2>1, <2>2 DEF NavInv, HandlersMatchMenu
  <2>4. ~ InFront
    <3>1. CASE n = 0
      <4>1. pool[head].cb = Ui
        BY <2>1, <2>3, <3>1 DEF NavInv, HandlersMatchMenu
      <4> QED
        BY <4>1, HandlersAssumption DEF InFront
    <3>2. CASE n # 0
      <4>1. pool[n + 1] = [cb |-> started[n].cb, next |-> n] /\ n \in 1 .. Len(started)
        BY <2>1, <2>2, <3>2 DEF NavInv, HandlersMatchMenu
      <4> QED
        BY <2>3, <4>1 DEF InFront
    <3> QED
      BY <3>1, <3>2
  <2> QED
    BY <2>4 DEF DisplayInv
<1> QED
  BY <1>1, AlwaysIInv, AlwaysDisplay, PTL

\* rf_debug.cpp: while it is in front, the dump stays on the display, whatever
\* keys it leaves to the menu below.
THEOREM DumpStaysShown == Spec => []DumpShown
<1>1. DisplayInv => DumpShown
  BY DEF DisplayInv, InFront, Dumped, DumpShown
<1> QED
  BY <1>1, AlwaysDisplay, PTL
=============================================================================
