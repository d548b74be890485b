--------------------------- MODULE MCMenuSystem ---------------------------
(* A tree like the shipped one (ui.cpp:71), with what the Menu             *)
(* class offers beyond it: a menu longer than the display, dropdowns, a    *)
(* plain branch and an application inside an application.                  *)
EXTENDS MenuSystem

EvtHdl(m, h) == [type |-> "EVT_HDL", next |-> m, cb |-> h]
Branch(m) == [type |-> "BRANCH", next |-> m, cb |-> None]
Exec(e) == [type |-> "EXEC", exec |-> e]
DropDown(d) == [type |-> "DROPDOWN", drop |-> d]
Dummy == [type |-> "DUMMY"]

MenuApps == {"rf_event_notify", "rf_debug_notify"}

RichMenus == {"m_root", "m_app", "m_rf_debug", "m_sub"}
RichEntries ==
  [m \in RichMenus |->
     CASE m = "m_root" -> <<EvtHdl("m_app", "rf_event_notify"), DropDown("num"), Branch("m_sub"),
                            DropDown("enum"), Exec("returns"), Dummy, Exec("shutdown")>>
       [] m = "m_app" -> <<Branch("m_sub"), EvtHdl("m_rf_debug", "rf_debug_notify")>>
       [] m = "m_rf_debug" -> <<>>
       [] m = "m_sub" -> <<Exec("bootloader"), EvtHdl("m_rf_debug", "rf_debug_notify"), Dummy>>]
RichDepth == [m \in RichMenus |-> CASE m = "m_root" -> 0 [] m = "m_app" -> 1
                                    [] m = "m_sub" -> 2 [] m = "m_rf_debug" -> 3]
RichAppDepth == [m \in RichMenus |-> CASE m = "m_root" -> 0 [] m = "m_rf_debug" -> 2 [] OTHER -> 1]
RichDrops == [d \in {"num", "enum"} |->
                IF d = "num" THEN [type |-> "NUM", min |-> 1, max |-> 3]
                             ELSE [type |-> "ENUM", min |-> 0, max |-> 1]]
=============================================================================
