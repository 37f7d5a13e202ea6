----------------------------- MODULE ImtTables -----------------------------
(***************************************************************************)
(* Constant data of the imt multi-touch driver (src/imt.c): the channel   *)
(* indices WMT_TIP_SWITCH .. WMT_TOOL_Y with their aliases, and the       *)
(* wmt_hid_map table that gives every channel its HID usage, its evdev    *)
(* event code and whether a multi-touch digitizer must have it.  HID      *)
(* usages and evdev codes are abstracted to their names: the driver only  *)
(* ever compares them for equality.                                       *)
(***************************************************************************)
EXTENDS Naturals

\* Channel indices of the anonymous enum in imt.c.
WMT_TIP_SWITCH  == 0
WMT_WIDTH       == 1
WMT_HEIGHT      == 2
WMT_ORIENTATION == 3
WMT_X           == 4
WMT_Y           == 5
WMT_CONTACTID   == 6
WMT_PRESSURE    == 7
WMT_IN_RANGE    == 8
WMT_CONFIDENCE  == 9
WMT_TOOL_X      == 10
WMT_TOOL_Y      == 11
WMT_N_USAGES    == 12

\* The aliases: the slot number is stored over the tip switch, the touch
\* major and minor over the width and the height.
WMT_SLOT  == WMT_TIP_SWITCH
WMT_MAJOR == WMT_WIDTH
WMT_MINOR == WMT_HEIGHT

Usages == 0 .. WMT_N_USAGES - 1

WMT_NO_USAGE == "NO_USAGE"
WMT_NO_CODE  == "NO_CODE"

\* wmt_hid_map: channel -> [usage, code, required].  WMT_TOOL_X and
\* WMT_TOOL_Y share the HID usage of WMT_X and WMT_Y.
wmt_hid_map ==
  LET row(u, c, r) == [usage |-> u, code |-> c, required |-> r]
      tbl == << row("TIP_SWITCH",  "ABS_MT_SLOT",        TRUE),
                row("WIDTH",       "ABS_MT_TOUCH_MAJOR", FALSE),
                row("HEIGHT",      "ABS_MT_TOUCH_MINOR", FALSE),
                row(WMT_NO_USAGE,  "ABS_MT_ORIENTATION", FALSE),
                row("X",           "ABS_MT_POSITION_X",  TRUE),
                row("Y",           "ABS_MT_POSITION_Y",  TRUE),
                row("CONTACTID",   "ABS_MT_TRACKING_ID", TRUE),
                row("TIP_PRESSURE","ABS_MT_PRESSURE",    FALSE),
                row("IN_RANGE",    "ABS_MT_DISTANCE",    FALSE),
                row("CONFIDENCE",  WMT_NO_CODE,          FALSE),
                row("X",           "ABS_MT_TOOL_X",      FALSE),
                row("Y",           "ABS_MT_TOOL_Y",      FALSE) >>
  IN [i \in Usages |-> tbl[i + 1]]

\* The channels a valid multi-touch descriptor must provide.
RequiredUsages == {i \in Usages : wmt_hid_map[i].required}

\* The device types wmt_hid_parse returns: the HID usages of the touch
\* screen and touch pad application collections.
HUD_TOUCHSCREEN == 4
HUD_TOUCHPAD    == 5

\* enum imt_input_mode
IMT_INPUT_MODE_MOUSE          == 0
IMT_INPUT_MODE_MT_TOUCHSCREEN == 2
IMT_INPUT_MODE_MT_TOUCHPAD    == 3
=============================================================================
