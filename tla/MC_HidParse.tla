---------------------------- MODULE MC_HidParse ----------------------------
(***************************************************************************)
(* Descriptors for model checking HidParse, built the way Windows-        *)
(* compatible multi-touch descriptors are laid out: a touch screen or     *)
(* touch pad top-level collection with one logical FINGER collection per  *)
(* physical contact, Contact Count and Scan Time inputs, a Contact Count  *)
(* Maximum and a certificate feature, and an optional configuration      *)
(* collection with the Input Mode feature before or after it.  The       *)
(* variations cover the channel sets of a finger (a required one         *)
(* missing, confidence and width/height, the shared X and Y usages),     *)
(* one or two fingers, a second finger in another report, Contact Count  *)
(* Maximum 0, 1 and above MAX_MT_SLOTS, and its feature report id.       *)
(***************************************************************************)
EXTENDS HidParse

Coll(l, u, r) == [kind |-> "collection", level |-> l, usage |-> u, rid |-> r,
                  abs |-> FALSE, lmin |-> 0, lmax |-> 0, pos |-> 0, size |-> 0,
                  count |-> 0]
End(l, r) == [Coll(l, "NONE", r) EXCEPT !.kind = "endcollection"]
Data(k, l, u, r, lm) == [kind |-> k, level |-> l, usage |-> u, rid |-> r,
                         abs |-> TRUE, lmin |-> 0, lmax |-> lm, pos |-> 0,
                         size |-> 8, count |-> 1]

\* Positions: every data item follows the earlier ones of its kind and report.
WithPos(d) ==
  [j \in 1 .. Len(d) |->
     [d[j] EXCEPT !.pos = 8 * Cardinality({k \in 1 .. j - 1 :
         d[k].kind = d[j].kind /\ d[k].rid = d[j].rid})]]

Finger(r, us, lm) ==
  <<Coll(2, "FINGER", r)>> \o [k \in 1 .. Len(us) |-> Data("input", 2, us[k], r, lm)]
    \o <<End(1, r)>>

FingerUsages ==
  { <<"TIP_SWITCH", "CONTACTID", "X", "Y">>,
    <<"TIP_SWITCH", "CONFIDENCE", "CONTACTID", "X", "Y", "WIDTH", "HEIGHT">>,
    <<"TIP_SWITCH", "CONTACTID", "X", "X", "Y", "Y">>,
    <<"TIP_SWITCH", "X", "Y">> }

TouchTLC(tu, fingers, cm, cmr) ==
  <<Coll(1, tu, 1)>> \o fingers \o
  << Data("input", 1, "CONTACTCOUNT", 1, 10),
     Data("input", 1, "SCAN_TIME", 1, 65535),
     Data("feature", 1, "CONTACT_MAX", cmr, cm),
     Data("feature", 1, "THQA_CERT", 3, 255),
     End(0, 1) >>

ConfigTLC ==
  << Coll(1, "CONFIG", 4), Coll(2, "FINGER", 4),
     Data("feature", 2, "INPUT_MODE", 4, 10), End(1, 4), End(0, 4) >>

FingerSets ==
  {Finger(1, u0, 100) : u0 \in FingerUsages}
    \cup {Finger(1, u0, 100) \o Finger(r1, u1, 200) :
            u0 \in FingerUsages, u1 \in FingerUsages, r1 \in {1, 2}}

MCDescriptors ==
  {WithPos(pp[1] \o TouchTLC(tu, f, cm, cmr) \o pp[2]) :
     pp \in {<<ConfigTLC, <<>>>>, <<<<>>, ConfigTLC>>, <<<<>>, <<>>>>},
     tu \in {"TOUCHSCREEN", "TOUCHPAD"}, f \in FingerSets,
     cm \in {0, 1, 3}, cmr \in {1, 2}}

\* More finger collections than MAX_MT_SLOTS (here 2).
FullFinger == <<"TIP_SWITCH", "CONTACTID", "X", "Y">>
MCTooManyFingers ==
  {WithPos(TouchTLC("TOUCHSCREEN",
     Finger(1, FullFinger, 100) \o Finger(1, FullFinger, 100)
       \o Finger(1, FullFinger, 100), cm, 1)) : cm \in {0, 3}}

\* The first finger's items precede the Report ID global (report id 0).
MCReportIdZero ==
  {WithPos(TouchTLC("TOUCHSCREEN",
     Finger(0, FullFinger, 100) \o Finger(1, FullFinger, 100), 2, 1))}

\* A vendor collection after the configuration collection that reuses the
\* Input Mode usage.
VendorTLC ==
  << Coll(1, "VENDOR", 5), Data("feature", 1, "INPUT_MODE", 5, 10), End(0, 5) >>
MCModeOutsideConfig ==
  {WithPos(ConfigTLC \o TouchTLC("TOUCHPAD", Finger(1, FullFinger, 100), 2, 1)
             \o VendorTLC)}

\* A finger whose X item declares a zero report size (a zero-width field).
MCZeroSizeX ==
  {WithPos(TouchTLC("TOUCHSCREEN",
     << Coll(2, "FINGER", 1), Data("input", 2, "TIP_SWITCH", 1, 1),
        Data("input", 2, "CONTACTID", 1, 1),
        [Data("input", 2, "X", 1, 100) EXCEPT !.size = 0],
        Data("input", 2, "Y", 1, 100), End(1, 1) >>, 2, 1))}
=============================================================================
