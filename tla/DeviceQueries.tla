----------------------------- MODULE DeviceQueries -----------------------------
(***************************************************************************)
(* The queries of a Device: the loops that enumerate formats, frame sizes  *)
(* and frame intervals (src/video/macros.rs), the loop that enumerates     *)
(* controls and the items of menus, reading and writing of controls        *)
(* (src/device.rs), and the expansion of a frame size that the application *)
(* got (src/framesize.rs).  The Device keeps no state; the driver does.    *)
(*                                                                         *)
(* One step is one system call with what the code does until the next one. *)
(***************************************************************************)
EXTENDS Integers, Sequences, SequencesExt, Functions

CONSTANTS
  Devices,     \* the lists of controls that a device may have
  MaxEntries,  \* bound: entries of a table, less one for each control
  MaxWrites,   \* bound: controls in a call of set_controls
  Numbers,     \* what the application writes to controls: integers, contents
  Ranges,      \* of the widths, or heights, of a frame size
  Word,        \* 2^32: 32-bit controls hold -Word/2 .. Word/2-1
  Faults       \* errnos with which the driver may fail besides ENODEV, EINTR

(* A control has a type, a class, a range, the step that the driver        *)
(* reports for it and, for a menu, the indices for which the driver knows  *)
(* an item.  Values are not rounded to steps.                              *)
ControlTypes == {"Integer", "Boolean", "Menu", "Button", "Integer64", "CtrlClass",
                 "String", "Bitmask", "IntegerMenu", "U8", "U16", "U32", "Area", "Unknown"}

Controls == [typ : ControlTypes, class : STRING, minimum : Int, maximum : Int,
             step : Nat, known : SUBSET Int]

\* The range of a control that is read through a 32-bit member fits it; a Boolean
\* is 0 or 1.
ASSUME DevicesAssumption ==
  /\ Devices \subseteq Seq(Controls)
  /\ \A d \in Devices :
       /\ Len(d) <= MaxEntries
       /\ \A i \in 1 .. Len(d) :
            /\ d[i].minimum <= d[i].maximum
            /\ d[i].typ = "Boolean" => d[i].minimum = 0 /\ d[i].maximum = 1
            /\ d[i].typ \in {"Integer", "Menu", "Boolean"} =>
                 -(Word \div 2) <= d[i].minimum /\ d[i].maximum < Word \div 2

ASSUME BoundsAssumption  == MaxEntries \in Nat /\ MaxWrites \in Nat
ASSUME WordAssumption    == Word \in Nat \ {0}
ASSUME NumbersAssumption == Numbers \subseteq Int
ASSUME RangesAssumption  == Ranges \subseteq [min : Nat, max : Nat, step : Nat]
\* EINVAL is the kernel's own word for the end of a list; ok and panic are no errnos.
ASSUME FaultsAssumption  == Faults \cap {"EINVAL", "ok", "panic"} = {}

VARIABLES
  (* the device *)
  table,       \* what it knows about the arguments of an enumeration
  controls, values, plugged,
  (* the call in progress, or the last one *)
  fn,
  at,          \* the system call it makes next, "app" when it is over
  index,       \* of the table; the control last found; the control to read
  menu,        \* the item asked for
  arg,         \* the << control, number >>s to write; the frame size to expand
  items, out,  \* the vectors it builds
  result,
  (* history *)
  troubled,    \* a system call of this call failed though it had an answer
  written      \* the number the last set_controls wrote, empty if it failed

device == << controls, values, plugged >>
vars   == << table, device, fn, at, index, menu, arg, items, out, result,
             troubled, written >>

Enumerations == {"enum_frameintervals", "enum_framesizes", "enum_formats"}
Kinds    == {"discrete", "stepwise", "continuous", "other"}
Ids      == 1 .. Len(controls)
Tables   == BoundedSeq(Kinds, MaxEntries - Len(controls))
Errnos   == {"EINVAL", "EINTR", "ENODEV", "ERANGE", "InvalidInput", "Other"} \cup Faults
IsMenu(c) == c.typ \in {"Menu", "IntegerMenu"}
Payload(c) == c.typ \in {"String", "U8", "U16", "U32", "Area"}

TypeOK ==
  /\ table \in Tables
  /\ controls \in Devices
  /\ \A i \in Ids : values[i] \in controls[i].minimum .. controls[i].maximum
  /\ plugged \in BOOLEAN
  /\ fn \in Enumerations
          \cup {"none", "query_controls", "control", "set_controls", "to_discrete"}
  /\ at \in {"app", "ENUM", "QUERY_EXT_CTRL", "QUERYMENU", "G_EXT_CTRLS", "S_EXT_CTRLS"}
  /\ index \in 0 .. MaxEntries
  /\ at = "QUERYMENU" => menu \in controls[index].minimum .. controls[index].maximum
  /\ result \in {"none", "ok", "panic"} \cup Errnos
  /\ troubled \in BOOLEAN
  /\ \A i \in Ids : written[i] \subseteq Numbers

Init ==
  /\ table = << >> /\ plugged = TRUE
  /\ controls \in Devices
  /\ values = [i \in Ids |-> controls[i].minimum]
  /\ fn = "none" /\ at = "app" /\ index = 0 /\ menu = 0 /\ arg = << >>
  /\ items = << >> /\ out = << >> /\ result = "none"
  /\ troubled = FALSE /\ written = [i \in Ids |-> {}]

-------------------------------------------------------------------------------
(* How a call begins, goes on and ends, and how a system call fails.       *)

Begin(f, t, syscall, i, writes) ==
  /\ at = "app" /\ table' = t
  /\ fn' = f /\ at' = syscall /\ index' = i /\ arg' = writes
  /\ menu' = 0 /\ items' = << >> /\ out' = << >>
  /\ result' = "none" /\ troubled' = FALSE
  /\ UNCHANGED << device, written >>

Return(r, answer) ==
  /\ at' = "app" /\ result' = r /\ out' = answer
  /\ menu' = 0 /\ items' = << >> /\ arg' = << >>
  /\ UNCHANGED << table, controls, plugged, fn, index >>

Fail(e) == Return(e, << >>)

\* A system call that has an answer fails nonetheless.
Trouble(e) ==
  \/ plugged /\ e \in Faults \cup {"EINTR"}
  \/ ~plugged /\ e = "ENODEV"

Fails(e, end) ==
  \/ Trouble(e) /\ troubled' = TRUE
  \/ plugged /\ end /\ e = "EINVAL" /\ UNCHANGED troubled

-------------------------------------------------------------------------------
(* Formats, frame sizes, frame intervals.                                  *)

enumerate(f, t) == Begin(f, t, "ENUM", 0, << >>)

\* The conversions of an entry: none for a type that the crate does not know;
\* a continuous range is a stepwise one.  Formats have no types.
Converted(entry) ==
  CASE fn = "enum_formats"                -> << entry >>
    [] entry = "discrete"                 -> << "discrete" >>
    [] entry \in {"stepwise", "continuous"} -> << "stepwise" >>
    [] OTHER                              -> << >>

EnumEntry ==
  /\ at = "ENUM" /\ plugged /\ index < Len(table)
  /\ out' = out \o Converted(table[index + 1])
  /\ index' = index + 1
  /\ UNCHANGED << table, device, fn, at, menu, arg, items, result, troubled, written >>

\* An error ends the loop, whatever it is.
EnumFails ==
  \E e \in Errnos :
    /\ at = "ENUM" /\ Fails(e, index = Len(table))
    /\ \/ fn # "enum_formats" /\ index = 0 /\ Fail(e)
       \/ (fn = "enum_formats" \/ index > 0) /\ Return("ok", out)
    /\ UNCHANGED << values, written >>

\* Mutant: the range is taken for one without its end.
StepBy_HalfOpen(range) ==
  [k \in 1 .. (range.max - range.min) \div range.step |->
     range.min + (k - 1) * range.step]

\* The values of a range that is walked in steps.
StepBy(range) ==
  [k \in 1 .. (range.max - range.min) \div range.step + 1 |->
     range.min + (k - 1) * range.step]

\* All frame sizes, widths first.
Discretes(size) ==
  IF size.typ = "discrete" THEN << << size.width.min, size.height.min >> >>
  ELSE LET ws == StepBy(size.width)
           hs == StepBy(size.height)
       IN  FlattenSeq([i \in DOMAIN ws |-> [j \in DOMAIN hs |-> << ws[i], hs[j] >>]])

\* Walking in steps of zero panics; heights are walked once for each width.
Panics(size) ==
  /\ size.typ = "stepwise"
  /\ \/ size.width.step = 0
     \/ size.height.step = 0 /\ size.width.min <= size.width.max

\* The application expands an entry of the list it was given last.
to_discrete(size) ==
  /\ at = "app" /\ fn = "enum_framesizes" /\ size.typ \in Range(out)
  /\ fn' = "to_discrete" /\ arg' = size
  /\ \/ Panics(size) /\ result' = "panic" /\ out' = << >>
     \/ ~Panics(size) /\ result' = "ok" /\ out' = Discretes(size)
  /\ table' = << >> /\ index' = 0 /\ troubled' = FALSE
  /\ UNCHANGED << device, at, menu, items, written >>

-------------------------------------------------------------------------------
(* query_controls.                                                         *)

query_controls == Begin("query_controls", << >>, "QUERY_EXT_CTRL", 0, << >>)

\* Description::from; a menu waits for its items.
Described(i, its) == [id |-> i, typ |-> controls[i].typ, items |-> its]

QueryExtCtrl ==
  /\ at = "QUERY_EXT_CTRL" /\ plugged /\ index < Len(controls)
  /\ index' = index + 1 /\ items' = << >>
  /\ \/ /\ IsMenu(controls[index + 1]) /\ controls[index + 1].step # 0
        /\ at' = "QUERYMENU" /\ menu' = controls[index + 1].minimum
        /\ UNCHANGED out
     \/ /\ ~IsMenu(controls[index + 1])
        /\ out' = Append(out, Described(index + 1, << >>))
        /\ UNCHANGED << at, menu >>
  /\ UNCHANGED << table, device, fn, arg, result, troubled, written >>

\* The items of a menu cannot be walked in steps of zero: what was listed is lost.
QueryExtCtrlPanics ==
  /\ at = "QUERY_EXT_CTRL" /\ plugged /\ index < Len(controls)
  /\ IsMenu(controls[index + 1]) /\ controls[index + 1].step = 0
  /\ Return("panic", << >>) /\ UNCHANGED << values, troubled, written >>

\* Mutant: any error after the first control ends the enumeration.
QueryExtCtrlFails_AnyError ==
  \E e \in Errnos :
    /\ at = "QUERY_EXT_CTRL" /\ Fails(e, index = Len(controls))
    /\ \/ out = << >> /\ Fail(e)
       \/ out # << >> /\ Return("ok", out)
    /\ UNCHANGED << values, written >>

\* Only EINVAL after at least one control is the end of the enumeration.
QueryExtCtrlFails ==
  \E e \in Errnos :
    /\ at = "QUERY_EXT_CTRL" /\ Fails(e, index = Len(controls))
    /\ \/ (out = << >> \/ e # "EINVAL") /\ Fail(e)
       \/ out # << >> /\ e = "EINVAL" /\ Return("ok", out)
    /\ UNCHANGED << values, written >>

\* Mutant: the range of items is taken for one that includes its end twice.
NextItem_OneTooMany(its) ==
  /\ items' = its
  /\ \/ /\ menu <= controls[index].maximum
        /\ menu' = menu + controls[index].step /\ UNCHANGED << at, out >>
     \/ /\ menu > controls[index].maximum
        /\ out' = Append(out, Described(index, its))
        /\ at' = "QUERY_EXT_CTRL" /\ UNCHANGED menu
  /\ UNCHANGED << table, device, fn, index, arg, result, written >>

NextItem(its) ==
  /\ items' = its
  /\ \/ /\ menu + controls[index].step <= controls[index].maximum
        /\ menu' = menu + controls[index].step /\ UNCHANGED << at, out >>
     \/ /\ menu + controls[index].step > controls[index].maximum
        /\ out' = Append(out, Described(index, its))
        /\ at' = "QUERY_EXT_CTRL" /\ UNCHANGED menu
  /\ UNCHANGED << table, device, fn, index, arg, result, written >>

Querymenu ==
  /\ at = "QUERYMENU" /\ plugged /\ menu \in controls[index].known
  /\ NextItem(Append(items, menu)) /\ UNCHANGED troubled

\* Whatever the error, the item is skipped.
QuerymenuFails ==
  \E e \in Errnos :
    /\ at = "QUERYMENU" /\ Fails(e, menu \notin controls[index].known)
    /\ NextItem(items)

-------------------------------------------------------------------------------
(* Values of controls.                                                     *)

\* The 32-bit member of the union of a v4l2_ext_control, which shares its bytes with
\* the low half of the 64-bit one: so it is where the target is little-endian.
Low(v) == ((v + Word \div 2) % Word) - Word \div 2

control(i) == Begin("control", << >>, "G_EXT_CTRLS", i, << >>)

\* Mutant: 64-bit controls are read through the 32-bit member.
ValueRead_Low(c, v) ==
  CASE c.typ \in {"Integer64", "Integer", "Menu"} -> << Low(v) >>
    [] c.typ = "Boolean"                          -> << Low(v) = 1 >>
    [] OTHER                                      -> << >>

\* None for the types that control cannot handle.
ValueRead(c, v) ==
  CASE c.typ = "Integer64"           -> << v >>
    [] c.typ \in {"Integer", "Menu"} -> << Low(v) >>
    [] c.typ = "Boolean"             -> << Low(v) = 1 >>
    [] OTHER                         -> << >>

GetExtCtrls ==
  /\ at = "G_EXT_CTRLS" /\ plugged
  /\ LET v == ValueRead(controls[index], values[index])
     IN  \/ v # << >> /\ Return("ok", v)
         \/ v = << >> /\ Fail("Other")
  /\ UNCHANGED << values, troubled, written >>

Classes(writes) == {controls[write[1]].class : write \in Range(writes)}

\* No control, or controls of several classes, are refused at once.
set_controls(writes) ==
  \/ /\ Cardinality(Classes(writes)) = 1
     /\ Begin("set_controls", << >>, "S_EXT_CTRLS", 0, writes)
  \/ /\ Cardinality(Classes(writes)) # 1 /\ at = "app"
     /\ fn' = "set_controls" /\ result' = "InvalidInput" /\ arg' = << >>
     /\ table' = << >> /\ index' = 0 /\ out' = << >> /\ troubled' = FALSE
     /\ UNCHANGED << device, at, menu, items, written >>

\* The control list holds numbers and Booleans, but pointers to contents, whose
\* vectors are freed when the loop over ctrls has passed them: by the time of the
\* system call anything may be there.
Sent ==
  {sent \in [DOMAIN arg -> Ids \X Numbers] :
     \A k \in DOMAIN arg :
       /\ sent[k][1] = arg[k][1]
       /\ Payload(controls[arg[k][1]]) \/ sent[k][2] = arg[k][2]}

\* What the driver makes of a value: a 32-bit control sees the 32-bit member only.
Seen(c, v) == IF c.typ = "Integer64" \/ Payload(c) THEN v ELSE Low(v)

Stored(c, v) ==
  CASE c.typ = "Boolean"  -> IF Seen(c, v) = 0 THEN 0 ELSE 1
    [] Seen(c, v) < c.minimum -> c.minimum
    [] Seen(c, v) > c.maximum -> c.maximum
    [] OTHER -> Seen(c, v)

\* values after the first n of the writes that the driver gets to see.
After(writes, n) ==
  [i \in Ids |->
     LET ks == {k \in 1 .. n : writes[k][1] = i}
     IN  IF ks = {} THEN values[i] ELSE Stored(controls[i], writes[Max(ks)][2])]

InRange(k) ==
  LET c == controls[arg[k][1]]
  IN  IsMenu(c) => Seen(c, arg[k][2]) \in c.minimum .. c.maximum

AllInRange == \A k \in DOMAIN arg : InRange(k)

LastWrite(i) ==
  LET ks == {k \in DOMAIN arg : arg[k][1] = i}
  IN  IF ks = {} THEN written[i]
      ELSE {arg[Max(ks)][2]}

SetExtCtrls ==
  /\ at = "S_EXT_CTRLS" /\ plugged /\ AllInRange
  /\ \E sent \in Sent : values' = After(sent, Len(arg))
  /\ written' = [i \in Ids |-> LastWrite(i)]
  /\ Return("ok", << >>) /\ UNCHANGED troubled

\* The driver checks all values first; hardware that fails may have taken some.
SetExtCtrlsFails ==
  /\ at = "S_EXT_CTRLS" /\ troubled' = TRUE
  /\ \E e \in Errnos, n \in 0 .. Len(arg), sent \in Sent :
       /\ \/ Trouble(e) /\ (n = 0 \/ (plugged /\ AllInRange))
          \/ plugged /\ ~AllInRange /\ e = "ERANGE" /\ n = 0
       /\ values' = After(sent, n)
       /\ written' = [i \in Ids |-> IF \E k \in 1 .. n : arg[k][1] = i THEN {}
                                    ELSE written[i]]
       /\ Fail(e)

GetExtCtrlsFails ==
  \E e \in Errnos :
    /\ at = "G_EXT_CTRLS" /\ Trouble(e) /\ troubled' = TRUE
    /\ Fail(e) /\ UNCHANGED << values, written >>

-------------------------------------------------------------------------------
Unplug ==
  /\ plugged /\ plugged' = FALSE
  /\ UNCHANGED << table, controls, values, fn, at, index, menu, arg, items, out, result,
                  troubled, written >>

Writes == Ids \X Numbers

ApiCall ==
  \/ \E f \in Enumerations, t \in Tables : enumerate(f, t)
  \/ \E size \in [typ : {"discrete", "stepwise"}, width : Ranges, height : Ranges] :
       to_discrete(size)
  \/ query_controls
  \/ \E i \in Ids : control(i)
  \/ \E ws \in BoundedSeq(Writes, MaxWrites) : set_controls(ws)

SyscallStep ==
  \/ EnumEntry \/ EnumFails
  \/ QueryExtCtrl \/ QueryExtCtrlPanics \/ QueryExtCtrlFails
  \/ Querymenu \/ QuerymenuFails
  \/ GetExtCtrls \/ GetExtCtrlsFails
  \/ SetExtCtrls \/ SetExtCtrlsFails

Next == ApiCall \/ SyscallStep \/ Unplug

Spec == Init /\ [][Next]_vars

-------------------------------------------------------------------------------
(* Properties.                                                             *)

\* What an enumeration finds in the first n entries.
Found(n) == FlattenSeq([k \in 1 .. n |-> Converted(table[k])])

Ascending(s) == \A j, k \in DOMAIN s : j < k => s[j] < s[k]

\* What a range gives that is walked in steps.
Wanted(r) ==
  {n \in r.min .. r.max : \E k \in 0 .. n - r.min : n = r.min + k * r.step}

\* The items of a menu that it has where its steps lead.
Items(c) == c.known \cap Wanted([min |-> c.minimum, max |-> c.maximum, step |-> c.step])

\* An Ok list is true as far as it goes: the entries of known type of an initial
\* part of the table, in order.  It is complete unless a system call failed that
\* had an answer; then query_controls still lists every control, with items that
\* exist, in order (video/macros.rs:27-40, 102-123; device.rs:109-167).  It panics
\* only on a menu with a step of zero, and never lists one (device.rs:118-119).
ListsAreHonest ==
  at = "app" =>
    /\ result = "ok" /\ fn \in Enumerations =>
         /\ \E n \in 0 .. Len(table) : out = Found(n)
         /\ ~troubled => out = Found(Len(table))
    /\ result = "ok" /\ fn = "query_controls" =>
         /\ Len(out) = Len(controls)
         /\ \A i \in Ids :
              /\ out[i].id = i
              /\ IsMenu(controls[i]) =>
                   /\ controls[i].step # 0
                   /\ Range(out[i].items) \subseteq Items(controls[i])
                   /\ Ascending(out[i].items)
                   /\ ~troubled => Range(out[i].items) = Items(controls[i])
    /\ result = "panic" /\ fn = "query_controls" =>
         \E i \in Ids : IsMenu(controls[i]) /\ controls[i].step = 0

\* A number that a successful set_controls wrote, and that lies in the range of
\* its control, is what control reads until the next write, also when calls in
\* between failed and when other controls of the same call were cut to their
\* range (device.rs:193-211, 260-269).
ReadsBackWhatFits ==
  at = "app" /\ result = "ok" /\ fn = "control" =>
    LET c == controls[index]
    IN  \A w \in written[index] \cap (c.minimum .. c.maximum) :
          out[1] = IF c.typ = "Boolean" THEN w = 1 ELSE w

Before(p, q) == p[1] < q[1] \/ (p[1] = q[1] /\ p[2] < q[2])

\* The frame sizes of an entry, of which stepwise gives the limits and the steps,
\* each once and in order; a driver that reports a step of zero makes it panic
\* instead, heights only if there is a width (framesize.rs:29-50).
ToDiscreteExact ==
  at = "app" /\ fn = "to_discrete" /\ arg.typ = "stepwise" =>
    /\ result = "panic" <=>
         \/ arg.width.step = 0
         \/ arg.height.step = 0 /\ Wanted(arg.width) # {}
    /\ result = "ok" =>
         /\ Range(out) = Wanted(arg.width) \X Wanted(arg.height)
         /\ \A i, j \in DOMAIN out : i < j => Before(out[i], out[j])

-------------------------------------------------------------------------------
\* device.rs:215, of set_control: "Modifies the control value", to the one given.
PayloadArrives ==
  at = "app" /\ result = "ok" /\ fn = "set_controls" =>
    \A i \in Ids : Payload(controls[i]) => \A w \in written[i] : values[i] = w

===============================================================================
