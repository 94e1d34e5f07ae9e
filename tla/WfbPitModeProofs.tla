--------------------------- MODULE WfbPitModeProofs ---------------------------
(***************************************************************************)
(* Proofs about WfbPitMode: each side has its own power back after pit     *)
(* mode, unless it was given another meanwhile or setting it failed; on a  *)
(* drone nobody works on the camera and the radio follow their files, and  *)
(* the adaptive link runs if it was asked to.                              *)
(***************************************************************************)
EXTENDS WfbPitMode, SequenceTheorems, TLAPS

(***************************************************************************)
(* The powers.                                                             *)
(***************************************************************************)
PitTypes ==
  /\ pit \in [enabled : BOOLEAN, gs : Nat, drone : Nat,
              pc : {"idle", "read", "lower", "lowered", "raise", "raised"}]
  /\ ground \in [power : Nat, config : Nat, shared : BOOLEAN, own : Nat]
  /\ strayed \in [ground : BOOLEAN, drone : BOOLEAN]

(* Which request has the lock, by whether pit mode is enabled.             *)
EnablingOrDisabling ==
  /\ pit.pc \in {"read", "lower", "lowered"} => ~pit.enabled
  /\ pit.pc \in {"raise", "raised"} => pit.enabled

(* The server's configuration says what the manager's does, or what was    *)
(* saved last; and what Enable has found is the power to restore, which    *)
(* Disable does for the ground station first.                              *)
GroundKept ==
  /\ ground.shared => ground.config = ground.power
  /\ ~ground.shared => ground.config = ground.own
  /\ ~strayed.ground =>
       /\ InPitMode => pit.gs = ground.own
       /\ ~InPitMode \/ pit.pc \in {"raise", "raised"} => ground.power = ground.own

(* So for the drone, which has its power before Enable lowers it and after *)
(* Disable raised it.                                                      *)
DroneKept ==
  ~strayed.drone =>
    /\ pit.enabled \/ pit.pc \in {"lower", "lowered"} => pit.drone = radio.own
    /\ ~InPitMode \/ pit.pc \in {"read", "lower", "raised"} => radio.power = radio.own

PitInv == PitTypes /\ EnablingOrDisabling /\ GroundKept /\ DroneKept

-----------------------------------------------------------------------------
(***************************************************************************)
(* The drone's configuration.                                              *)
(***************************************************************************)
(* The types: of settings, of what is written, and of command lines.       *)
Prof == [value : Settings \union {"none"}, roi : {"none", "tuned", "skipped", "0,0,0,0"},
         strays : Nat]
Values == Channels \union Settings \union Prof \union BOOLEAN

TypedValue(f, v) ==
  /\ f = "channel" => v \in Channels
  /\ f \in {"radio", "camera", "alink"} => v \in Settings
  /\ f = "profiles" => v \in Prof
  /\ f = "enabled" => v \in BOOLEAN

(* A set of settings, as a copy or as changes.                             *)
Fields == WholePage \union {"profiles"}
SettingsOK(c) ==
  /\ DOMAIN c \subseteq Fields
  /\ \A f \in DOMAIN c : TypedValue(f, c[f])
  /\ "profiles" \in DOMAIN c => HasProfiles

Ops == {"write", "stopWfb", "startWfb", "reloadCamera", "kill", "startAlink", "startUnlessRunning"}
Step == [op : Ops, field : {"channel", "radio", "camera", "alink", "profiles", "none"},
         value : Values]
Kinds == {"line", "wfb", "alink"}
CommandLine == [kind : Kinds, steps : Seq(Step)]

FileTypes ==
  /\ DOMAIN file = Sections /\ \A f \in Sections : TypedValue(f, file[f])
  /\ ~HasProfiles => file.profiles = NoProfiles

RunningTypes ==
  /\ radio \in [up : BOOLEAN, channel : Channels, params : Settings \union {"adapted"},
                power : Nat, own : Nat]
  /\ camera \in Settings
  /\ alink \in [alink : Settings \union {"stopped"}, profiles : Prof]
  /\ gsChannel \in Channels

CopyOK(copy) == copy = <<>> \/ (SettingsOK(copy) /\ WholePage \subseteq DOMAIN copy)
HandlerOK(hd) ==
  /\ DOMAIN hd = {"copy", "todo", "sent"} /\ CopyOK(hd.copy)
  /\ hd.todo \in Seq(CommandLine) /\ hd.sent \in BOOLEAN
  /\ hd.sent => hd.todo # <<>>

RequestTypes ==
  /\ DOMAIN jobs \subseteq Handlers \X Kinds
  /\ DOMAIN handler = Handlers
  /\ \A h \in Handlers : HandlerOK(handler[h])
  /\ wanted \in (SUBSET BOOLEAN) \ {{}} /\ broken \in BOOLEAN

(* The shape of a line, or of the rest of it while it runs: what may be    *)
(* refused takes nothing but writes with it, wfb-ng does not stay stopped, *)
(* and alink_drone is killed before it is started.                         *)
Is(s, f) == s.op = "write" /\ s.field = f
Changes(steps, f) == \E i \in DOMAIN steps : Is(steps[i], f)
HasOp(steps, op) == \E i \in DOMAIN steps : steps[i].op = op

LineOK(steps) ==
  /\ steps \in Seq(Step) /\ Len(steps) \in 1 .. 2
  /\ \A i \in DOMAIN steps :
       steps[i].op = "write" => /\ steps[i].field # "none"
                                /\ TypedValue(steps[i].field, steps[i].value)
                                /\ steps[i].field = "profiles" => HasProfiles
  /\ \A f \in {"channel", "radio", "camera"} :
       Changes(steps, f) => \A i \in DOMAIN steps : steps[i].op = "write"
  /\ \A i \in DOMAIN steps : steps[i].op = "stopWfb" =>
       \E j \in DOMAIN steps : j > i /\ steps[j].op = "startWfb"
  /\ \A i, j \in DOMAIN steps :
       steps[i].op = "startAlink" /\ steps[j].op = "kill" => j < i

(* What a line makes necessary.                                            *)
SwitchesOff(steps) == HasOp(steps, "kill") /\ ~ HasOp(steps, "startAlink")
NeedsWfb(steps) == SwitchesOff(steps) \/ Changes(steps, "channel") \/ Changes(steps, "radio")

(* The lines a handler has not given to the drone, in an order in which    *)
(* the restart comes after what needs it.                                  *)
Unsent(hd) == IF hd.sent THEN Tail(hd.todo) ELSE hd.todo
HasLine(s, op) == \E i \in DOMAIN s : HasOp(s[i].steps, op)
Later(s, i, op) == \E j \in DOMAIN s : j > i /\ HasOp(s[j].steps, op)

(* Only a line whose end the handler waits for makes a restart necessary.  *)
KindOK(kind, steps) == NeedsWfb(steps) \/ Changes(steps, "camera") => kind = "line"

Ordered(s) ==
  \A i \in DOMAIN s :
    /\ LineOK(s[i].steps) /\ KindOK(s[i].kind, s[i].steps)
    /\ NeedsWfb(s[i].steps) => Later(s, i, "startWfb")
    /\ Changes(s[i].steps, "camera") => Later(s, i, "reloadCamera")

JobOrdered(steps, s) ==
  /\ NeedsWfb(steps) => HasLine(s, "startWfb")
  /\ Changes(steps, "camera") => HasLine(s, "reloadCamera")

OrderInv ==
  /\ \A h \in Handlers : Ordered(Unsent(handler[h]))
  /\ \A id \in DOMAIN jobs : LineOK(jobs[id]) /\ KindOK(id[2], jobs[id])
  /\ ~broken => \A id \in DOMAIN jobs :
       /\ JobOrdered(jobs[id], Unsent(handler[id[1]]))
       /\ id[2] = "line" => handler[id[1]].sent

(* Something is still to come, on the drone or at the ground station.      *)
Coming(H, J, op) ==
  \/ \E h \in Handlers : HasLine(Unsent(H[h]), op)
  \/ \E id \in DOMAIN J : HasOp(J[id], op)

(* What does not follow the files is going to be restarted.                *)
FilesFollowed ==
  ~broken =>
    /\ camera = file.camera \/ Coming(handler, jobs, "reloadCamera")
    /\ \/ Coming(handler, jobs, "startWfb")
       \/ /\ radio.up /\ radio.channel = file.channel
          /\ \/ ParamsInForce
             \/ radio.params = "adapted" /\ Coming(handler, jobs, "startAlink")

(* A command for alink_drone does what was wanted, and one is to come if   *)
(* it is not as wanted.                                                    *)
WantedBy(steps, w) ==
  /\ SwitchesOff(steps) => FALSE \in w
  /\ HasOp(steps, "startAlink") \/ HasOp(steps, "startUnlessRunning") => TRUE \in w

AllWantedBy(s, w) == \A i \in DOMAIN s : WantedBy(s[i].steps, w)

SwitchAsked ==
  /\ \A h \in Handlers : AllWantedBy(Unsent(handler[h]), wanted)
  /\ \A id \in DOMAIN jobs : WantedBy(jobs[id], wanted)

SwitchComing ==
  ~broken /\ ~HasProfiles =>
    \/ (alink # Stopped) \in wanted
    \/ \E op \in {"kill", "startAlink", "startUnlessRunning"} : Coming(handler, jobs, op)

ConfigInv ==
  /\ FileTypes /\ RunningTypes /\ RequestTypes
  /\ OrderInv /\ FilesFollowed /\ SwitchAsked /\ SwitchComing

-----------------------------------------------------------------------------
(***************************************************************************)
(* Sequences                                                               *)
(***************************************************************************)
LEMMA HeadTail ==
  ASSUME NEW S, NEW s \in Seq(S), s # <<>>
  PROVE  /\ DOMAIN s = 1 .. Len(s) /\ Len(s) \in Nat /\ 1 \in DOMAIN s
         /\ Head(s) = s[1] /\ Head(s) \in S
         /\ Tail(s) \in Seq(S) /\ Len(Tail(s)) = Len(s) - 1
         /\ DOMAIN Tail(s) = 1 .. Len(s) - 1
         /\ \A i \in DOMAIN Tail(s) : i + 1 \in DOMAIN s /\ Tail(s)[i] = s[i + 1]
         /\ \A i \in DOMAIN s : i # 1 => i - 1 \in DOMAIN Tail(s) /\ Tail(s)[i - 1] = s[i]
  <1>1. Len(s) \in Nat /\ Len(s) > 0 /\ DOMAIN s = 1 .. Len(s)
    OBVIOUS
  <1>2. Tail(s) \in Seq(S) /\ Len(Tail(s)) = Len(s) - 1 /\ DOMAIN Tail(s) = 1 .. Len(s) - 1
    OBVIOUS
  <1>3. \A i \in 1 .. Len(s) - 1 : Tail(s)[i] = s[i + 1]
    OBVIOUS
  <1> QED
    BY <1>1, <1>2, <1>3

LEMMA Joined ==
  ASSUME NEW S, NEW s \in Seq(S), NEW t \in Seq(S)
  PROVE  /\ s \o t \in Seq(S) /\ Len(s \o t) = Len(s) + Len(t)
         /\ \A i \in DOMAIN s : i \in DOMAIN (s \o t) /\ (s \o t)[i] = s[i]
         /\ \A j \in DOMAIN t : Len(s) + j \in DOMAIN (s \o t) /\ (s \o t)[Len(s) + j] = t[j]
         /\ \A i \in DOMAIN (s \o t) : \/ i \in DOMAIN s /\ (s \o t)[i] = s[i]
                                       \/ /\ i - Len(s) \in DOMAIN t
                                          /\ (s \o t)[i] = t[i - Len(s)]
  <1>1. /\ Len(s) \in Nat /\ Len(t) \in Nat
        /\ DOMAIN s = 1 .. Len(s) /\ DOMAIN t = 1 .. Len(t)
    OBVIOUS
  <1>2. s \o t \in Seq(S) /\ Len(s \o t) = Len(s) + Len(t)
    OBVIOUS
  <1>3. DOMAIN (s \o t) = 1 .. Len(s) + Len(t)
    BY <1>2
  <1>4. \A i \in 1 .. Len(s) + Len(t) : (s \o t)[i] = IF i <= Len(s) THEN s[i] ELSE t[i - Len(s)]
    OBVIOUS
  <1> QED
    BY <1>1, <1>2, <1>3, <1>4

(***************************************************************************)
(* Command lines                                                           *)
(***************************************************************************)
(* The rest of a line while it runs.                                        *)
LEMMA RestOfLine ==
  ASSUME NEW s, LineOK(s)
  PROVE  /\ Head(s) \in Step
         /\ Tail(s) # <<>> => LineOK(Tail(s))
         /\ \A op : HasOp(s, op) <=> (Head(s).op = op \/ HasOp(Tail(s), op))
         /\ \A f : Changes(s, f) <=> (Is(Head(s), f) \/ Changes(Tail(s), f))
         /\ SwitchesOff(Tail(s)) => SwitchesOff(s)
         /\ Head(s).op = "stopWfb" => HasOp(Tail(s), "startWfb")
         /\ Head(s).op = "kill" => SwitchesOff(s) \/ HasOp(Tail(s), "startAlink")
         /\ Head(s).op = "write" => /\ Head(s).field \in Sections
                                    /\ TypedValue(Head(s).field, Head(s).value)
                                    /\ Head(s).field = "profiles" => HasProfiles
         /\ \A f \in {"channel", "radio", "camera"} : Is(Head(s), f) =>
              \A op : HasOp(s, op) => op = "write"
  <1>1. s \in Seq(Step) /\ Len(s) \in 1 .. 2 /\ s # <<>>
    BY DEF LineOK
  <1> DEFINE t == Tail(s)
  <1>2. /\ 1 \in DOMAIN s /\ Head(s) = s[1] /\ Head(s) \in Step
        /\ t \in Seq(Step) /\ Len(t) = Len(s) - 1 /\ DOMAIN t = 1 .. Len(s) - 1
        /\ DOMAIN s = 1 .. Len(s)
    BY <1>1, HeadTail
  <1>3. \A i \in DOMAIN t : i + 1 \in DOMAIN s /\ t[i] = s[i + 1]
    BY <1>1, HeadTail
  <1>4. \A i \in DOMAIN s : i # 1 => i - 1 \in DOMAIN t /\ t[i - 1] = s[i]
    BY <1>1, HeadTail
  <1>5. \A op : HasOp(s, op) <=> (Head(s).op = op \/ HasOp(t, op))
    BY <1>2, <1>3, <1>4 DEF HasOp
  <1>6. \A f : Changes(s, f) <=> (Is(Head(s), f) \/ Changes(t, f))
    BY <1>2, <1>3, <1>4 DEF Changes
  <1>7. SwitchesOff(t) => SwitchesOff(s)
    <2> SUFFICES ASSUME HasOp(t, "kill"), Head(s).op = "startAlink" PROVE FALSE
      BY <1>5 DEF SwitchesOff
    <2>1. PICK i \in DOMAIN t : t[i].op = "kill"
      BY DEF HasOp
    <2>2. i + 1 < 1
      BY <2>1, <1>2, <1>3 DEF LineOK
    <2> QED
      BY <2>2, <1>2
  <1>8. Head(s).op = "stopWfb" => HasOp(t, "startWfb")
    <2> SUFFICES ASSUME s[1].op = "stopWfb" PROVE HasOp(t, "startWfb")
      BY <1>2
    <2>1. PICK j \in DOMAIN s : j > 1 /\ s[j].op = "startWfb"
      BY <1>2 DEF LineOK
    <2> QED
      BY <2>1, <1>4 DEF HasOp
  <1>9. Head(s).op = "kill" => SwitchesOff(s) \/ HasOp(t, "startAlink")
    BY <1>5 DEF SwitchesOff
  <1>10. Head(s).op = "write" => /\ Head(s).field \in Sections
                                 /\ TypedValue(Head(s).field, Head(s).value)
                                 /\ Head(s).field = "profiles" => HasProfiles
    BY <1>2 DEF LineOK, Step, Sections
  <1>11. \A f \in {"channel", "radio", "camera"} : Is(Head(s), f) =>
           \A op : HasOp(s, op) => op = "write"
    BY <1>2 DEF LineOK, Changes, HasOp
  <1>12. ASSUME t # <<>> PROVE LineOK(t)
    <2>1. Len(t) \in 1 .. 2
      BY <1>1, <1>2, <1>12
    <2>2. \A i \in DOMAIN t :
            t[i].op = "write" => /\ t[i].field # "none"
                                 /\ TypedValue(t[i].field, t[i].value)
                                 /\ t[i].field = "profiles" => HasProfiles
      BY <1>3 DEF LineOK
    <2>3. ASSUME NEW f \in {"channel", "radio", "camera"}, Changes(t, f), NEW i \in DOMAIN t
          PROVE  t[i].op = "write"
      BY <2>3, <1>6, <1>3 DEF LineOK
    <2>4. ASSUME NEW i \in DOMAIN t, t[i].op = "stopWfb"
          PROVE  \E j \in DOMAIN t : j > i /\ t[j].op = "startWfb"
      <3>1. PICK j \in DOMAIN s : j > i + 1 /\ s[j].op = "startWfb"
        BY <2>4, <1>3 DEF LineOK
      <3>2. j - 1 \in DOMAIN t /\ t[j - 1] = s[j] /\ j - 1 > i
        BY <3>1, <1>4, <1>2, <2>4
      <3> QED
        BY <3>1, <3>2
    <2>5. ASSUME NEW i \in DOMAIN t, NEW j \in DOMAIN t, t[i].op = "startAlink", t[j].op = "kill"
          PROVE  j < i
      <3>1. j + 1 < i + 1
        BY <2>5, <1>3 DEF LineOK
      <3> QED
        BY <3>1, <1>2
    <2> QED
      BY <1>2, <2>1, <2>2, <2>3, <2>4, <2>5 DEF LineOK
  <1> QED
    BY <1>2, <1>5, <1>6, <1>7, <1>8, <1>9, <1>10, <1>11, <1>12

(* A handler gives its first line away.                                     *)
LEMMA RestOfLines ==
  ASSUME NEW s \in Seq(CommandLine), s # <<>>, Ordered(s)
  PROVE  /\ Head(s) \in CommandLine /\ LineOK(Head(s).steps) /\ KindOK(Head(s).kind, Head(s).steps)
         /\ JobOrdered(Head(s).steps, Tail(s))
         /\ Tail(s) \in Seq(CommandLine) /\ Ordered(Tail(s))
         /\ \A op : HasLine(s, op) <=> (HasOp(Head(s).steps, op) \/ HasLine(Tail(s), op))
         /\ \A i \in DOMAIN Tail(s) : \E j \in DOMAIN s : Tail(s)[i] = s[j]
         /\ \E j \in DOMAIN s : Head(s) = s[j]
  <1> DEFINE t == Tail(s)
  <1>2. /\ 1 \in DOMAIN s /\ Head(s) = s[1] /\ Head(s) \in CommandLine
        /\ t \in Seq(CommandLine) /\ DOMAIN t = 1 .. Len(s) - 1
        /\ DOMAIN s = 1 .. Len(s)
    BY HeadTail
  <1>3. \A i \in DOMAIN t : i + 1 \in DOMAIN s /\ t[i] = s[i + 1]
    BY HeadTail
  <1>4. \A i \in DOMAIN s : i # 1 => i - 1 \in DOMAIN t /\ t[i - 1] = s[i]
    BY HeadTail
  <1>5. \A op : HasLine(s, op) <=> (HasOp(Head(s).steps, op) \/ HasLine(t, op))
    BY <1>2, <1>3, <1>4 DEF HasLine
  <1>6. ASSUME NEW i \in DOMAIN s, NEW op, Later(s, i, op)
        PROVE  /\ i = 1 => HasLine(t, op)
               /\ i # 1 => Later(t, i - 1, op)
    <2>1. PICK j \in DOMAIN s : j > i /\ HasOp(s[j].steps, op)
      BY <1>6 DEF Later
    <2>2. j - 1 \in DOMAIN t /\ t[j - 1] = s[j]
      BY <2>1, <1>4, <1>2
    <2>3. i # 1 => j - 1 > i - 1
      BY <2>1, <1>2
    <2> QED
      BY <2>1, <2>2, <2>3 DEF HasLine, Later
  <1>7. LineOK(Head(s).steps) /\ KindOK(Head(s).kind, Head(s).steps) /\ JobOrdered(Head(s).steps, t)
    BY <1>2, <1>6 DEF Ordered, JobOrdered
  <1>8. ASSUME NEW i \in DOMAIN t
        PROVE  /\ LineOK(t[i].steps) /\ KindOK(t[i].kind, t[i].steps)
               /\ NeedsWfb(t[i].steps) => Later(t, i, "startWfb")
               /\ Changes(t[i].steps, "camera") => Later(t, i, "reloadCamera")
    <2>1. i + 1 \in DOMAIN s /\ t[i] = s[i + 1] /\ i + 1 # 1 /\ (i + 1) - 1 = i
      BY <1>2, <1>3
    <2>2. /\ LineOK(t[i].steps) /\ KindOK(t[i].kind, t[i].steps)
          /\ NeedsWfb(t[i].steps) => Later(s, i + 1, "startWfb")
          /\ Changes(t[i].steps, "camera") => Later(s, i + 1, "reloadCamera")
      BY <2>1 DEF Ordered
    <2> QED
      BY <2>1, <2>2, <1>6
  <1> QED
    BY <1>2, <1>3, <1>5, <1>7, <1>8 DEF Ordered

(* A line in front of others.                                               *)
LEMMA LineBefore ==
  ASSUME NEW s \in Seq(CommandLine), Len(s) <= 1,
         NEW t \in Seq(CommandLine), Ordered(t),
         \A i \in DOMAIN s : /\ LineOK(s[i].steps) /\ KindOK(s[i].kind, s[i].steps)
                             /\ JobOrdered(s[i].steps, t)
  PROVE  /\ s \o t \in Seq(CommandLine) /\ Ordered(s \o t)
         /\ \A op : HasLine(s \o t, op) <=> (HasLine(s, op) \/ HasLine(t, op))
         /\ \A w : AllWantedBy(s, w) /\ AllWantedBy(t, w) => AllWantedBy(s \o t, w)
  <1> DEFINE u == s \o t
  <1>1. /\ Len(s) \in Nat /\ Len(t) \in Nat /\ u \in Seq(CommandLine)
        /\ DOMAIN s = 1 .. Len(s) /\ DOMAIN t = 1 .. Len(t) /\ DOMAIN u = 1 .. Len(s) + Len(t)
    BY Joined
  <1>2. \A i \in DOMAIN s : i \in DOMAIN u /\ u[i] = s[i]
    BY Joined
  <1>3. \A j \in DOMAIN t : Len(s) + j \in DOMAIN u /\ u[Len(s) + j] = t[j]
    BY Joined
  <1>4. \A i \in DOMAIN u : \/ i \in DOMAIN s /\ u[i] = s[i]
                            \/ i - Len(s) \in DOMAIN t /\ u[i] = t[i - Len(s)]
    BY Joined
  <1> HIDE DEF u
  <1>5. \A op : HasLine(u, op) <=> (HasLine(s, op) \/ HasLine(t, op))
    BY <1>2, <1>3, <1>4 DEF HasLine
  <1>6. \A w : AllWantedBy(s, w) /\ AllWantedBy(t, w) => AllWantedBy(u, w)
    BY <1>4 DEF AllWantedBy
  <1>7. ASSUME NEW i \in DOMAIN s, NEW op, HasLine(t, op)
        PROVE  Later(u, i, op)
    <2>1. PICK j \in DOMAIN t : HasOp(t[j].steps, op)
      BY <1>7 DEF HasLine
    <2>2. Len(s) + j > i
      BY <1>1
    <2> QED
      BY <2>1, <2>2, <1>3 DEF Later
  <1>8. ASSUME NEW i \in DOMAIN t, NEW op, Later(t, i, op)
        PROVE  Later(u, Len(s) + i, op)
    <2>1. PICK j \in DOMAIN t : j > i /\ HasOp(t[j].steps, op)
      BY <1>8 DEF Later
    <2>2. Len(s) + j > Len(s) + i
      BY <2>1, <1>1
    <2> QED
      BY <2>1, <2>2, <1>3 DEF Later
  <1>9. ASSUME NEW i \in DOMAIN u
        PROVE  /\ LineOK(u[i].steps) /\ KindOK(u[i].kind, u[i].steps)
               /\ NeedsWfb(u[i].steps) => Later(u, i, "startWfb")
               /\ Changes(u[i].steps, "camera") => Later(u, i, "reloadCamera")
    <2>1. CASE i \in DOMAIN s /\ u[i] = s[i]
      BY <2>1, <1>7 DEF JobOrdered
    <2>2. CASE i - Len(s) \in DOMAIN t /\ u[i] = t[i - Len(s)]
      <3>1. PICK j \in DOMAIN t : j = i - Len(s) /\ i = Len(s) + j /\ u[i] = t[j]
        BY <2>2, <1>1
      <3>2. /\ LineOK(t[j].steps) /\ KindOK(t[j].kind, t[j].steps)
            /\ NeedsWfb(t[j].steps) => Later(t, j, "startWfb")
            /\ Changes(t[j].steps, "camera") => Later(t, j, "reloadCamera")
        BY DEF Ordered
      <3> QED
        BY <3>1, <3>2, <1>8
    <2> QED
      BY <2>1, <2>2, <1>4
  <1> QED
    BY <1>1, <1>5, <1>6, <1>9 DEF Ordered, u

(* A line by itself, or none.                                              *)
LEMMA OneLine ==
  ASSUME NEW kind \in Kinds, NEW steps \in Seq(Step), NEW w,
         w = <<>> \/ w = <<[kind |-> kind, steps |-> steps]>>
  PROVE  /\ w \in Seq(CommandLine) /\ Len(w) <= 1
         /\ \A i \in DOMAIN w : w[i].kind = kind /\ w[i].steps = steps
         /\ \A op : HasLine(w, op) <=> (w # <<>> /\ HasOp(steps, op))
  <1> DEFINE line == [kind |-> kind, steps |-> steps]
  <1>1. line \in CommandLine /\ line.kind = kind /\ line.steps = steps
    BY DEF CommandLine
  <1> HIDE DEF line
  <1>2. CASE w = <<>>
    BY <1>2 DEF HasLine
  <1>3. CASE w = <<line>>
    <2>1. w \in Seq(CommandLine) /\ Len(w) <= 1 /\ DOMAIN w = {1} /\ w[1] = line /\ w # <<>>
      BY <1>1, <1>3
    <2> QED
      BY <2>1, <1>1 DEF HasLine
  <1> QED
    BY <1>2, <1>3 DEF line

(* The lines of SetConfig.                                                  *)
LEMMA WriteOf ==
  ASSUME NEW c, SettingsOK(c), NEW f \in {"channel", "radio", "camera", "alink"}
  PROVE  /\ Written(c, f) \in Seq(Step) /\ Len(Written(c, f)) <= 1
         /\ Has(c, f) <=> Written(c, f) # <<>>
         /\ \A i \in DOMAIN Written(c, f) :
              /\ Is(Written(c, f)[i], f)
              /\ TypedValue(f, Written(c, f)[i].value)
  <1>1. CASE Has(c, f)
    <2>1. TypedValue(f, c[f]) /\ c[f] \in Values
      BY <1>1 DEF SettingsOK, TypedValue, Has, Values
    <2>2. Write(f, c[f]) \in Step /\ Is(Write(f, c[f]), f) /\ Write(f, c[f]).value = c[f]
      BY <2>1 DEF Write, Step, Ops, Is
    <2> QED
      BY <1>1, <2>1, <2>2 DEF Written
  <1>2. CASE ~Has(c, f)
    BY <1>2 DEF Written
  <1> QED
    BY <1>1, <1>2

(* A line of writes only.                                                   *)
LEMMA WritesOnly ==
  ASSUME NEW s \in Seq(Step), Len(s) \in 1 .. 2,
         \A i \in DOMAIN s : \E f \in {"channel", "radio", "camera", "alink"} :
           Is(s[i], f) /\ TypedValue(f, s[i].value)
  PROVE  LineOK(s) /\ \A op : HasOp(s, op) => op = "write"
  BY DEF LineOK, HasOp, Is

LEMMA RadioLine ==
  ASSUME NEW c, SettingsOK(c)
  PROVE  LET s == Written(c, "channel") \o Written(c, "radio") IN
         /\ s \in Seq(Step)
         /\ s # <<>> => LineOK(s) /\ (Has(c, "channel") \/ Has(c, "radio"))
         /\ \A op : HasOp(s, op) => op = "write"
         /\ \A f : Changes(s, f) => f \in {"channel", "radio"}
  <1> DEFINE x == Written(c, "channel")
             y == Written(c, "radio")
             s == x \o y
  <1>1. /\ x \in Seq(Step) /\ Len(x) <= 1 /\ (Has(c, "channel") <=> x # <<>>)
        /\ \A i \in DOMAIN x : Is(x[i], "channel") /\ TypedValue("channel", x[i].value)
    BY WriteOf
  <1>2. /\ y \in Seq(Step) /\ Len(y) <= 1 /\ (Has(c, "radio") <=> y # <<>>)
        /\ \A i \in DOMAIN y : Is(y[i], "radio") /\ TypedValue("radio", y[i].value)
    BY WriteOf
  <1> HIDE DEF x, y
  <1>3. s \in Seq(Step) /\ Len(s) = Len(x) + Len(y)
    BY <1>1, <1>2, Joined
  <1>4. \A i \in DOMAIN s : \/ i \in DOMAIN x /\ s[i] = x[i]
                            \/ i - Len(x) \in DOMAIN y /\ s[i] = y[i - Len(x)]
    BY <1>1, <1>2, Joined
  <1> HIDE DEF s
  <1>5. \A i \in DOMAIN s : \E f \in {"channel", "radio"} : Is(s[i], f) /\ TypedValue(f, s[i].value)
    BY <1>1, <1>2, <1>4
  <1>6. /\ \A op : HasOp(s, op) => op = "write"
        /\ \A f : Changes(s, f) => f \in {"channel", "radio"}
    BY <1>5 DEF HasOp, Changes, Is
  <1>7. ASSUME s # <<>>
        PROVE  LineOK(s) /\ (Has(c, "channel") \/ Has(c, "radio"))
    <2>1. Len(s) \in 1 .. 2
      BY <1>1, <1>2, <1>3, <1>7
    <2>2. x # <<>> \/ y # <<>>
      BY <2>1, <1>3
    <2> QED
      BY <2>1, <2>2, <1>1, <1>2, <1>3, <1>5, WritesOnly
  <1> QED
    BY <1>3, <1>6, <1>7 DEF s, x, y

(* What is changed of the adaptive link.                                    *)
LEMMA SwitchOf ==
  ASSUME NEW c, SettingsOK(c)
  PROVE  /\ Switch(c) \in Seq(Step) /\ Len(Switch(c)) <= 1
         /\ Has(c, "profiles") => Switch(c) = <<>>
         /\ \A i \in DOMAIN Switch(c) :
              /\ i = 1 /\ Has(c, "enabled") /\ ~Has(c, "profiles")
              /\ Switch(c)[i] = Do(IF c.enabled THEN "startUnlessRunning" ELSE "kill")
         /\ Has(c, "enabled") /\ ~Has(c, "profiles") => 1 \in DOMAIN Switch(c)
  <1>1. \A op \in Ops : Do(op) \in Step
    <2>1. FirstSetting \in Values
      BY DroneAssumption DEF Values
    <2> QED
      BY <2>1 DEF Do, Step
  <1>2. CASE ~Has(c, "enabled") \/ Has(c, "profiles")
    BY <1>2 DEF Switch
  <1>3. CASE Has(c, "enabled") /\ ~Has(c, "profiles")
    <2> DEFINE d == Do(IF c.enabled THEN "startUnlessRunning" ELSE "kill")
    <2>1. d \in Step
      BY <1>1 DEF Ops
    <2>2. Switch(c) = <<d>>
      BY <1>3 DEF Switch
    <2> HIDE DEF d
    <2>3. Switch(c) \in Seq(Step) /\ Len(Switch(c)) <= 1 /\ DOMAIN Switch(c) = {1} /\ Switch(c)[1] = d
      BY <2>1, <2>2
    <2> QED
      BY <2>3, <1>3 DEF d
  <1> QED
    BY <1>2, <1>3

LEMMA DocumentOf ==
  ASSUME NEW c, SettingsOK(c)
  PROVE  LET w == When(Has(c, "profiles"), <<HereDocument(c)>>) IN
         /\ w \in Seq(Step) /\ Len(w) <= 1
         /\ w # <<>> => Has(c, "profiles")
         /\ \A i \in DOMAIN w : /\ HasProfiles /\ Is(w[i], "profiles")
                                /\ TypedValue("profiles", w[i].value)
  <1> DEFINE w == When(Has(c, "profiles"), <<HereDocument(c)>>)
  <1>1. CASE ~Has(c, "profiles")
    BY <1>1 DEF When
  <1>2. CASE Has(c, "profiles")
    <2>1. HasProfiles /\ c.profiles \in Prof
      BY <1>2 DEF SettingsOK, Has, TypedValue
    <2>2. PICK joined : joined = (Has(c, "enabled") /\ c.enabled)
      OBVIOUS
    <2>3. PICK n : n = IF joined THEN 1 ELSE 0
      OBVIOUS
    <2>4. /\ c.profiles.strays + n \in Nat
          /\ c.profiles.value \in Settings \union {"none"}
      <3>1. c.profiles.strays \in Nat /\ c.profiles.value \in Settings \union {"none"}
        BY <2>1 DEF Prof
      <3>2. n \in {0, 1}
        BY <2>3
      <3> QED
        BY <3>1, <3>2
    <2>5. PICK p : p = Profiles(c.profiles.value, "0,0,0,0", c.profiles.strays + n)
      OBVIOUS
    <2>6. p \in Prof
      BY <2>4, <2>5 DEF Profiles, Prof
    <2>7. HereDocument(c) = Write("profiles", p)
      BY <2>2, <2>3, <2>5 DEF HereDocument
    <2>8. PICK d : d = HereDocument(c)
      OBVIOUS
    <2>9. d \in Step /\ Is(d, "profiles") /\ d.value \in Prof
      BY <2>6, <2>7, <2>8 DEF Write, Step, Ops, Is, Values
    <2>10. w = <<d>>
      BY <1>2, <2>8 DEF When
    <2> HIDE DEF w
    <2>11. w \in Seq(Step) /\ Len(w) <= 1 /\ DOMAIN w = {1} /\ w[1] = d
      BY <2>9, <2>10
    <2> QED
      BY <2>1, <2>9, <2>11, <1>2 DEF TypedValue, w
  <1> QED
    BY <1>1, <1>2

LEMMA AlinkSteps ==
  ASSUME NEW c, SettingsOK(c)
  PROVE  /\ AlinkLine(c) \in Seq(Step)
         /\ AlinkLine(c) # <<>> => LineOK(AlinkLine(c))
         /\ \A op : HasOp(AlinkLine(c), op) => op \in {"write", "startUnlessRunning", "kill"}
         /\ HasOp(AlinkLine(c), "kill") <=>
              (Has(c, "enabled") /\ ~Has(c, "profiles") /\ ~c.enabled)
         /\ HasOp(AlinkLine(c), "startUnlessRunning") <=>
              (Has(c, "enabled") /\ ~Has(c, "profiles") /\ c.enabled)
         /\ \A f : Changes(AlinkLine(c), f) => f \in {"alink", "profiles"}
         /\ HasOp(AlinkLine(c), "kill") => AlinkKind(c) = "line"
  <1> DEFINE x == Written(c, "alink")
             y == When(Has(c, "profiles"), <<HereDocument(c)>>)
             z == Switch(c)
             op0 == IF c.enabled THEN "startUnlessRunning" ELSE "kill"
             s == (x \o y) \o z
  <1>1. /\ x \in Seq(Step) /\ Len(x) <= 1
        /\ \A i \in DOMAIN x : Is(x[i], "alink") /\ TypedValue("alink", x[i].value)
    BY WriteOf
  <1>2. /\ y \in Seq(Step) /\ Len(y) <= 1
        /\ y # <<>> => Has(c, "profiles")
        /\ \A i \in DOMAIN y : HasProfiles /\ Is(y[i], "profiles") /\ TypedValue("profiles", y[i].value)
    BY DocumentOf
  <1>3. /\ z \in Seq(Step) /\ Len(z) <= 1
        /\ Has(c, "profiles") => z = <<>>
        /\ \A i \in DOMAIN z : /\ i = 1 /\ Has(c, "enabled") /\ ~Has(c, "profiles")
                               /\ z[i] = Do(op0)
        /\ Has(c, "enabled") /\ ~Has(c, "profiles") => 1 \in DOMAIN z
    BY SwitchOf
  <1>4. s = AlinkLine(c)
    BY DEF AlinkLine
  <1>5. /\ Do(op0).op = op0 /\ op0 \in {"startUnlessRunning", "kill"}
    BY DEF Do
  <1>6. HasOp(z, "kill") => AlinkKind(c) = "line"
    <2> SUFFICES ASSUME HasOp(z, "kill"), z = <<Do("startUnlessRunning")>> PROVE FALSE
      BY DEF AlinkKind
    <2>1. DOMAIN z = {1} /\ z[1] = Do("startUnlessRunning")
      OBVIOUS
    <2> QED
      BY <2>1 DEF HasOp, Do
  <1> HIDE DEF x, y, z, op0
  <1>7. x \o y \in Seq(Step) /\ Len(x \o y) = Len(x) + Len(y)
    BY <1>1, <1>2, Joined
  <1>8. \A i \in DOMAIN (x \o y) : \/ i \in DOMAIN x /\ (x \o y)[i] = x[i]
                                   \/ i - Len(x) \in DOMAIN y /\ (x \o y)[i] = y[i - Len(x)]
    BY <1>1, <1>2, Joined
  <1>9. s \in Seq(Step) /\ Len(s) = Len(x) + Len(y) + Len(z)
    BY <1>3, <1>7, Joined
  <1>10. \A i \in DOMAIN s : \/ i \in DOMAIN (x \o y) /\ s[i] = (x \o y)[i]
                             \/ i - Len(x \o y) \in DOMAIN z /\ s[i] = z[i - Len(x \o y)]
    BY <1>3, <1>7, Joined
  <1>11. \A j \in DOMAIN z : Len(x \o y) + j \in DOMAIN s /\ s[Len(x \o y) + j] = z[j]
    BY <1>3, <1>7, Joined
  <1> HIDE DEF s
  <1>12. \A i \in DOMAIN s :
           \/ Is(s[i], "alink") /\ TypedValue("alink", s[i].value)
           \/ HasProfiles /\ Is(s[i], "profiles") /\ TypedValue("profiles", s[i].value)
           \/ Has(c, "enabled") /\ ~Has(c, "profiles") /\ s[i].op = op0
    BY <1>1, <1>2, <1>3, <1>5, <1>8, <1>10
  <1>13. \A op : HasOp(s, op) =>
           op = "write" \/ (Has(c, "enabled") /\ ~Has(c, "profiles") /\ op = op0)
    BY <1>12 DEF HasOp, Is
  <1>14. Has(c, "enabled") /\ ~Has(c, "profiles") => HasOp(s, op0)
    <2> SUFFICES ASSUME Has(c, "enabled") /\ ~Has(c, "profiles") PROVE HasOp(s, op0)
      OBVIOUS
    <2>1. 1 \in DOMAIN z /\ z[1] = Do(op0)
      BY <1>3
    <2>2. PICK i \in DOMAIN s : s[i] = z[1]
      BY <2>1, <1>11
    <2> QED
      BY <2>1, <2>2, <1>5 DEF HasOp
  <1>15. \A f : Changes(s, f) => f \in {"alink", "profiles"}
    BY <1>5, <1>12 DEF Changes, Is
  <1>16. HasOp(s, "kill") => AlinkKind(c) = "line"
    <2> SUFFICES ASSUME HasOp(s, "kill") PROVE HasOp(z, "kill")
      BY <1>6
    <2>1. PICK i \in DOMAIN s : s[i].op = "kill"
      BY DEF HasOp
    <2>2. i - Len(x \o y) \in DOMAIN z /\ s[i] = z[i - Len(x \o y)]
      BY <2>1, <1>1, <1>2, <1>8, <1>10 DEF Is
    <2> QED
      BY <2>1, <2>2 DEF HasOp
  <1>17. ASSUME s # <<>> PROVE LineOK(s)
    <2>1. Len(s) \in 1 .. 2
      <3>1. Len(y) = 0 \/ Len(z) = 0
        BY <1>2, <1>3
      <3>2. Len(s) # 0
        BY <1>9, <1>17
      <3> QED
        BY <3>1, <3>2, <1>1, <1>2, <1>3, <1>9
    <2>2. \A i \in DOMAIN s :
            /\ s[i].op \in {"write", "startUnlessRunning", "kill"}
            /\ s[i].op = "write" => /\ s[i].field # "none"
                                    /\ TypedValue(s[i].field, s[i].value)
                                    /\ s[i].field = "profiles" => HasProfiles
      BY <1>5, <1>12 DEF Is
    <2>3. \A f \in {"channel", "radio", "camera"} : ~Changes(s, f)
      BY <1>15
    <2> QED
      BY <1>9, <2>1, <2>2, <2>3 DEF LineOK
  <1>18. /\ HasOp(s, "kill") <=> (Has(c, "enabled") /\ ~Has(c, "profiles") /\ ~c.enabled)
         /\ HasOp(s, "startUnlessRunning") <=>
              (Has(c, "enabled") /\ ~Has(c, "profiles") /\ c.enabled)
    <2>1. CASE c.enabled
      <3>1. op0 = "startUnlessRunning"
        BY <2>1 DEF op0
      <3> QED
        BY <2>1, <3>1, <1>13, <1>14
    <2>2. CASE ~c.enabled
      <3>1. op0 = "kill"
        BY <2>2 DEF op0
      <3> QED
        BY <2>2, <3>1, <1>13, <1>14
    <2> QED
      BY <2>1, <2>2
  <1>19. \A op : HasOp(s, op) => op \in {"write", "startUnlessRunning", "kill"}
    BY <1>5, <1>13
  <1> QED
    BY <1>4, <1>9, <1>15, <1>16, <1>17, <1>18, <1>19

(* SetConfig: what it writes is followed by what has to be restarted.      *)
Asked(c, w) ==
  IF Has(c, "enabled") THEN {c.enabled} ELSE IF Has(c, "alink") THEN {TRUE} ELSE w

LEMMA CommandsOfSave ==
  ASSUME NEW c, SettingsOK(c), Has(c, "profiles") => Has(c, "enabled")
  PROVE  /\ Commands(c) \in Seq(CommandLine) /\ Ordered(Commands(c))
         /\ \A w : AllWantedBy(Commands(c), Asked(c, w))
         /\ Has(c, "channel") \/ Has(c, "radio") => HasLine(Commands(c), "startWfb")
         /\ Has(c, "camera") => HasLine(Commands(c), "reloadCamera")
         /\ Has(c, "enabled") /\ ~Has(c, "profiles") =>
              HasLine(Commands(c), "startUnlessRunning") \/ HasLine(Commands(c), "kill")
         /\ Has(c, "alink") /\ ~Has(c, "enabled") => HasLine(Commands(c), "kill")
  <1> DEFINE sa == Written(c, "channel") \o Written(c, "radio")
             sb == Written(c, "camera")
             sc == AlinkLine(c)
             sd == <<Do("stopWfb"), Do("startWfb")>>
             se == <<Do("reloadCamera")>>
             sf == <<Do("kill"), Do("startAlink")>>
             a  == Line("line", sa)
             b  == Line("line", sb)
             g  == Line(AlinkKind(c), sc)
             d  == When(RestartsWfb(c), Line("wfb", sd))
             e  == When(Has(c, "camera"), Line("line", se))
             f  == When(RestartsAlink(c), Line("line", sf))
             ef == e \o f
             df == d \o ef
             gf == g \o df
             bf == b \o gf
             af == a \o bf
  (* The steps of each line. *)
  <1>1. \A op \in Ops : Do(op) \in Step /\ Do(op).op = op
    <2>1. FirstSetting \in Values
      BY DroneAssumption DEF Values
    <2> QED
      BY <2>1 DEF Do, Step
  <1>2. /\ sd \in Seq(Step) /\ LineOK(sd) /\ sd # <<>> /\ \A x : ~Changes(sd, x)
        /\ \A op : HasOp(sd, op) <=> op \in {"stopWfb", "startWfb"}
    <2>1. /\ sd \in Seq(Step) /\ Len(sd) = 2 /\ DOMAIN sd = {1, 2}
          /\ sd[1].op = "stopWfb" /\ sd[2].op = "startWfb"
      <3>1. PICK p, q \in Step : p = Do("stopWfb") /\ q = Do("startWfb") /\ p.op = "stopWfb" /\ q.op = "startWfb"
        BY <1>1 DEF Ops
      <3> QED
        BY <3>1
    <2> HIDE DEF sd
    <2> QED
      BY <2>1 DEF LineOK, Changes, Is, HasOp
  <1>3. /\ sf \in Seq(Step) /\ LineOK(sf) /\ sf # <<>> /\ \A x : ~Changes(sf, x)
        /\ \A op : HasOp(sf, op) <=> op \in {"kill", "startAlink"}
    <2>1. /\ sf \in Seq(Step) /\ Len(sf) = 2 /\ DOMAIN sf = {1, 2}
          /\ sf[1].op = "kill" /\ sf[2].op = "startAlink"
      <3>1. PICK p, q \in Step : p = Do("kill") /\ q = Do("startAlink") /\ p.op = "kill" /\ q.op = "startAlink"
        BY <1>1 DEF Ops
      <3> QED
        BY <3>1
    <2> HIDE DEF sf
    <2> QED
      BY <2>1 DEF LineOK, Changes, Is, HasOp
  <1>4. /\ se \in Seq(Step) /\ LineOK(se) /\ se # <<>> /\ \A x : ~Changes(se, x)
        /\ \A op : HasOp(se, op) <=> op = "reloadCamera"
    <2>1. /\ se \in Seq(Step) /\ Len(se) = 1 /\ DOMAIN se = {1} /\ se[1].op = "reloadCamera"
          /\ se # <<>>
      <3>1. PICK p \in Step : p = Do("reloadCamera") /\ p.op = "reloadCamera"
        BY <1>1 DEF Ops
      <3> QED
        BY <3>1
    <2> HIDE DEF se
    <2>2. \A i \in DOMAIN se : i = 1 /\ se[i].op = "reloadCamera"
      BY <2>1
    <2>3. Len(se) \in 1 .. 2 /\ se # <<>>
      BY ONLY <2>1
    <2>4. HasOp(se, "reloadCamera")
      BY <2>1 DEF HasOp
    <2> QED
      BY <2>1, <2>2, <2>3, <2>4 DEF LineOK, Changes, Is, HasOp
  <1>5. /\ sa \in Seq(Step)
        /\ sa # <<>> => LineOK(sa) /\ (Has(c, "channel") \/ Has(c, "radio"))
        /\ \A op : HasOp(sa, op) => op = "write"
        /\ \A x : Changes(sa, x) => x \in {"channel", "radio"}
    BY RadioLine
  <1>6. /\ sb \in Seq(Step)
        /\ sb # <<>> => LineOK(sb) /\ Has(c, "camera")
        /\ \A op : HasOp(sb, op) => op = "write"
        /\ \A x : Changes(sb, x) => x = "camera"
    <2>1. /\ sb \in Seq(Step) /\ Len(sb) <= 1 /\ (Has(c, "camera") <=> sb # <<>>)
          /\ \A i \in DOMAIN sb : Is(sb[i], "camera") /\ TypedValue("camera", sb[i].value)
      BY WriteOf
    <2> HIDE DEF sb
    <2>2. ASSUME sb # <<>> PROVE Len(sb) \in 1 .. 2
      <3>1. sb \in Seq(Step) /\ Len(sb) <= 1
        BY <2>1
      <3>2. Len(sb) \in Nat /\ 1 \in DOMAIN sb /\ DOMAIN sb = 1 .. Len(sb)
        BY ONLY <3>1, <2>2, HeadTail
      <3> QED
        BY ONLY <3>1, <3>2
    <2> QED
      BY <2>1, <2>2, WritesOnly DEF HasOp, Changes, Is
  <1>7. /\ sc \in Seq(Step)
        /\ sc # <<>> => LineOK(sc)
        /\ \A op : HasOp(sc, op) => op \in {"write", "startUnlessRunning", "kill"}
        /\ HasOp(sc, "kill") <=> (Has(c, "enabled") /\ ~Has(c, "profiles") /\ ~c.enabled)
        /\ HasOp(sc, "startUnlessRunning") <=>
             (Has(c, "enabled") /\ ~Has(c, "profiles") /\ c.enabled)
        /\ \A x : Changes(sc, x) => x \in {"alink", "profiles"}
        /\ HasOp(sc, "kill") => AlinkKind(c) = "line"
    BY AlinkSteps
  <1>8. AlinkKind(c) \in Kinds /\ "line" \in Kinds /\ "wfb" \in Kinds
    BY DEF AlinkKind, Kinds
  <1> HIDE DEF sa, sb, sc, sd, se, sf
  (* What makes which of them necessary, and what they do to alink_drone.  *)
  <1>9. /\ NeedsWfb(sa) => RestartsWfb(c)
        /\ ~NeedsWfb(sb) /\ (NeedsWfb(sc) => RestartsWfb(c))
        /\ ~NeedsWfb(sd) /\ ~NeedsWfb(se) /\ ~NeedsWfb(sf)
    <2>1. sa # <<>> \/ ~NeedsWfb(sa)
      <3>1. sa = <<>> => DOMAIN sa = {}
        OBVIOUS
      <3> QED
        BY <3>1 DEF NeedsWfb, SwitchesOff, HasOp, Changes
    <2>2. NeedsWfb(sa) => RestartsWfb(c)
      BY <2>1, <1>5 DEF RestartsWfb
    <2>3. ~NeedsWfb(sb)
      BY <1>6 DEF NeedsWfb, SwitchesOff
    <2>4. NeedsWfb(sc) => RestartsWfb(c)
      BY <1>7 DEF NeedsWfb, SwitchesOff, RestartsWfb
    <2> QED
      BY <2>2, <2>3, <2>4, <1>2, <1>3, <1>4 DEF NeedsWfb, SwitchesOff
  <1>10. /\ Changes(sb, "camera") => Has(c, "camera")
         /\ ~Changes(sa, "camera") /\ ~Changes(sc, "camera") /\ ~Changes(sd, "camera")
         /\ ~Changes(se, "camera") /\ ~Changes(sf, "camera")
    <2>1. sb = <<>> => DOMAIN sb = {}
      OBVIOUS
    <2>2. Changes(sb, "camera") => sb # <<>>
      BY <2>1 DEF Changes
    <2>3. Changes(sb, "camera") => Has(c, "camera")
      BY <2>2, <1>6
    <2>4. ~Changes(sa, "camera")
      BY <1>5
    <2>5. ~Changes(sc, "camera")
      BY <1>7
    <2>6. ~Changes(sd, "camera") /\ ~Changes(se, "camera") /\ ~Changes(sf, "camera")
      BY <1>2, <1>3, <1>4
    <2> QED
      BY <2>3, <2>4, <2>5, <2>6
  <1>11. /\ KindOK("line", sa) /\ KindOK("line", sb) /\ KindOK(AlinkKind(c), sc)
         /\ KindOK("wfb", sd) /\ KindOK("line", se) /\ KindOK("line", sf)
    BY <1>2, <1>7, <1>9, <1>10 DEF KindOK, NeedsWfb, SwitchesOff
  <1>12. ASSUME NEW w
         PROVE  LET v == Asked(c, w) IN
                /\ WantedBy(sa, v) /\ WantedBy(sb, v) /\ WantedBy(sc, v) /\ WantedBy(sd, v)
                /\ WantedBy(se, v)
                /\ RestartsAlink(c) => WantedBy(sf, v)
    <2> DEFINE v == Asked(c, w)
    <2>1. Has(c, "enabled") => v = {c.enabled} /\ c.enabled \in BOOLEAN
      BY DEF Asked, SettingsOK, TypedValue, Has
    <2>2. RestartsAlink(c) => TRUE \in v
      BY DEF RestartsAlink, Asked
    <2> HIDE DEF v
    <2>3. WantedBy(sa, v) /\ WantedBy(sb, v) /\ WantedBy(sd, v) /\ WantedBy(se, v)
      <3>1. WantedBy(sa, v)
        BY <1>5 DEF WantedBy, SwitchesOff
      <3>2. WantedBy(sb, v)
        BY <1>6 DEF WantedBy, SwitchesOff
      <3>3. WantedBy(sd, v)
        <4>1. ~HasOp(sd, "kill") /\ ~HasOp(sd, "startAlink") /\ ~HasOp(sd, "startUnlessRunning")
          BY <1>2
        <4> QED
          BY <4>1 DEF WantedBy, SwitchesOff
      <3>4. WantedBy(se, v)
        BY <1>4 DEF WantedBy, SwitchesOff
      <3> QED
        BY <3>1, <3>2, <3>3, <3>4
    <2>4. WantedBy(sc, v)
      <3>2. HasOp(sc, "kill") => FALSE \in v
        BY <1>7, <2>1
      <3>4. HasOp(sc, "startUnlessRunning") => TRUE \in v
        BY <1>7, <2>1
      <3>5. ~HasOp(sc, "startAlink")
        BY <1>7
      <3> QED
        BY <3>2, <3>4, <3>5 DEF WantedBy, SwitchesOff
    <2>5. RestartsAlink(c) => WantedBy(sf, v)
      BY <1>3, <2>2 DEF WantedBy, SwitchesOff
    <2> QED
      BY <2>3, <2>4, <2>5 DEF v
  (* Each as a line. *)
  <1>13. /\ (a = <<>> \/ a = <<[kind |-> "line", steps |-> sa]>>) /\ (sa = <<>> => a = <<>>)
         /\ (b = <<>> \/ b = <<[kind |-> "line", steps |-> sb]>>) /\ (sb = <<>> => b = <<>>)
         /\ g = <<>> \/ g = <<[kind |-> AlinkKind(c), steps |-> sc]>>
         /\ g = <<>> <=> sc = <<>>
         /\ d = <<>> \/ d = <<[kind |-> "wfb", steps |-> sd]>>
         /\ d = <<>> <=> ~RestartsWfb(c)
         /\ e = <<>> \/ e = <<[kind |-> "line", steps |-> se]>>
         /\ e = <<>> <=> ~Has(c, "camera")
         /\ f = <<>> \/ f = <<[kind |-> "line", steps |-> sf]>>
         /\ f = <<>> <=> ~RestartsAlink(c)
    <2>1. \A kind, steps : steps # <<>> =>
            Line(kind, steps) = <<[kind |-> kind, steps |-> steps]>> /\ Line(kind, steps) # <<>>
      BY DEF Line
    <2>2. \A kind : Line(kind, <<>>) = <<>>
      BY DEF Line
    <2>3. \A condition, line : When(condition, line) = IF condition THEN line ELSE <<>>
      BY DEF When
    <2> QED
      BY <2>1, <2>2, <2>3, <1>2, <1>3, <1>4
  <1> HIDE DEF a, b, g, d, e, f
  <1>14. /\ a \in Seq(CommandLine) /\ Len(a) <= 1
         /\ \A i \in DOMAIN a : a # <<>> /\ a[i].kind = "line" /\ a[i].steps = sa
         /\ \A op : HasLine(a, op) <=> (a # <<>> /\ HasOp(sa, op))
    BY <1>5, <1>8, <1>13, OneLine
  <1>15. /\ b \in Seq(CommandLine) /\ Len(b) <= 1
         /\ \A i \in DOMAIN b : b # <<>> /\ b[i].kind = "line" /\ b[i].steps = sb
         /\ \A op : HasLine(b, op) <=> (b # <<>> /\ HasOp(sb, op))
    BY <1>6, <1>8, <1>13, OneLine
  <1>16. /\ g \in Seq(CommandLine) /\ Len(g) <= 1
         /\ \A i \in DOMAIN g : g # <<>> /\ g[i].kind = AlinkKind(c) /\ g[i].steps = sc
         /\ \A op : HasLine(g, op) <=> (g # <<>> /\ HasOp(sc, op))
    BY <1>7, <1>8, <1>13, OneLine
  <1>17. /\ d \in Seq(CommandLine) /\ Len(d) <= 1
         /\ \A i \in DOMAIN d : d # <<>> /\ d[i].kind = "wfb" /\ d[i].steps = sd
         /\ \A op : HasLine(d, op) <=> (d # <<>> /\ HasOp(sd, op))
    BY <1>2, <1>8, <1>13, OneLine
  <1>18. /\ e \in Seq(CommandLine) /\ Len(e) <= 1
         /\ \A i \in DOMAIN e : e # <<>> /\ e[i].kind = "line" /\ e[i].steps = se
         /\ \A op : HasLine(e, op) <=> (e # <<>> /\ HasOp(se, op))
    BY <1>4, <1>8, <1>13, OneLine
  <1>19. /\ f \in Seq(CommandLine) /\ Len(f) <= 1
         /\ \A i \in DOMAIN f : f # <<>> /\ f[i].kind = "line" /\ f[i].steps = sf
         /\ \A op : HasLine(f, op) <=> (f # <<>> /\ HasOp(sf, op))
    BY <1>3, <1>8, <1>13, OneLine
  (* All of them, from the last to the first. *)
  <1>20. Ordered(f)
    <2>1. \A i \in DOMAIN f : ~NeedsWfb(f[i].steps) /\ ~Changes(f[i].steps, "camera")
      BY <1>9, <1>10, <1>19
    <2> QED
      BY <2>1, <1>3, <1>11, <1>19 DEF Ordered
  <1>21. /\ ef \in Seq(CommandLine) /\ Ordered(ef)
         /\ \A op : HasLine(ef, op) <=> (HasLine(e, op) \/ HasLine(f, op))
         /\ \A w : AllWantedBy(e, w) /\ AllWantedBy(f, w) => AllWantedBy(ef, w)
    BY <1>4, <1>9, <1>10, <1>11, <1>18, <1>19, <1>20, LineBefore DEF JobOrdered
  <1> HIDE DEF ef
  <1>22. /\ df \in Seq(CommandLine) /\ Ordered(df)
         /\ \A op : HasLine(df, op) <=> (HasLine(d, op) \/ HasLine(ef, op))
         /\ \A w : AllWantedBy(d, w) /\ AllWantedBy(ef, w) => AllWantedBy(df, w)
    BY <1>2, <1>9, <1>10, <1>11, <1>17, <1>21, LineBefore DEF JobOrdered
  <1>23. /\ RestartsWfb(c) => HasLine(df, "startWfb")
         /\ Has(c, "camera") => HasLine(df, "reloadCamera")
    BY <1>2, <1>4, <1>13, <1>17, <1>18, <1>21, <1>22
  <1> HIDE DEF df
  <1>24. /\ gf \in Seq(CommandLine) /\ Ordered(gf)
         /\ \A op : HasLine(gf, op) <=> (HasLine(g, op) \/ HasLine(df, op))
         /\ \A w : AllWantedBy(g, w) /\ AllWantedBy(df, w) => AllWantedBy(gf, w)
    <2>1. \A i \in DOMAIN g : LineOK(g[i].steps) /\ KindOK(g[i].kind, g[i].steps)
      BY <1>7, <1>11, <1>13, <1>16
    <2>2. \A i \in DOMAIN g : JobOrdered(g[i].steps, df)
      BY <1>9, <1>10, <1>16, <1>23 DEF JobOrdered
    <2> QED
      BY <2>1, <2>2, <1>16, <1>22, LineBefore
  <1> HIDE DEF gf
  <1>25. /\ bf \in Seq(CommandLine) /\ Ordered(bf)
         /\ \A op : HasLine(bf, op) <=> (HasLine(b, op) \/ HasLine(gf, op))
         /\ \A w : AllWantedBy(b, w) /\ AllWantedBy(gf, w) => AllWantedBy(bf, w)
    <2>1. \A i \in DOMAIN b : LineOK(b[i].steps) /\ KindOK(b[i].kind, b[i].steps)
      BY <1>6, <1>11, <1>13, <1>15
    <2>2. \A i \in DOMAIN b : JobOrdered(b[i].steps, gf)
      BY <1>9, <1>10, <1>15, <1>23, <1>24 DEF JobOrdered
    <2> QED
      BY <2>1, <2>2, <1>15, <1>24, LineBefore
  <1> HIDE DEF bf
  <1>26. /\ af \in Seq(CommandLine) /\ Ordered(af)
         /\ \A op : HasLine(af, op) <=> (HasLine(a, op) \/ HasLine(bf, op))
         /\ \A w : AllWantedBy(a, w) /\ AllWantedBy(bf, w) => AllWantedBy(af, w)
    <2>1. \A i \in DOMAIN a : LineOK(a[i].steps) /\ KindOK(a[i].kind, a[i].steps)
      BY <1>5, <1>11, <1>13, <1>14
    <2>2. \A i \in DOMAIN a : JobOrdered(a[i].steps, bf)
      BY <1>9, <1>10, <1>14, <1>23, <1>24, <1>25 DEF JobOrdered
    <2> QED
      BY <2>1, <2>2, <1>14, <1>25, LineBefore
  <1>27. Commands(c) = af
    <2>1. PICK p : p = a \o b
      OBVIOUS
    <2>2. PICK q : q = p \o g
      OBVIOUS
    <2>3. PICK r : r = q \o d
      OBVIOUS
    <2>4. p \in Seq(CommandLine) /\ q \in Seq(CommandLine) /\ r \in Seq(CommandLine)
      <3>1. p \in Seq(CommandLine)
        BY <2>1, <1>14, <1>15, Joined
      <3>2. q \in Seq(CommandLine)
        BY <2>2, <3>1, <1>16, Joined
      <3>3. r \in Seq(CommandLine)
        BY <2>3, <3>2, <1>17, Joined
      <3> QED
        BY <3>1, <3>2, <3>3
    <2>5. Commands(c) = (r \o e) \o f
      BY <2>1, <2>2, <2>3 DEF Commands, a, b, g, d, e, f, sa, sb, sc, sd, se, sf
    <2>6. (r \o e) \o f = r \o ef
      BY <2>4, <1>18, <1>19, ConcatAssociative DEF ef
    <2>7. r \o ef = q \o df
      <3>1. q \in Seq(CommandLine) /\ d \in Seq(CommandLine) /\ ef \in Seq(CommandLine)
        BY <2>4, <1>17, <1>21
      <3>2. (q \o d) \o ef = q \o (d \o ef)
        BY ONLY <3>1, ConcatAssociative
      <3> QED
        BY <3>2, <2>3 DEF df
    <2>8. q \o df = p \o gf
      BY <2>2, <2>4, <1>16, <1>22, ConcatAssociative DEF gf
    <2>9. p \o gf = af
      BY <2>1, <1>14, <1>15, <1>24, ConcatAssociative DEF bf
    <2> QED
      BY <2>5, <2>6, <2>7, <2>8, <2>9
  <1>28. ASSUME NEW w PROVE AllWantedBy(af, Asked(c, w))
    <2> DEFINE v == Asked(c, w)
    <2>1. /\ WantedBy(sa, v) /\ WantedBy(sb, v) /\ WantedBy(sc, v) /\ WantedBy(sd, v)
          /\ WantedBy(se, v)
          /\ RestartsAlink(c) => WantedBy(sf, v)
      BY <1>12
    <2> HIDE DEF v
    <2>2. /\ AllWantedBy(a, v) /\ AllWantedBy(b, v) /\ AllWantedBy(g, v) /\ AllWantedBy(d, v)
          /\ AllWantedBy(e, v)
      BY <2>1, <1>14, <1>15, <1>16, <1>17, <1>18 DEF AllWantedBy
    <2>3. AllWantedBy(f, v)
      BY <2>1, <1>13, <1>19 DEF AllWantedBy
    <2> QED
      BY <2>2, <2>3, <1>21, <1>22, <1>24, <1>25, <1>26 DEF v
  <1> HIDE DEF af
  <1>29. \A op : HasLine(af, op) <=> \/ HasLine(a, op) \/ HasLine(b, op) \/ HasLine(g, op)
                                      \/ HasLine(d, op) \/ HasLine(e, op) \/ HasLine(f, op)
    BY <1>21, <1>22, <1>24, <1>25, <1>26
  <1>30. Has(c, "channel") \/ Has(c, "radio") => HasLine(af, "startWfb")
    BY <1>2, <1>13, <1>17, <1>29 DEF RestartsWfb
  <1>31. Has(c, "camera") => HasLine(af, "reloadCamera")
    BY <1>4, <1>13, <1>18, <1>29
  <1>32. Has(c, "enabled") /\ ~Has(c, "profiles") =>
           HasLine(af, "startUnlessRunning") \/ HasLine(af, "kill")
    <2> SUFFICES ASSUME Has(c, "enabled") /\ ~Has(c, "profiles")
                 PROVE  HasLine(g, "startUnlessRunning") \/ HasLine(g, "kill")
      BY <1>29
    <2>1. HasOp(sc, "startUnlessRunning") \/ HasOp(sc, "kill")
      BY <1>7
    <2>2. sc # <<>>
      <3>1. sc = <<>> => DOMAIN sc = {}
        OBVIOUS
      <3> QED
        BY <2>1, <3>1 DEF HasOp
    <2> QED
      BY <2>1, <2>2, <1>13, <1>16
  <1>33. Has(c, "alink") /\ ~Has(c, "enabled") => HasLine(af, "kill")
    BY <1>3, <1>13, <1>19, <1>29 DEF RestartsAlink
  <1> QED
    BY <1>26, <1>27, <1>28, <1>30, <1>31, <1>32, <1>33

-----------------------------------------------------------------------------
(***************************************************************************)
(* The steps of requests                                                   *)
(***************************************************************************)
(* What runs follows the files as before, while what is to come still is.  *)
Wakes == Ops \ {"write"}

LEMMA FilesStay ==
  ASSUME FilesFollowed, UNCHANGED <<file, radio, camera, alink>>, ~broken' => ~broken,
         \A op \in Wakes : Coming(handler, jobs, op) => Coming(handler', jobs', op)
  PROVE  FilesFollowed'
  BY DEF FilesFollowed, ParamsInForce, Stopped, Wakes, Ops

LEMMA SwitchStays ==
  ASSUME SwitchComing, UNCHANGED alink, ~broken' => ~broken, wanted \subseteq wanted',
         \A op \in Wakes : Coming(handler, jobs, op) => Coming(handler', jobs', op)
  PROVE  SwitchComing'
  BY DEF SwitchComing, Stopped, Wakes, Ops

(* A step of a request, which does nothing on the drone.                    *)
LEMMA RequestsOnly ==
  ASSUME ConfigInv, UNCHANGED <<file, radio, camera, alink>>, gsChannel' \in Channels,
         RequestTypes', OrderInv', SwitchAsked', wanted \subseteq wanted', ~broken' => ~broken,
         \A op \in Wakes : Coming(handler, jobs, op) => Coming(handler', jobs', op)
  PROVE  ConfigInv'
  <1>1. FilesFollowed' /\ SwitchComing'
    BY FilesStay, SwitchStays DEF ConfigInv
  <1>2. FileTypes' /\ RunningTypes'
    BY DEF ConfigInv, FileTypes, RunningTypes
  <1> QED
    BY <1>1, <1>2 DEF ConfigInv

(* One handler is changed.                                                  *)
LEMMA HandlerChanged ==
  ASSUME RequestTypes, NEW h \in Handlers, NEW hd, HandlerOK(hd),
         handler' = [handler EXCEPT ![h] = hd]
  PROVE  /\ DOMAIN handler' = Handlers /\ handler'[h] = hd
         /\ \A x \in Handlers : x # h => handler'[x] = handler[x]
         /\ \A x \in Handlers : HandlerOK(handler'[x])
  BY DEF RequestTypes

LEMMA FetchKeeps ==
  ASSUME ConfigInv, NEW h \in Handlers, Fetch(h)
  PROVE  ConfigInv'
  <1> DEFINE hd == [handler[h] EXCEPT !.copy = Config]
  <1>1. /\ UNCHANGED <<file, radio, camera, alink, jobs, gsChannel, wanted, broken, left>>
        /\ handler' = [handler EXCEPT ![h] = hd]
    BY DEF Fetch
  <1>2. CopyOK(Config)
    <2> DEFINE D == WholePage \union {x \in {"profiles"} : file.profiles # NoProfiles}
    <2>1. DOMAIN Config = D /\ \A f \in D : Config[f] = Parsed(f)
      BY DEF Config
    <2>2. \A f \in {"channel", "radio", "camera", "alink"} : Parsed(f) = file[f] /\ TypedValue(f, file[f])
      BY DEF Parsed, ConfigInv, FileTypes, Sections
    <2>3. Parsed("enabled") \in BOOLEAN
      BY DEF Parsed
    <2>4. Parsed("profiles") \in Prof
      <3>1. Parsed("profiles") = [file.profiles EXCEPT !.roi = "skipped"]
        BY DEF Parsed, ParsedProfiles
      <3>2. file.profiles \in Prof
        BY DEF ConfigInv, FileTypes, Sections, TypedValue
      <3> QED
        BY <3>1, <3>2 DEF Prof
    <2>5. \A f \in D : TypedValue(f, Config[f])
      BY <2>1, <2>2, <2>3, <2>4 DEF WholePage, TypedValue
    <2>6. "profiles" \in D => HasProfiles
      BY DEF ConfigInv, FileTypes, WholePage
    <2> QED
      BY <2>1, <2>5, <2>6 DEF CopyOK, SettingsOK, Fields
  <1>3. HandlerOK(hd) /\ Unsent(hd) = Unsent(handler[h]) /\ hd.sent = handler[h].sent
    BY <1>2 DEF ConfigInv, RequestTypes, HandlerOK, Unsent
  <1> HIDE DEF hd
  <1>4. /\ DOMAIN handler' = Handlers
        /\ \A x \in Handlers : /\ HandlerOK(handler'[x])
                               /\ Unsent(handler'[x]) = Unsent(handler[x])
                               /\ handler'[x].sent = handler[x].sent
    BY <1>1, <1>3, HandlerChanged DEF ConfigInv
  <1>5. \A op : Coming(handler, jobs, op) => Coming(handler', jobs', op)
    BY <1>1, <1>4 DEF Coming
  <1>6. RequestTypes' /\ OrderInv' /\ SwitchAsked'
    BY <1>1, <1>4 DEF ConfigInv, OrderInv, RequestTypes, SwitchAsked
  <1> QED
    BY <1>1, <1>5, <1>6, RequestsOnly DEF ConfigInv, RunningTypes

(* A save begins.                                                           *)
LEMMA SaveKeeps ==
  ASSUME ConfigInv, NEW h \in Handlers, NEW copy, CopyOK(copy),
         NEW c, SettingsOK(c), Has(c, "profiles") => Has(c, "enabled"),
         Save(h, copy, c)
  PROVE  ConfigInv'
  <1> DEFINE hd == [copy |-> copy, todo |-> Commands(c), sent |-> FALSE]
  <1>1. /\ UNCHANGED <<file, radio, camera, alink, jobs, gsChannel>>
        /\ handler' = [handler EXCEPT ![h] = hd]
        /\ broken' = (broken /\ ~(Quiet /\ WholePage \subseteq DOMAIN c))
        /\ wanted' = IF Quiet THEN Asked(c, wanted) ELSE wanted \union Asked(c, wanted)
        /\ handler[h].todo = <<>> /\ JobsOf(h) = {}
    BY DEF Save, Asked, Free
  <1>2. HandlerOK(hd) /\ Unsent(hd) = Commands(c) /\ hd.sent = FALSE
    BY CommandsOfSave DEF HandlerOK, Unsent
  <1> HIDE DEF hd
  <1>3. /\ DOMAIN handler' = Handlers
        /\ \A x \in Handlers : HandlerOK(handler'[x])
        /\ handler'[h] = hd
        /\ \A x \in Handlers : x # h => handler'[x] = handler[x]
    BY <1>1, <1>2, HandlerChanged DEF ConfigInv
  <1>4. Unsent(handler[h]) = <<>>
    BY <1>1 DEF ConfigInv, RequestTypes, HandlerOK, Unsent
  <1>5. \A op : Coming(handler, jobs, op) => Coming(handler', jobs', op)
    <2>1. \A op : ~HasLine(<<>>, op)
      BY DEF HasLine
    <2> QED
      BY <1>1, <1>3, <1>4, <2>1 DEF Coming
  <1>6. \A op : HasLine(Commands(c), op) => Coming(handler', jobs', op)
    BY <1>2, <1>3 DEF Coming
  <1>7. Asked(c, wanted) \in (SUBSET BOOLEAN) \ {{}}
    BY DEF Asked, SettingsOK, TypedValue, Has, ConfigInv, RequestTypes
  <1>8. RequestTypes'
    <2>1. wanted' \in (SUBSET BOOLEAN) \ {{}}
      BY <1>1, <1>7 DEF ConfigInv, RequestTypes
    <2>2. broken' \in BOOLEAN
      BY <1>1
    <2> QED
      BY <1>1, <1>3, <2>1, <2>2 DEF ConfigInv, RequestTypes
  <1>9. \A id \in DOMAIN jobs : id[1] \in Handlers /\ id[1] # h
    BY <1>1 DEF JobsOf, ConfigInv, RequestTypes
  <1>10. Quiet => DOMAIN jobs = {}
    BY DEF Quiet
  <1>11. OrderInv'
    <2>1. \A x \in Handlers : Ordered(Unsent(handler'[x]))
      BY <1>2, <1>3, CommandsOfSave DEF ConfigInv, OrderInv
    <2>2. ~broken' => DOMAIN jobs = {} \/ ~broken
      BY <1>1, <1>10
    <2> QED
      BY <1>1, <1>3, <1>9, <2>1, <2>2 DEF ConfigInv, OrderInv
  <1>12. SwitchAsked'
    <2>1. Asked(c, wanted) \subseteq wanted'
      BY <1>1
    <2>2. \A s, v, w : AllWantedBy(s, v) /\ v \subseteq w => AllWantedBy(s, w)
      BY DEF AllWantedBy, WantedBy
    <2>3. AllWantedBy(Unsent(handler'[h]), wanted')
      BY <1>2, <1>3, <2>1, <2>2, CommandsOfSave
    <2>4. CASE Quiet
      <3>1. \A x \in Handlers : x # h => Unsent(handler'[x]) = <<>>
        BY <1>3, <2>4 DEF Quiet, ConfigInv, RequestTypes, HandlerOK, Unsent
      <3>2. AllWantedBy(<<>>, wanted')
        BY DEF AllWantedBy
      <3> QED
        BY <1>1, <1>10, <2>3, <2>4, <3>1, <3>2 DEF SwitchAsked
    <2>5. CASE ~Quiet
      <3>1. wanted \subseteq wanted'
        BY <1>1, <2>5
      <3> QED
        BY <1>1, <1>3, <2>2, <2>3, <3>1 DEF ConfigInv, SwitchAsked, WantedBy
    <2> QED
      BY <2>4, <2>5
  <1>13. FilesFollowed'
    <2>1. CASE ~broken' => ~broken
      BY <1>1, <1>5, <2>1, FilesStay DEF ConfigInv
    <2>2. CASE WholePage \subseteq DOMAIN c
      <3>1. HasLine(Commands(c), "startWfb") /\ HasLine(Commands(c), "reloadCamera")
        BY <2>2, CommandsOfSave DEF WholePage, Has
      <3> QED
        BY <1>6, <3>1 DEF FilesFollowed
    <2> QED
      BY <1>1, <2>1, <2>2
  <1>14. SwitchComing'
    <2> SUFFICES ASSUME ~broken', ~HasProfiles
                 PROVE  \/ (alink # Stopped) \in wanted'
                        \/ \E op \in {"kill", "startAlink", "startUnlessRunning"} :
                             Coming(handler', jobs', op)
      BY <1>1 DEF SwitchComing, Stopped
    <2>1. ~Has(c, "profiles")
      BY DEF SettingsOK, Has
    <2>2. CASE Has(c, "enabled") \/ Has(c, "alink")
      BY <1>6, <2>1, <2>2, CommandsOfSave
    <2>3. CASE ~Has(c, "enabled") /\ ~Has(c, "alink")
      <3>1. wanted \subseteq wanted'
        BY <1>1, <2>3 DEF Asked
      <3>2. ~broken
        BY <1>1, <2>3 DEF WholePage, Has
      <3> QED
        BY <1>5, <3>1, <3>2 DEF ConfigInv, SwitchComing
    <2> QED
      BY <2>2, <2>3
  <1> QED
    <2>1. FileTypes' /\ RunningTypes'
      BY <1>1 DEF ConfigInv, FileTypes, RunningTypes
    <2> QED
      BY <2>1, <1>8, <1>11, <1>12, <1>13, <1>14 DEF ConfigInv

LEMMA SavePageKeeps ==
  ASSUME ConfigInv, NEW h \in Handlers, SavePage(h)
  PROVE  ConfigInv'
  <1>0. PICK field \in Edits :
          \E value \in CASE field = "channel" -> Channels
                         [] field = "enabled" -> BOOLEAN
                         [] OTHER -> Settings :
            Save(h, [handler[h].copy EXCEPT ![field] = value],
                    [handler[h].copy EXCEPT ![field] = value])
    BY DEF SavePage
  <1>1. PICK value \in CASE field = "channel" -> Channels
                         [] field = "enabled" -> BOOLEAN
                         [] OTHER -> Settings :
          Save(h, [handler[h].copy EXCEPT ![field] = value],
                  [handler[h].copy EXCEPT ![field] = value])
    BY <1>0
  <1>2. PICK c : c = [handler[h].copy EXCEPT ![field] = value]
    OBVIOUS
  <1>3. SettingsOK(handler[h].copy) /\ WholePage \subseteq DOMAIN handler[h].copy
    BY DEF SavePage, ConfigInv, RequestTypes, HandlerOK, CopyOK
  <1>4. field \in WholePage /\ TypedValue(field, value)
    BY <1>1, DroneAssumption DEF WholePage, TypedValue
  <1>5. /\ DOMAIN c = DOMAIN handler[h].copy
        /\ \A f \in DOMAIN c : TypedValue(f, c[f])
    BY <1>2, <1>3, <1>4 DEF SettingsOK
  <1>6. SettingsOK(c) /\ CopyOK(c) /\ Has(c, "enabled")
    BY <1>3, <1>5 DEF SettingsOK, CopyOK, Has, WholePage
  <1> QED
    BY <1>1, <1>2, <1>6, SaveKeeps

LEMMA SavePartKeeps ==
  ASSUME ConfigInv, NEW h \in Handlers, SavePart(h)
  PROVE  ConfigInv'
  <1>1. PICK fields \in Partial, value \in Settings, channel \in Channels :
          Save(h, handler[h].copy, [f \in fields |-> IF f = "channel" THEN channel ELSE value])
    BY DEF SavePart
  <1>2. PICK c : c = [f \in fields |-> IF f = "channel" THEN channel ELSE value]
    OBVIOUS
  <1>3. DOMAIN c \subseteq {"channel", "radio", "camera", "alink"} /\ \A f \in DOMAIN c : TypedValue(f, c[f])
    BY <1>2, DroneAssumption DEF TypedValue
  <1>4. SettingsOK(c) /\ ~Has(c, "profiles")
    BY <1>3 DEF SettingsOK, Has, Fields, WholePage
  <1>5. CopyOK(handler[h].copy)
    BY DEF ConfigInv, RequestTypes, HandlerOK
  <1> QED
    BY <1>1, <1>2, <1>4, <1>5, SaveKeeps

(* A line is given to the drone.                                            *)
LEMMA DeliverKeeps ==
  ASSUME ConfigInv, NEW h \in Handlers, Deliver(h)
  PROVE  ConfigInv'
  <1> DEFINE todo == handler[h].todo
             line == Head(todo)
             id   == <<h, line.kind>>
             hd   == IF line.kind = "line" THEN [handler[h] EXCEPT !.sent = TRUE]
                                           ELSE [handler[h] EXCEPT !.todo = Tail(todo)]
  <1>1. HandlerOK(handler[h])
    BY DEF ConfigInv, RequestTypes
  <1>2. /\ UNCHANGED <<file, radio, camera, alink, gsChannel, wanted, broken>>
        /\ todo # <<>> /\ todo \in Seq(CommandLine) /\ ~handler[h].sent
        /\ id \notin DOMAIN jobs
        /\ jobs' = [j \in DOMAIN jobs \union {id} |-> IF j = id THEN line.steps ELSE jobs[j]]
    BY <1>1 DEF Deliver, HandlerOK
  <1>3. handler' = [handler EXCEPT ![h] = hd]
    BY DEF Deliver
  <1>4. Unsent(handler[h]) = todo
    BY <1>2 DEF Unsent
  <1>5. Ordered(todo) /\ AllWantedBy(todo, wanted)
    BY <1>4 DEF ConfigInv, OrderInv, SwitchAsked
  <1>6. /\ line \in CommandLine /\ LineOK(line.steps) /\ KindOK(line.kind, line.steps)
        /\ JobOrdered(line.steps, Tail(todo))
        /\ Tail(todo) \in Seq(CommandLine) /\ Ordered(Tail(todo))
        /\ \A op : HasLine(todo, op) <=> (HasOp(line.steps, op) \/ HasLine(Tail(todo), op))
        /\ \A i \in DOMAIN Tail(todo) : \E j \in DOMAIN todo : Tail(todo)[i] = todo[j]
        /\ \E j \in DOMAIN todo : line = todo[j]
    BY <1>2, <1>5, RestOfLines
  <1>7. AllWantedBy(Tail(todo), wanted) /\ WantedBy(line.steps, wanted)
    BY <1>5, <1>6 DEF AllWantedBy
  <1>8. /\ HandlerOK(hd) /\ Unsent(hd) = Tail(todo)
        /\ line.kind = "line" => hd.sent
    <2>1. CASE line.kind = "line"
      <3>1. hd = [handler[h] EXCEPT !.sent = TRUE]
        BY <2>1
      <3> QED
        BY <1>1, <1>2, <3>1 DEF HandlerOK, Unsent
    <2>2. CASE line.kind # "line"
      <3>1. hd = [handler[h] EXCEPT !.todo = Tail(todo)]
        BY <2>2
      <3> QED
        BY <1>1, <1>2, <1>6, <2>2, <3>1 DEF HandlerOK, Unsent
    <2> QED
      BY <2>1, <2>2
  <1>9. /\ DOMAIN handler' = Handlers
        /\ \A x \in Handlers : HandlerOK(handler'[x])
        /\ handler'[h] = hd
        /\ \A x \in Handlers : x # h => handler'[x] = handler[x]
    <2> HIDE DEF hd
    <2> QED
      BY <1>3, <1>8, HandlerChanged DEF ConfigInv
  <1>10. id \in Handlers \X Kinds /\ id[1] = h /\ id[2] = line.kind
    BY <1>6 DEF CommandLine
  <1> HIDE DEF hd, line, id, todo
  <1>11. /\ DOMAIN jobs' = DOMAIN jobs \union {id}
         /\ jobs'[id] = line.steps
         /\ \A j \in DOMAIN jobs : jobs'[j] = jobs[j] /\ j # id
    BY <1>2
  <1>12. \A op : Coming(handler, jobs, op) => Coming(handler', jobs', op)
    <2> SUFFICES ASSUME NEW op, Coming(handler, jobs, op) PROVE Coming(handler', jobs', op)
      OBVIOUS
    <2>1. CASE \E j \in DOMAIN jobs : HasOp(jobs[j], op)
      BY <2>1, <1>11 DEF Coming
    <2>2. CASE \E x \in Handlers : HasLine(Unsent(handler[x]), op)
      <3>1. PICK x \in Handlers : HasLine(Unsent(handler[x]), op)
        BY <2>2
      <3>2. CASE x # h
        BY <3>1, <3>2, <1>9 DEF Coming
      <3>3. CASE x = h
        BY <3>1, <3>3, <1>4, <1>6, <1>8, <1>9, <1>11 DEF Coming
      <3> QED
        BY <3>2, <3>3
    <2> QED
      BY <2>1, <2>2 DEF Coming
  <1>13. RequestTypes'
    BY <1>2, <1>9, <1>10, <1>11 DEF ConfigInv, RequestTypes
  <1>14. OrderInv'
    <2>1. \A x \in Handlers : Ordered(Unsent(handler'[x]))
      BY <1>6, <1>8, <1>9 DEF ConfigInv, OrderInv
    <2>2. \A j \in DOMAIN jobs' : LineOK(jobs'[j]) /\ KindOK(j[2], jobs'[j])
      BY <1>6, <1>10, <1>11 DEF ConfigInv, OrderInv
    <2>3. ASSUME ~broken, NEW j \in DOMAIN jobs
          PROVE  /\ JobOrdered(jobs[j], Unsent(handler'[j[1]]))
                 /\ j[2] = "line" => handler'[j[1]].sent
      <3>1. j[1] \in Handlers
        BY DEF ConfigInv, RequestTypes
      <3>2. CASE j[1] # h
        BY <2>3, <3>1, <3>2, <1>9 DEF ConfigInv, OrderInv
      <3>3. CASE j[1] = h
        <4>1. j[2] # "line"
          BY <2>3, <3>3, <1>2 DEF ConfigInv, OrderInv
        <4>2. JobOrdered(jobs[j], Unsent(handler'[j[1]]))
          BY <4>1 DEF JobOrdered, KindOK, ConfigInv, OrderInv
        <4> QED
          BY <4>1, <4>2
      <3> QED
        BY <3>2, <3>3
    <2>4. JobOrdered(jobs'[id], Unsent(handler'[h])) /\ (id[2] = "line" => handler'[h].sent)
      BY <1>6, <1>8, <1>9, <1>10, <1>11
    <2>5. \A j \in DOMAIN jobs' : ~broken =>
            /\ JobOrdered(jobs'[j], Unsent(handler'[j[1]]))
            /\ j[2] = "line" => handler'[j[1]].sent
      BY <2>3, <2>4, <1>10, <1>11
    <2> QED
      BY <1>2, <2>1, <2>2, <2>5 DEF OrderInv
  <1>15. SwitchAsked'
    <2>1. \A x \in Handlers : AllWantedBy(Unsent(handler'[x]), wanted)
      BY <1>7, <1>8, <1>9 DEF ConfigInv, SwitchAsked
    <2>2. \A j \in DOMAIN jobs' : WantedBy(jobs'[j], wanted)
      BY <1>7, <1>11 DEF ConfigInv, SwitchAsked
    <2> QED
      BY <1>2, <2>1, <2>2 DEF SwitchAsked
  <1> QED
    BY <1>2, <1>12, <1>13, <1>14, <1>15, RequestsOnly DEF ConfigInv, RunningTypes

(* Its end is reported.                                                     *)
LEMMA ReturnKeeps ==
  ASSUME ConfigInv, NEW h \in Handlers, Return(h)
  PROVE  ConfigInv'
  <1> DEFINE hd == [handler[h] EXCEPT !.todo = Tail(handler[h].todo), !.sent = FALSE]
  <1>1. HandlerOK(handler[h])
    BY DEF ConfigInv, RequestTypes
  <1>2. /\ UNCHANGED <<file, radio, camera, alink, jobs, gsChannel, wanted, broken>>
        /\ handler[h].sent /\ <<h, "line">> \notin DOMAIN jobs
        /\ handler' = [handler EXCEPT ![h] = hd]
    BY DEF Return
  <1>3. HandlerOK(hd) /\ Unsent(hd) = Unsent(handler[h]) /\ ~hd.sent
    <2>1. handler[h].todo # <<>> /\ handler[h].todo \in Seq(CommandLine)
      BY <1>1, <1>2 DEF HandlerOK
    <2>2. Tail(handler[h].todo) \in Seq(CommandLine)
      BY <2>1, HeadTail
    <2> QED
      BY <1>1, <1>2, <2>2 DEF HandlerOK, Unsent
  <1> HIDE DEF hd
  <1>4. /\ DOMAIN handler' = Handlers
        /\ \A x \in Handlers : /\ HandlerOK(handler'[x])
                               /\ Unsent(handler'[x]) = Unsent(handler[x])
                               /\ x # h => handler'[x].sent = handler[x].sent
    BY <1>2, <1>3, HandlerChanged DEF ConfigInv
  <1>5. \A op : Coming(handler, jobs, op) => Coming(handler', jobs', op)
    BY <1>2, <1>4 DEF Coming
  <1>6. \A j \in DOMAIN jobs : j[1] \in Handlers /\ (j[2] = "line" => j[1] # h)
    <2>1. \A j \in DOMAIN jobs : j[1] \in Handlers /\ j = <<j[1], j[2]>>
      BY DEF ConfigInv, RequestTypes
    <2> QED
      BY <2>1, <1>2
  <1>7. RequestTypes' /\ SwitchAsked'
    BY <1>2, <1>4 DEF ConfigInv, RequestTypes, SwitchAsked
  <1>8. OrderInv'
    BY <1>2, <1>4, <1>6 DEF ConfigInv, OrderInv
  <1> QED
    BY <1>2, <1>5, <1>7, <1>8, RequestsOnly DEF ConfigInv, RunningTypes

(* The connection breaks.                                                   *)
LEMMA BreakOffKeeps ==
  ASSUME ConfigInv, NEW h \in Handlers, BreakOff(h)
  PROVE  ConfigInv'
  <1> DEFINE hd == [handler[h] EXCEPT !.todo = <<>>, !.sent = FALSE]
  <1>1. HandlerOK(handler[h])
    BY DEF ConfigInv, RequestTypes
  <1>2. /\ UNCHANGED <<file, radio, camera, alink, jobs, gsChannel, wanted>>
        /\ broken' = TRUE
        /\ handler' = [handler EXCEPT ![h] = hd]
    BY DEF BreakOff
  <1>3. HandlerOK(hd) /\ Unsent(hd) = <<>>
    BY <1>1 DEF HandlerOK, Unsent
  <1> HIDE DEF hd
  <1>4. /\ DOMAIN handler' = Handlers
        /\ \A x \in Handlers : /\ HandlerOK(handler'[x])
                               /\ Unsent(handler'[x]) \in {<<>>, Unsent(handler[x])}
    BY <1>2, <1>3, HandlerChanged DEF ConfigInv
  <1>5. Ordered(<<>>) /\ AllWantedBy(<<>>, wanted)
    BY DEF Ordered, AllWantedBy
  <1>6. RequestTypes' /\ SwitchAsked' /\ OrderInv'
    BY <1>2, <1>4, <1>5 DEF ConfigInv, RequestTypes, SwitchAsked, OrderInv
  <1>7. FilesFollowed' /\ SwitchComing'
    BY <1>2 DEF FilesFollowed, SwitchComing
  <1> QED
    BY <1>2, <1>6, <1>7 DEF ConfigInv, FileTypes, RunningTypes

-----------------------------------------------------------------------------
(***************************************************************************)
(* The steps of the drone                                                  *)
(***************************************************************************)
(* What is left of the jobs when one runs a command, or is given up.       *)
LEMMA JobsLeft ==
  ASSUME NEW id \in DOMAIN jobs, NEW steps, jobs' = Rest(id, steps)
  PROVE  /\ DOMAIN jobs' \subseteq DOMAIN jobs
         /\ \A j \in DOMAIN jobs : j # id => j \in DOMAIN jobs' /\ jobs'[j] = jobs[j]
         /\ id \in DOMAIN jobs' <=> steps # <<>>
         /\ steps # <<>> => jobs'[id] = steps
  BY DEF Rest

(* What a line that is no longer in the jobs did not have is still coming. *)
LEMMA StillComing ==
  ASSUME NEW id \in DOMAIN jobs, NEW steps, jobs' = Rest(id, steps), UNCHANGED handler,
         NEW op, HasOp(jobs[id], op) => HasOp(steps, op),
         Coming(handler, jobs, op)
  PROVE  Coming(handler', jobs', op)
  <1>1. HasOp(steps, op) => steps # <<>>
    <2>1. ~HasOp(<<>>, op)
      BY DEF HasOp
    <2> QED
      BY <2>1
  <1> QED
    BY <1>1, JobsLeft DEF Coming

(* The order of the lines.                                                  *)
LEMMA OrderWhileRunning ==
  ASSUME ConfigInv, NEW id \in DOMAIN jobs, NEW steps, jobs' = Rest(id, steps),
         UNCHANGED <<handler, wanted, broken>>,
         steps # <<>> => /\ LineOK(steps)
                         /\ \A f : Changes(steps, f) => Changes(jobs[id], f)
                         /\ SwitchesOff(steps) => SwitchesOff(jobs[id])
                         /\ \A op : HasOp(steps, op) => HasOp(jobs[id], op)
  PROVE  RequestTypes' /\ OrderInv' /\ SwitchAsked'
  <1>1. /\ DOMAIN jobs' \subseteq DOMAIN jobs
        /\ \A j \in DOMAIN jobs : j # id => j \in DOMAIN jobs' /\ jobs'[j] = jobs[j]
        /\ id \in DOMAIN jobs' => steps # <<>> /\ jobs'[id] = steps
    BY JobsLeft
  <1>2. steps # <<>> => (NeedsWfb(steps) => NeedsWfb(jobs[id]))
    BY DEF NeedsWfb
  <1>3. RequestTypes'
    BY <1>1 DEF ConfigInv, RequestTypes
  <1>4. \A j \in DOMAIN jobs' :
          /\ j \in DOMAIN jobs
          /\ LineOK(jobs'[j])
          /\ NeedsWfb(jobs'[j]) => NeedsWfb(jobs[j])
          /\ Changes(jobs'[j], "camera") => Changes(jobs[j], "camera")
          /\ WantedBy(jobs[j], wanted) => WantedBy(jobs'[j], wanted)
    BY <1>1, <1>2 DEF ConfigInv, OrderInv, WantedBy
  <1>5. OrderInv'
    BY <1>4 DEF ConfigInv, OrderInv, KindOK, JobOrdered
  <1>6. SwitchAsked'
    BY <1>4 DEF ConfigInv, SwitchAsked
  <1> QED
    BY <1>3, <1>5, <1>6

(* Started from its file, alink_drone runs.                                 *)
LEMMA AlinkStarts ==
  ASSUME FileTypes
  PROVE  AlinkFiles(file) # Stopped /\ AlinkFiles(file) \in [alink : Settings \union {"stopped"}, profiles : Prof]
  <1>1. file.alink \in Settings /\ file.profiles \in Prof
    BY DEF FileTypes, Sections, TypedValue
  <1>2. AlinkFiles(file).alink # Stopped.alink
    BY <1>1, DroneAssumption DEF AlinkFiles, Stopped
  <1> QED
    BY <1>1, <1>2 DEF AlinkFiles

(* Started from its file, wfb-ng is up, with its own power.                 *)
LEMMA WfbStarts ==
  ASSUME FileTypes
  PROVE  StartedWfb(file) \in [up : BOOLEAN, channel : Channels,
                               params : Settings \union {"adapted"}, power : Nat, own : Nat]
  <1>1. file.channel \in Channels /\ file.radio \in Settings
    BY DEF FileTypes, Sections, TypedValue
  <1>2. PICK c \in Channels, r \in Settings, p \in Nat :
          c = file.channel /\ r = file.radio /\ p = TXPower[file.radio]
    BY <1>1, DroneAssumption
  <1>3. StartedWfb(file) = [up |-> TRUE, channel |-> c, params |-> r, power |-> p, own |-> p]
    BY <1>2 DEF StartedWfb
  <1> QED
    BY <1>3

(* A shell command runs.                                                    *)
LEMMA RunsKeeps ==
  ASSUME ConfigInv, NEW id \in DOMAIN jobs, Runs(id)
  PROVE  ConfigInv'
  <1> DEFINE s == jobs[id]
             step == Head(s)
             t == Tail(s)
  <1>1. LineOK(s) /\ WantedBy(s, wanted)
    BY DEF ConfigInv, OrderInv, SwitchAsked
  <1>2. /\ jobs' = Rest(id, t)
        /\ file' = IF step.op = "write" THEN [file EXCEPT ![step.field] = step.value] ELSE file
        /\ UNCHANGED <<gsChannel, handler, wanted, broken>>
    BY DEF Runs
  <1>3. /\ step.op = "stopWfb" => radio' = [radio EXCEPT !.up = FALSE]
        /\ step.op = "startWfb" => radio' = StartedWfb(file)
        /\ step.op \notin {"stopWfb", "startWfb"} => radio' = radio
    BY DEF Runs
  <1>4. /\ step.op = "reloadCamera" => camera' = file.camera
        /\ step.op # "reloadCamera" => camera' = camera
    BY DEF Runs
  <1>5. /\ step.op = "kill" => alink' = Stopped
        /\ step.op = "startAlink" => alink' = AlinkFiles(file)
        /\ step.op = "startUnlessRunning" => alink' = IF alink = Stopped THEN AlinkFiles(file) ELSE alink
        /\ step.op \notin {"kill", "startAlink", "startUnlessRunning"} => alink' = alink
    BY DEF Runs
  <1>6. /\ step \in Step
        /\ t # <<>> => LineOK(t)
        /\ \A op : HasOp(s, op) <=> (step.op = op \/ HasOp(t, op))
        /\ \A f : Changes(s, f) <=> (Is(step, f) \/ Changes(t, f))
        /\ SwitchesOff(t) => SwitchesOff(s)
        /\ step.op = "stopWfb" => HasOp(t, "startWfb")
        /\ step.op = "kill" => SwitchesOff(s) \/ HasOp(t, "startAlink")
        /\ step.op = "write" => /\ step.field \in Sections
                                /\ TypedValue(step.field, step.value)
                                /\ step.field = "profiles" => HasProfiles
    BY <1>1, RestOfLine
  <1> HIDE DEF step, t
  <1>7. RequestTypes' /\ OrderInv' /\ SwitchAsked'
    BY <1>2, <1>6, OrderWhileRunning
  <1>8. FileTypes'
    <2>1. CASE step.op = "write"
      <3>1. file' = [file EXCEPT ![step.field] = step.value]
        BY <1>2, <2>1
      <3> QED
        BY <1>6, <2>1, <3>1 DEF ConfigInv, FileTypes, Sections
    <2>2. CASE step.op # "write"
      BY <1>2, <2>2 DEF ConfigInv, FileTypes
    <2> QED
      BY <2>1, <2>2
  <1>9. /\ file.channel \in Channels /\ file.radio \in Settings /\ file.camera \in Settings
        /\ AlinkFiles(file) # Stopped
        /\ AlinkFiles(file) \in [alink : Settings \union {"stopped"}, profiles : Prof]
    BY AlinkStarts DEF ConfigInv, FileTypes, Sections, TypedValue
  <1>10. RunningTypes'
    <2>1. radio' \in [up : BOOLEAN, channel : Channels, params : Settings \union {"adapted"},
                      power : Nat, own : Nat]
      <3>1. CASE step.op = "stopWfb"
        BY <1>3, <3>1 DEF ConfigInv, RunningTypes
      <3>2. CASE step.op = "startWfb"
        BY <1>3, <1>9, <3>2, WfbStarts DEF ConfigInv
      <3>3. CASE step.op \notin {"stopWfb", "startWfb"}
        BY <1>3, <3>3 DEF ConfigInv, RunningTypes
      <3> QED
        BY <3>1, <3>2, <3>3
    <2>2. camera' \in Settings
      BY <1>4, <1>9 DEF ConfigInv, RunningTypes
    <2>3. Stopped \in [alink : Settings \union {"stopped"}, profiles : Prof]
      BY DEF Stopped, NoProfiles, Profiles, Prof
    <2>4. alink' \in [alink : Settings \union {"stopped"}, profiles : Prof]
      BY <1>5, <1>9, <2>3 DEF ConfigInv, RunningTypes
    <2> QED
      BY <1>2, <2>1, <2>2, <2>4 DEF ConfigInv, RunningTypes
  <1>11. \A op : op # step.op /\ Coming(handler, jobs, op) => Coming(handler', jobs', op)
    BY <1>2, <1>6, StillComing
  <1>12. \A op : HasOp(t, op) => Coming(handler', jobs', op)
    <2> SUFFICES ASSUME NEW op, HasOp(t, op) PROVE Coming(handler', jobs', op)
      OBVIOUS
    <2>1. t # <<>>
      BY DEF HasOp
    <2> QED
      BY <1>2, <2>1, JobsLeft DEF Coming
  <1>13. ASSUME ~broken
         PROVE  /\ NeedsWfb(s) => Coming(handler', jobs', "startWfb")
                /\ Changes(s, "camera") => Coming(handler', jobs', "reloadCamera")
    <2>1. JobOrdered(s, Unsent(handler[id[1]])) /\ id[1] \in Handlers
      BY <1>13 DEF ConfigInv, OrderInv, RequestTypes
    <2> QED
      BY <1>2, <2>1 DEF JobOrdered, Coming
  <1>14. alink' # Stopped \/ step.op = "kill" \/ alink = Stopped
    BY <1>5, <1>9
  <1>15. step.op \in {"startAlink", "startUnlessRunning"} => alink' # Stopped
    BY <1>5, <1>9
  <1>16. /\ ~Is(step, "channel") => file'.channel = file.channel
         /\ ~Is(step, "radio") => file'.radio = file.radio
         /\ ~Is(step, "camera") => file'.camera = file.camera
    BY <1>2, <1>6 DEF Is, ConfigInv, FileTypes, Sections
  <1>17. FilesFollowed'
    <2> SUFFICES ASSUME ~broken
                 PROVE  /\ camera' = file'.camera \/ Coming(handler', jobs', "reloadCamera")
                        /\ \/ Coming(handler', jobs', "startWfb")
                           \/ /\ radio'.up /\ radio'.channel = file'.channel
                              /\ \/ ParamsInForce'
                                 \/ radio'.params = "adapted" /\ Coming(handler', jobs', "startAlink")
      BY <1>2 DEF FilesFollowed
    <2>1. /\ camera = file.camera \/ Coming(handler, jobs, "reloadCamera")
          /\ \/ Coming(handler, jobs, "startWfb")
             \/ /\ radio.up /\ radio.channel = file.channel
                /\ \/ ParamsInForce
                   \/ radio.params = "adapted" /\ Coming(handler, jobs, "startAlink")
      BY DEF ConfigInv, FilesFollowed
    <2>2. camera' = file'.camera \/ Coming(handler', jobs', "reloadCamera")
      <3>1. CASE step.op = "reloadCamera"
        BY <3>1, <1>2, <1>4
      <3>2. CASE Is(step, "camera")
        BY <3>2, <1>6, <1>13
      <3>3. CASE step.op # "reloadCamera" /\ ~Is(step, "camera")
        BY <3>3, <2>1, <1>4, <1>11, <1>16
      <3> QED
        BY <3>1, <3>2, <3>3
    <2>3. \/ Coming(handler', jobs', "startWfb")
          \/ /\ radio'.up /\ radio'.channel = file'.channel
             /\ \/ ParamsInForce'
                \/ radio'.params = "adapted" /\ Coming(handler', jobs', "startAlink")
      <3>1. CASE Is(step, "channel") \/ Is(step, "radio")
        BY <3>1, <1>6, <1>13 DEF NeedsWfb
      <3>2. CASE step.op = "stopWfb"
        BY <3>2, <1>6, <1>12
      <3>3. CASE step.op = "startWfb"
        BY <3>3, <1>2, <1>3 DEF StartedWfb, ParamsInForce
      <3>4. CASE ~Is(step, "channel") /\ ~Is(step, "radio") /\ step.op \notin {"stopWfb", "startWfb"}
        <4>1. radio' = radio /\ file'.channel = file.channel /\ file'.radio = file.radio
          BY <3>4, <1>3, <1>16
        <4>2. CASE Coming(handler, jobs, "startWfb")
          BY <3>4, <4>2, <1>11
        <4>3. CASE radio.up /\ radio.channel = file.channel /\ radio.params = file.radio
          BY <4>1, <4>3 DEF ParamsInForce
        <4>4. CASE radio.up /\ radio.channel = file.channel /\ radio.params = "adapted"
                   /\ (alink # Stopped \/ Coming(handler, jobs, "startAlink"))
          <5>1. CASE step.op = "kill"
            <6>1. CASE SwitchesOff(s)
              BY <6>1, <1>13 DEF NeedsWfb
            <6>2. CASE HasOp(t, "startAlink")
              BY <4>1, <4>4, <6>2, <1>12
            <6> QED
              BY <5>1, <6>1, <6>2, <1>6
          <5>2. CASE step.op = "startAlink"
            BY <4>1, <4>4, <5>2, <1>15 DEF ParamsInForce
          <5>3. CASE step.op \notin {"kill", "startAlink"}
            BY <4>1, <4>4, <5>3, <1>11, <1>14 DEF ParamsInForce
          <5> QED
            BY <5>1, <5>2, <5>3
        <4> QED
          BY <2>1, <4>2, <4>3, <4>4 DEF ParamsInForce
      <3> QED
        BY <3>1, <3>2, <3>3, <3>4
    <2> QED
      BY <2>2, <2>3
  <1>18. SwitchComing'
    <2> SUFFICES ASSUME ~broken, ~HasProfiles
                 PROVE  \/ (alink' # Stopped) \in wanted
                        \/ \E op \in {"kill", "startAlink", "startUnlessRunning"} :
                             Coming(handler', jobs', op)
      BY <1>2 DEF SwitchComing, Stopped
    <2>1. \/ (alink # Stopped) \in wanted
          \/ \E op \in {"kill", "startAlink", "startUnlessRunning"} : Coming(handler, jobs, op)
      BY DEF ConfigInv, SwitchComing
    <2>2. CASE step.op = "kill"
      <3>1. alink' = Stopped
        BY <2>2, <1>5
      <3>2. CASE SwitchesOff(s)
        BY <3>1, <3>2, <1>1 DEF WantedBy
      <3>3. CASE HasOp(t, "startAlink")
        BY <3>3, <1>12
      <3> QED
        BY <2>2, <3>2, <3>3, <1>6
    <2>3. CASE step.op \in {"startAlink", "startUnlessRunning"}
      <3>1. TRUE \in wanted
        BY <2>3, <1>1, <1>6 DEF WantedBy
      <3> QED
        BY <2>3, <3>1, <1>15
    <2>4. CASE step.op \notin {"kill", "startAlink", "startUnlessRunning"}
      BY <2>1, <2>4, <1>5, <1>11
    <2> QED
      BY <2>2, <2>3, <2>4
  <1> QED
    BY <1>7, <1>8, <1>10, <1>17, <1>18 DEF ConfigInv

(* A setting is refused.                                                    *)
LEMMA RefusesKeeps ==
  ASSUME ConfigInv, NEW id \in DOMAIN jobs, Refuses(id)
  PROVE  ConfigInv'
  <1>1. /\ jobs' = Rest(id, <<>>)
        /\ UNCHANGED <<file, radio, camera, alink, gsChannel, handler, wanted, broken>>
        /\ \E f \in {"channel", "radio", "camera"} : Is(Head(jobs[id]), f)
    BY DEF Refuses, Is
  <1>2. LineOK(jobs[id])
    BY DEF ConfigInv, OrderInv
  <1>3. \A op \in Wakes : ~HasOp(jobs[id], op)
    BY <1>1, <1>2, RestOfLine DEF Wakes
  <1>4. \A op \in Wakes : Coming(handler, jobs, op) => Coming(handler', jobs', op)
    BY <1>1, <1>3, StillComing
  <1>5. RequestTypes' /\ OrderInv' /\ SwitchAsked'
    BY <1>1, OrderWhileRunning
  <1> QED
    BY <1>1, <1>4, <1>5, RequestsOnly DEF ConfigInv, RunningTypes

(* alink_drone, a reboot, the ground station.                               *)
LEMMA AdaptsKeeps ==
  ASSUME ConfigInv, AlinkAdapts
  PROVE  ConfigInv'
  <1>1. /\ alink # Stopped /\ radio.up
        /\ \E p \in Nat : radio' = [radio EXCEPT !.params = "adapted", !.power = p, !.own = p]
        /\ UNCHANGED <<file, camera, alink, jobs, gsChannel, handler, wanted, broken>>
    BY DroneAssumption DEF AlinkAdapts
  <1>2. RunningTypes'
    BY <1>1 DEF ConfigInv, RunningTypes
  <1>3. /\ radio'.up = radio.up /\ radio'.channel = radio.channel /\ radio'.params = "adapted"
    BY <1>1 DEF ConfigInv, RunningTypes
  <1>4. FilesFollowed'
    BY <1>1, <1>3 DEF ConfigInv, FilesFollowed, ParamsInForce, Stopped
  <1> QED
    BY <1>1, <1>2, <1>4 DEF ConfigInv, FileTypes, RequestTypes, OrderInv, SwitchAsked, SwitchComing,
                            Stopped

LEMMA RebootsKeep ==
  ASSUME ConfigInv, Reboots
  PROVE  ConfigInv'
  <1>1. /\ radio' = StartedWfb(file) /\ camera' = file.camera /\ alink' = AlinkFiles(file)
        /\ jobs' = <<>> /\ wanted' = {TRUE} /\ broken' = FALSE
        /\ UNCHANGED <<file, gsChannel>>
        /\ handler' = [h \in Handlers |-> [handler[h] EXCEPT !.todo = <<>>, !.sent = FALSE]]
    BY DEF Reboots
  <1>2. FileTypes /\ FileTypes'
    BY <1>1 DEF ConfigInv, FileTypes
  <1>3. RunningTypes'
    BY <1>1, <1>2, WfbStarts, AlinkStarts DEF ConfigInv, RunningTypes, FileTypes, Sections, TypedValue
  <1>4. DOMAIN jobs' = {}
    <2>1. jobs' = <<>>
      BY <1>1
    <2> QED
      BY ONLY <2>1
  <1>5. /\ DOMAIN handler' = Handlers
        /\ \A h \in Handlers : HandlerOK(handler'[h]) /\ Unsent(handler'[h]) = <<>>
    <2>1. DOMAIN handler' = Handlers
      BY <1>1
    <2>2. ASSUME NEW h \in Handlers
          PROVE  HandlerOK(handler'[h]) /\ Unsent(handler'[h]) = <<>>
      <3>1. handler'[h] = [handler[h] EXCEPT !.todo = <<>>, !.sent = FALSE] /\ HandlerOK(handler[h])
        BY <1>1 DEF ConfigInv, RequestTypes
      <3>2. <<>> \in Seq(CommandLine)
        OBVIOUS
      <3> QED
        BY ONLY <3>1, <3>2 DEF HandlerOK, Unsent
    <2> QED
      BY <2>1, <2>2
  <1>6. Ordered(<<>>) /\ AllWantedBy(<<>>, wanted')
    BY DEF Ordered, AllWantedBy
  <1>7. RequestTypes'
    BY <1>1, <1>4, <1>5 DEF RequestTypes
  <1>8. OrderInv' /\ SwitchAsked'
    BY <1>4, <1>5, <1>6 DEF OrderInv, SwitchAsked
  <1>9. FilesFollowed'
    BY <1>1 DEF FilesFollowed, ParamsInForce, StartedWfb
  <1>10. SwitchComing'
    BY <1>1, <1>2, AlinkStarts DEF SwitchComing, Stopped
  <1> QED
    BY <1>2, <1>3, <1>7, <1>8, <1>9, <1>10 DEF ConfigInv

(* Only the power of the radio or the ground station's channel changes.    *)
LEMMA PowerOnly ==
  ASSUME ConfigInv, gsChannel' \in Channels,
         UNCHANGED <<file, camera, alink, jobs, handler, wanted, broken>>,
         radio' = radio \/ \E p \in Nat : radio' = [radio EXCEPT !.power = p]
  PROVE  ConfigInv'
  <1>1. RunningTypes'
    BY DEF ConfigInv, RunningTypes
  <1>2. radio'.up = radio.up /\ radio'.channel = radio.channel /\ radio'.params = radio.params
    BY DEF ConfigInv, RunningTypes
  <1>3. FilesFollowed'
    BY <1>2 DEF ConfigInv, FilesFollowed, ParamsInForce, Stopped
  <1> QED
    BY <1>1, <1>3 DEF ConfigInv, FileTypes, RequestTypes, OrderInv, SwitchAsked, SwitchComing, Stopped

LEMMA DroneKeepsConfig ==
  ASSUME ConfigInv, DroneNext
  PROVE  ConfigInv'
  <1>1. ASSUME NEW h \in Handlers, Fetch(h) \/ SavePage(h) \/ SavePart(h) \/ RequestStep(h)
        PROVE  ConfigInv'
    BY <1>1, FetchKeeps, SavePageKeeps, SavePartKeeps, DeliverKeeps, ReturnKeeps, BreakOffKeeps
       DEF RequestStep
  <1>2. ASSUME NEW id \in DOMAIN jobs, Runs(id) \/ Refuses(id)
        PROVE  ConfigInv'
    BY <1>2, RunsKeeps, RefusesKeeps
  <1>3. CASE Retunes
    BY <1>3, PowerOnly DEF Retunes
  <1> QED
    BY <1>1, <1>2, <1>3, AdaptsKeeps, RebootsKeep DEF DroneNext, DroneRuns

(* Pit mode, which sets powers that it has read, and the ground station's  *)
(* own saves.                                                              *)
LEMMA PitKeepsConfig ==
  ASSUME ConfigInv, PitTypes, SaveGround \/ Enable \/ Disable \/ PitStep
  PROVE  ConfigInv'
  <1>1. gsChannel \in Channels /\ PitPower \in Nat /\ pit.drone \in Nat
    BY DEF ConfigInv, RunningTypes, PitTypes, PitPower
  <1>2. UNCHANGED <<file, camera, alink, jobs, gsChannel, handler, wanted, broken>>
    BY DEF SaveGround, Enable, Disable, PitStep, ReadDrone, LowerDrone, Enabled, EnableFails,
           RaiseDrone, Disabled, droneVars
  <1>3. \/ radio' = radio \/ radio' = [radio EXCEPT !.power = PitPower]
        \/ radio' = [radio EXCEPT !.power = pit.drone]
    BY DEF SaveGround, Enable, Disable, PitStep, ReadDrone, LowerDrone, Enabled, EnableFails,
           RaiseDrone, Disabled, droneVars
  <1> QED
    BY <1>1, <1>2, <1>3, PowerOnly

-----------------------------------------------------------------------------
(* Whatever happens to the drone, its power and its own power stay, or it  *)
(* gets its own power.                                                     *)
LEMMA DronePower ==
  ASSUME ConfigInv, DroneNext
  PROVE  \/ radio'.power = radio.power /\ radio'.own = radio.own
         \/ radio'.power = radio'.own
  <1>0. radio \in [up : BOOLEAN, channel : Channels, params : Settings \union {"adapted"},
                   power : Nat, own : Nat]
    BY DEF ConfigInv, RunningTypes
  <1>1. ASSUME NEW h \in Handlers, Fetch(h) \/ SavePage(h) \/ SavePart(h) \/ RequestStep(h)
        PROVE  radio' = radio
    BY <1>1 DEF Fetch, SavePage, SavePart, Save, RequestStep, Deliver, Return, BreakOff
  <1>2. StartedWfb(file).power = StartedWfb(file).own
    BY DEF StartedWfb
  <1>3. ASSUME NEW id \in DOMAIN jobs, Runs(id)
        PROVE  radio' \in {radio, [radio EXCEPT !.up = FALSE], StartedWfb(file)}
    BY <1>3 DEF Runs
  <1>4. ASSUME NEW id \in DOMAIN jobs, Refuses(id)
        PROVE  radio' = radio
    BY <1>4 DEF Refuses
  <1>5. AlinkAdapts => radio'.power = radio'.own
    BY <1>0 DEF AlinkAdapts
  <1>6. Reboots => radio' = StartedWfb(file)
    BY DEF Reboots
  <1>7. Retunes => radio' = radio
    BY DEF Retunes
  <1>8. \/ radio' \in {radio, [radio EXCEPT !.up = FALSE], StartedWfb(file)}
        \/ radio'.power = radio'.own
    BY <1>1, <1>3, <1>4, <1>5, <1>6, <1>7 DEF DroneNext, DroneRuns
  <1> QED
    BY <1>0, <1>2, <1>8

(* A step of the drone or of a save on it.                                 *)
LEMMA DroneKeepsPit ==
  ASSUME ConfigInv, PitInv, DroneNext, DroneNoted
  PROVE  PitInv'
  <1>1. \/ radio'.power = radio.power /\ radio'.own = radio.own
        \/ radio'.power = radio'.own
    BY DronePower
  <1>2. /\ pit' = pit /\ ground' = ground
        /\ strayed' = [strayed EXCEPT !.drone =
                         IF InPitMode THEN @ \/ radio'.own # radio.own
                         ELSE @ /\ radio'.power # radio'.own]
    BY DEF DroneNoted
  <1>3. strayed \in [ground : BOOLEAN, drone : BOOLEAN]
    BY DEF PitInv, PitTypes
  <1>4. strayed' \in [ground : BOOLEAN, drone : BOOLEAN] /\ strayed'.ground = strayed.ground
    BY <1>2, <1>3
  <1>5. ~strayed'.drone => IF InPitMode THEN ~strayed.drone /\ radio'.own = radio.own
                           ELSE ~strayed.drone \/ radio'.power = radio'.own
    BY <1>2, <1>3
  <1>6. PitTypes' /\ EnablingOrDisabling'
    BY <1>2, <1>4 DEF PitInv, PitTypes, EnablingOrDisabling
  <1>7. GroundKept'
    BY <1>2, <1>4 DEF PitInv, GroundKept, InPitMode
  <1>8. DroneKept'
    BY <1>1, <1>2, <1>5 DEF PitInv, DroneKept, EnablingOrDisabling, InPitMode
  <1> QED
    BY <1>6, <1>7, <1>8 DEF PitInv

(* A save of the ground station's own configuration.                       *)
LEMMA SaveKeepsPit ==
  ASSUME PitInv, SaveGround
  PROVE  PitInv'
  <1>1. PICK p \in Nat :
          ground' = [power |-> IF p # ground.config THEN p ELSE ground.power,
                     config |-> p, shared |-> FALSE, own |-> p]
    BY PowerAssumption DEF SaveGround
  <1>2. /\ pit' = pit /\ radio' = radio
        /\ strayed' = [strayed EXCEPT !.ground =
                         IF InPitMode THEN @ \/ ground'.own # ground.own
                         ELSE @ /\ ground'.power # ground'.own]
    BY DEF SaveGround
  <1>3. /\ strayed \in [ground : BOOLEAN, drone : BOOLEAN]
        /\ ground \in [power : Nat, config : Nat, shared : BOOLEAN, own : Nat]
    BY DEF PitInv, PitTypes
  <1>4. strayed' \in [ground : BOOLEAN, drone : BOOLEAN] /\ strayed'.drone = strayed.drone
    BY <1>2, <1>3
  <1>5. /\ ground'.own = p /\ ground'.config = p /\ ~ground'.shared
        /\ ground'.power = IF p # ground.config THEN p ELSE ground.power
        /\ ground' \in [power : Nat, config : Nat, shared : BOOLEAN, own : Nat]
    BY <1>1, <1>3
  <1>6. ~strayed'.ground => IF InPitMode THEN ~strayed.ground /\ p = ground.own
                            ELSE ~strayed.ground \/ ground'.power = p
    BY <1>2, <1>3, <1>5
  <1>7. PitTypes' /\ EnablingOrDisabling'
    BY <1>2, <1>4, <1>5 DEF PitInv, PitTypes, EnablingOrDisabling
  <1>8. GroundKept'
    BY <1>2, <1>3, <1>5, <1>6 DEF PitInv, GroundKept, EnablingOrDisabling, InPitMode
  <1>9. DroneKept'
    BY <1>2, <1>4 DEF PitInv, DroneKept, InPitMode
  <1> QED
    BY <1>7, <1>8, <1>9 DEF PitInv

(* The ground station is set to a power.                                    *)
LEMMA GroundSet ==
  ASSUME PitTypes, NEW p \in Nat, SetTXPower(p)
  PROVE  /\ ground' \in [power : Nat, config : Nat, shared : BOOLEAN, own : Nat]
         /\ ground'.power = p /\ ground'.own = ground.own /\ ground'.shared = ground.shared
         /\ ground'.config = IF ground.shared THEN p ELSE ground.config
  <1>1. ground \in [power : Nat, config : Nat, shared : BOOLEAN, own : Nat]
    BY DEF PitTypes
  <1>2. ground' = [ground EXCEPT !.power = p, !.config = IF ground.shared THEN p ELSE ground.config]
    BY DEF SetTXPower
  <1> QED
    BY <1>1, <1>2

(* A step of Enable or Disable.                                            *)
LEMMA PitKeepsPit ==
  ASSUME ConfigInv, PitInv, Enable \/ Disable \/ PitStep
  PROVE  PitInv'
  <1>0. /\ PitTypes /\ EnablingOrDisabling /\ GroundKept /\ DroneKept
        /\ pit \in [enabled : BOOLEAN, gs : Nat, drone : Nat,
                    pc : {"idle", "read", "lower", "lowered", "raise", "raised"}]
        /\ ground \in [power : Nat, config : Nat, shared : BOOLEAN, own : Nat]
        /\ strayed \in [ground : BOOLEAN, drone : BOOLEAN]
    BY DEF PitInv, PitTypes
  <1>r. radio \in [up : BOOLEAN, channel : Channels, params : Settings \union {"adapted"},
                   power : Nat, own : Nat]
    BY DEF ConfigInv, RunningTypes
  <1> USE DEF PitInv, PitTypes, EnablingOrDisabling, GroundKept, DroneKept, InPitMode
  <1>1. CASE Enable
    <2>1. /\ pit' = [pit EXCEPT !.gs = ground.power, !.pc = "read"]
          /\ radio' = radio /\ strayed' = strayed /\ pit.pc = "idle" /\ ~pit.enabled
      BY <1>1 DEF Enable, GetTXPower
    <2>2. PitPower \in Nat /\ SetTXPower(PitPower)
      BY <1>1 DEF Enable, PitPower
    <2> QED
      BY <2>1, <2>2, <1>0, GroundSet
  <1>2. CASE ReadDrone
    <2>1. /\ radio' = radio /\ ground' = ground /\ pit.pc = "read"
          /\ \/ pit' = [pit EXCEPT !.drone = radio.power, !.pc = "lower"] /\ strayed' = strayed
             \/ /\ pit' = [pit EXCEPT !.drone = 20, !.pc = "lower"]
                /\ strayed' = [strayed EXCEPT !.drone = strayed.drone \/ radio.own # 20]
      BY <1>2 DEF ReadDrone, droneVars, AssumedPower
    <2>2. CASE pit' = [pit EXCEPT !.drone = radio.power, !.pc = "lower"] /\ strayed' = strayed
      BY <2>1, <2>2, <1>0, <1>r
    <2>3. CASE /\ pit' = [pit EXCEPT !.drone = 20, !.pc = "lower"]
               /\ strayed' = [strayed EXCEPT !.drone = strayed.drone \/ radio.own # 20]
      <3>1. /\ strayed' \in [ground : BOOLEAN, drone : BOOLEAN] /\ strayed'.ground = strayed.ground
            /\ ~strayed'.drone => ~strayed.drone /\ radio.own = 20
        BY <2>3, <1>0
      <3> QED
        BY <3>1, <2>1, <2>3, <1>0, <1>r
    <2> QED
      BY <2>1, <2>2, <2>3
  <1>3. CASE LowerDrone
    <2>1. /\ radio'.own = radio.own /\ ground' = ground /\ strayed' = strayed
          /\ pit' = [pit EXCEPT !.pc = "lowered"] /\ pit.pc = "lower"
      BY <1>3, <1>r DEF LowerDrone
    <2> QED
      BY <2>1, <1>0
  <1>4. CASE Enabled
    <2>1. /\ radio' = radio /\ ground' = ground /\ strayed' = strayed
          /\ pit' = [pit EXCEPT !.enabled = TRUE, !.pc = "idle"] /\ pit.pc = "lowered"
      BY <1>4 DEF Enabled, droneVars
    <2> QED
      BY <2>1, <1>0
  <1>5. CASE EnableFails
    <2>1. /\ radio' = radio /\ pit.pc \in {"lower", "lowered"} /\ pit' = [pit EXCEPT !.pc = "idle"]
          /\ strayed' = [strayed EXCEPT !.drone = strayed.drone \/ pit.pc = "lowered"]
      BY <1>5 DEF EnableFails, droneVars
    <2>2. pit.gs \in Nat /\ SetTXPower(pit.gs)
      BY <1>5, <1>0 DEF EnableFails
    <2>3. /\ strayed' \in [ground : BOOLEAN, drone : BOOLEAN] /\ strayed'.ground = strayed.ground
          /\ ~strayed'.drone => ~strayed.drone /\ pit.pc = "lower"
      BY <2>1, <1>0
    <2> QED
      BY <2>1, <2>2, <2>3, <1>0, GroundSet
  <1>6. CASE Disable
    <2>1. /\ radio' = radio /\ strayed' = strayed /\ pit.pc = "idle" /\ pit.enabled
          /\ pit' = [pit EXCEPT !.pc = "raise"]
      BY <1>6 DEF Disable, droneVars
    <2>2. pit.gs \in Nat /\ SetTXPower(pit.gs)
      BY <1>6, <1>0 DEF Disable
    <2> QED
      BY <2>1, <2>2, <1>0, GroundSet
  <1>7. CASE RaiseDrone
    <2>1. /\ radio'.own = radio.own /\ radio'.power = pit.drone
          /\ ground' = ground /\ strayed' = strayed
          /\ pit' = [pit EXCEPT !.pc = "raised"] /\ pit.pc = "raise"
      BY <1>7, <1>r DEF RaiseDrone
    <2> QED
      BY <2>1, <1>0
  <1>8. CASE Disabled
    <2>1. /\ radio' = radio /\ ground' = ground /\ pit.pc \in {"raise", "raised"}
          /\ pit' = [pit EXCEPT !.enabled = FALSE, !.pc = "idle"]
          /\ \/ pit.pc = "raised" /\ strayed' = strayed
             \/ strayed' = [strayed EXCEPT !.drone = TRUE]
      BY <1>8 DEF Disabled, droneVars
    <2> QED
      BY <2>1, <1>0
  <1> QED
    BY <1>1, <1>2, <1>3, <1>4, <1>5, <1>6, <1>7, <1>8 DEF PitStep

LEMMA InitPit == Init => PitInv
  <1> SUFFICES ASSUME Init PROVE PitInv
    OBVIOUS
  <1>1. radio.power = radio.own
    BY DEF Init, DroneInit, StartedWfb
  <1>2. /\ pit = [enabled |-> FALSE, gs |-> 0, drone |-> 0, pc |-> "idle"]
        /\ ground = [power |-> FirstGroundPower, config |-> FirstGroundPower, shared |-> TRUE,
                     own |-> FirstGroundPower]
        /\ strayed = [ground |-> FALSE, drone |-> FALSE] /\ FirstGroundPower \in Nat
    BY PowerAssumption DEF Init
  <1>3. PitTypes
    BY <1>2 DEF PitTypes
  <1> QED
    BY <1>1, <1>2, <1>3 DEF PitInv, EnablingOrDisabling, GroundKept, DroneKept, InPitMode

LEMMA InitConfig == Init => ConfigInv
  <1> SUFFICES ASSUME Init PROVE ConfigInv
    OBVIOUS
  <1>1. /\ file = [channel |-> FirstChannel, radio |-> FirstSetting, camera |-> FirstSetting,
                   alink |-> FirstSetting,
                   profiles |-> IF HasProfiles THEN Profiles(FirstSetting, "tuned", 0) ELSE NoProfiles]
        /\ radio = StartedWfb(file) /\ camera = file.camera /\ alink = AlinkFiles(file)
        /\ jobs = <<>> /\ gsChannel = FirstChannel
        /\ handler = [h \in Handlers |-> [copy |-> <<>>, todo |-> <<>>, sent |-> FALSE]]
        /\ wanted = {TRUE} /\ broken = FALSE
    BY DEF Init, DroneInit
  <1>2. FileTypes
    <2>1. DOMAIN file = Sections
      BY <1>1 DEF Sections
    <2>2. FirstChannel \in Channels /\ FirstSetting \in Settings
      BY DroneAssumption
    <2>3. file.profiles \in Prof /\ (~HasProfiles => file.profiles = NoProfiles)
      BY <1>1, <2>2 DEF Profiles, NoProfiles, Prof
    <2>4. file.channel \in Channels /\ {file.radio, file.camera, file.alink} \subseteq Settings
      BY <1>1, <2>2
    <2> QED
      BY <2>1, <2>3, <2>4 DEF FileTypes, Sections, TypedValue
  <1>3. RunningTypes
    BY <1>1, <1>2, WfbStarts, AlinkStarts, DroneAssumption
       DEF RunningTypes, FileTypes, Sections, TypedValue
  <1>4. DOMAIN jobs = {} /\ Ordered(<<>>) /\ AllWantedBy(<<>>, wanted)
    BY <1>1 DEF Ordered, AllWantedBy
  <1>5. /\ DOMAIN handler = Handlers
        /\ \A h \in Handlers : HandlerOK(handler[h]) /\ Unsent(handler[h]) = <<>>
    <2>1. DOMAIN handler = Handlers
      BY <1>1
    <2>2. ASSUME NEW h \in Handlers
          PROVE  HandlerOK(handler[h]) /\ Unsent(handler[h]) = <<>>
      <3>1. handler[h] = [copy |-> <<>>, todo |-> <<>>, sent |-> FALSE]
        BY <1>1
      <3>2. <<>> \in Seq(CommandLine)
        OBVIOUS
      <3> QED
        BY ONLY <3>1, <3>2 DEF HandlerOK, CopyOK, Unsent
    <2> QED
      BY <2>1, <2>2
  <1>6. RequestTypes /\ OrderInv /\ SwitchAsked
    BY <1>1, <1>4, <1>5 DEF RequestTypes, OrderInv, SwitchAsked
  <1>7. FilesFollowed
    BY <1>1 DEF FilesFollowed, ParamsInForce, StartedWfb
  <1>8. SwitchComing
    BY <1>1, <1>2, AlinkStarts DEF SwitchComing
  <1> QED
    BY <1>2, <1>3, <1>6, <1>7, <1>8 DEF ConfigInv

LEMMA ConfigHolds == Spec => [](ConfigInv /\ PitInv)
<1>1. Init => ConfigInv /\ PitInv
  BY InitConfig, InitPit
<1>2. ConfigInv /\ PitInv /\ [Next]_vars => ConfigInv' /\ PitInv'
  <2> SUFFICES ASSUME ConfigInv, PitInv, [Next]_vars
               PROVE  ConfigInv' /\ PitInv'
    OBVIOUS
  <2>1. CASE DroneNext /\ DroneNoted
    BY <2>1, DroneKeepsConfig, DroneKeepsPit
  <2>2. CASE SaveGround
    BY <2>2, PitKeepsConfig, SaveKeepsPit DEF PitInv
  <2>3. CASE Enable \/ Disable \/ PitStep
    BY <2>3, PitKeepsConfig, PitKeepsPit DEF PitInv
  <2>4. CASE UNCHANGED vars
    <3>1. ConfigInv'
      BY <2>4, PowerOnly DEF vars, droneVars, ConfigInv, RunningTypes
    <3>2. PitInv'
      BY <2>4 DEF vars, pitVars, droneVars, PitInv, PitTypes, EnablingOrDisabling, GroundKept,
                  DroneKept, InPitMode
    <3> QED
      BY <3>1, <3>2
  <2> QED
    BY <2>1, <2>2, <2>3, <2>4 DEF Next
<1> QED
  BY <1>1, <1>2, PTL DEF Spec

(* Outside pit mode both sides transmit with their own power, whatever was *)
(* saved and set before, unless it strayed in pit mode; for all numbers of *)
(* requests, settings, powers, channels, faults and reboots.               *)
THEOREM PowerComesBack == Spec => []PowerRestored
<1>1. PitInv => PowerRestored
  BY DEF PitInv, GroundKept, DroneKept, PowerRestored
<1> QED
  BY <1>1, ConfigHolds, PTL

(* When all saves are done nothing is to come.                              *)
LEMMA NothingComing ==
  ASSUME RequestTypes, Quiet, NEW op
  PROVE  ~Coming(handler, jobs, op)
  <1>1. DOMAIN jobs = {}
    BY DEF Quiet
  <1>2. \A h \in Handlers : Unsent(handler[h]) = <<>>
    BY DEF Quiet, RequestTypes, HandlerOK, Unsent
  <1>3. ~HasLine(<<>>, op)
    BY DEF HasLine
  <1> QED
    BY <1>1, <1>2, <1>3 DEF Coming

(* On a drone nobody works on the camera follows its file, and the radio   *)
(* its channel, modulation and code, whatever was saved, by however many   *)
(* requests, and in whatever order, unless a connection broke in the       *)
(* middle of a save.                                                       *)
THEOREM RunsAsConfigured == Spec => []DroneInv
<1>1. ConfigInv /\ PitInv => DroneInv
  <2> SUFFICES ASSUME ConfigInv, PitInv PROVE DroneInv
    OBVIOUS
  <2>1. DroneTypeOK
    <3>1. /\ DOMAIN file = Sections /\ file.channel \in Channels
          /\ {file.radio, file.camera, file.alink} \subseteq Settings /\ file.profiles.strays \in Nat
      BY DEF ConfigInv, FileTypes, Sections, TypedValue, Prof
    <3>2. /\ radio.channel \in Channels /\ gsChannel \in Channels
          /\ radio.params \in Settings \union {"adapted"} /\ {radio.power, radio.own} \subseteq Nat
          /\ camera \in Settings /\ alink.alink \in Settings \union {"stopped"}
      BY DEF ConfigInv, RunningTypes
    <3>3. /\ DOMAIN jobs \subseteq Handlers \X {"line", "wfb", "alink"}
          /\ \A h \in Handlers : handler[h].sent => handler[h].todo # <<>>
          /\ wanted \in (SUBSET BOOLEAN) \ {{}} /\ broken \in BOOLEAN
      BY DEF ConfigInv, RequestTypes, HandlerOK, Kinds
    <3>4. \A id \in DOMAIN jobs : Len(jobs[id]) \in 1 .. 3
      BY DEF ConfigInv, OrderInv, LineOK
    <3>5. /\ pit.pc \in {"idle", "read", "lower", "lowered", "raise", "raised"}
          /\ {ground.power, ground.own, ground.config} \subseteq Nat
          /\ {pit.enabled, ground.shared, strayed.ground, strayed.drone} \subseteq BOOLEAN
      BY DEF PitInv, PitTypes
    <3> QED
      BY <3>1, <3>2, <3>3, <3>4, <3>5 DEF DroneTypeOK
  <2>2. RunningFollowsFiles
    BY NothingComing DEF ConfigInv, FilesFollowed, RunningFollowsFiles
  <2> QED
    BY <2>1, <2>2 DEF DroneInv
<1> QED
  BY <1>1, ConfigHolds, PTL

(* alink_drone runs if and only if the saves asked for it, if there is no  *)
(* txprofiles.conf: the line that writes one swallows the command that     *)
(* would switch it.                                                        *)
THEOREM SwitchIsFollowed == ~HasProfiles => (Spec => []SwitchFollowed)
<1> SUFFICES ASSUME ~HasProfiles PROVE Spec => []SwitchFollowed
  OBVIOUS
<1>1. ConfigInv /\ PitInv => SwitchFollowed
  BY NothingComing DEF ConfigInv, SwitchComing, SwitchFollowed
<1> QED
  BY <1>1, ConfigHolds, PTL
=============================================================================
