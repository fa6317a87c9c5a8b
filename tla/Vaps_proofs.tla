---------------------------- MODULE Vaps_proofs ----------------------------
(* Proofs about Vaps, for any vaps, whatever their modes, the kind of device *)
(* and what happens around them.                                             *)
EXTENDS Vaps, FiniteSetTheorems, TLAPS

\* Only the domains of the records matter for the fields that steps change.
VFields == {"life", "id", "open", "state", "curr", "callout", "task", "updating", "csa", "pm"}
DFields == {"running", "slot", "nv", "ap", "bcn", "mon", "vr", "mr", "rcr", "locked", "promisc", "ptask",
            "scanning", "calto", "calcmd", "pwrto", "pwrcmd", "radar", "chk", "check", "csapending", "past"}
HFields == {"pause", "en", "udt", "rcr", "flt0", "flt2", "page", "null", "ps", "radar"}

Shaped(m) ==
    /\ DOMAIN m = {"v", "d", "hw"} /\ DOMAIN m.d = DFields /\ DOMAIN m.hw = HFields
    /\ DOMAIN m.v = Vaps /\ \A y \in Vaps : DOMAIN m.v[y] = VFields
    /\ m.d.slot \in [Ports -> Vaps \cup {NoVap}]

TypeOK ==
    /\ plan \in Plans
    /\ Shaped(Now)
    /\ {d.nv, d.ap, d.bcn, d.mon, d.vr, d.mr} \subseteq Int
    /\ tq \in [what : {"idle", "state", "tsf"}, vap : Vaps \cup {NoVap}, to : States]
    /\ tq.what = "idle" => tq = Idle
    /\ tq.what # "idle" => tq.vap \in Vaps

\* Only a vap that is up leaves INIT, one that is stored in a port may be set
\* up as running, and a stopped device has no running vaps.
LifeSound(x) ==
    /\ v[x].life # "up" => State(x) = "INIT" /\ v[x].state = "INIT"
    /\ v[x].life \in {"none", "id"} => v[x].curr = "NOLINK"
    /\ x \in Ported => v[x].id \in Ports
    /\ x \in Counted \ Ported => v[x].id = INVALID
    /\ ~d.running => v[x].state = "INIT"
    /\ v[x].callout \/ v[x].task \/ (tq.what = "tsf" /\ tq.vap = x) =>
         Mode(x) = "IBSS" /\ v[x].life \in {"up", "dying"}
LivesSound ==
    /\ \A x \in Vaps : LifeSound(x)
    /\ tq.what = "state" => d.running

SlotsSound ==
    /\ \A p \in Ports : d.slot[p] # NoVap =>
         d.slot[p] \in Ported /\ v[d.slot[p]].life # "id" /\ v[d.slot[p]].id = p
    /\ Unharmed({"raced"}) => \A x \in Ported :
         /\ \A y \in Ported : x # y => v[x].id # v[y].id
         /\ v[x].life # "id" => d.slot[v[x].id] = x
         /\ v[x].life = "id" /\ v[x].id = 1 => \E y \in Ported : v[y].id = 0

CountsSound ==
    /\ IsFiniteSet(Counted)
    /\ d.nv = Cardinality(Ported) /\ d.mon = Cardinality(Counted \ Ported)
    /\ d.bcn = Cardinality({x \in Ported : Beacons(x)})
    /\ d.ap = Cardinality({x \in Ported : Mode(x) = "AP"})

LinksSound ==
    /\ Unharmed({"lost"}) => d.vr - d.mr = Cardinality(Linking)
    /\ Unharmed({"lost", "raced", "failed"}) => \A x \in Ported : (v[x].curr # "NOLINK") = (x \in Linking)
    /\ Linking # {} /\ Unharmed({"lost"}) => hw.flt2

\* The filter as the driver remembers it.
RcrSound ==
    /\ d.locked <=> tq.what = "tsf"
    /\ tq.what = "tsf" => "bcn" \in hw.rcr
    /\ d.running =>
         /\ ~d.locked => hw.rcr = d.rcr
         /\ ~d.ptask /\ (d.promisc \/ Up({"MON"}) # {}) => "all" \in d.rcr
         /\ ~d.ptask /\ ~d.promisc /\ d.mon = 0 /\ Unharmed({"undone"}) =>
              /\ "apm" \in d.rcr
              /\ ~d.locked /\ Up({"AP", "IBSS"}) # {} => "bcn" \notin d.rcr
              /\ Up({"AP"}) # {} => "data" \notin d.rcr

MgtSound ==
    d.running =>
      /\ Up({"AP", "IBSS"}) # {} => "req" \in hw.flt0
      /\ Up({"STA"}) # {} /\ d.mon = 0 /\ Unharmed({"undone"}) => "resp" \in hw.flt0

UdtSound ==
    \A p \in hw.udt :
       \/ tq.what = "tsf" /\ v[tq.vap].id = p
       \/ \E x \in Linking : v[x].id = p /\ Mode(x) = "STA"
       \/ ~Unharmed({"raced", "lost"})

IInv == TypeOK /\ LivesSound /\ SlotsSound /\ CountsSound /\ LinksSound /\ RcrSound /\ MgtSound /\ UdtSound

--------------------------------------------------------------------------
(* What a step's functions leave alone.                                     *)

FrameV(m, n) ==
    \A y \in Vaps :
       /\ n.v[y].life = m.v[y].life /\ n.v[y].id = m.v[y].id
       /\ n.v[y].state = m.v[y].state /\ n.v[y].curr = m.v[y].curr
       /\ n.v[y].callout = m.v[y].callout /\ n.v[y].task = m.v[y].task
FrameD(m, n) ==
    /\ n.d.running = m.d.running /\ n.d.slot = m.d.slot
    /\ n.d.nv = m.d.nv /\ n.d.ap = m.d.ap /\ n.d.bcn = m.d.bcn /\ n.d.mon = m.d.mon
    /\ n.d.vr = m.d.vr /\ n.d.mr = m.d.mr
    /\ m.d.past \subseteq n.d.past
FrameR(m, n) ==
    /\ n.d.rcr = m.d.rcr /\ n.d.locked = m.d.locked
    /\ n.d.promisc = m.d.promisc /\ n.d.ptask = m.d.ptask /\ n.hw.rcr = m.hw.rcr
FrameH(m, n) == n.hw.flt0 = m.hw.flt0 /\ n.hw.flt2 = m.hw.flt2 /\ n.hw.udt = m.hw.udt

Framed(m, n) == Shaped(n) /\ FrameV(m, n) /\ FrameD(m, n) /\ FrameR(m, n) /\ FrameH(m, n)

LEMMA NowShaped == ASSUME TypeOK PROVE Shaped(Now)
BY DEF TypeOK

LEMMA OpenFrame ==
    ASSUME NEW m, Shaped(m), NEW x \in Vaps, NEW b
    PROVE  Framed(m, [m EXCEPT !.v[x].open = b])
BY DEF Framed, Shaped, FrameV, FrameD, FrameR, FrameH, VFields, DFields, HFields

LEMMA BeginUpdateFrame ==
    ASSUME NEW m, Shaped(m), NEW x \in Vaps
    PROVE  Framed(m, BeginUpdate(m, x))
BY DEF BeginUpdate, rtwn_beacon_enable, Framed, Shaped, FrameV, FrameD, FrameR, FrameH, VFields, DFields, HFields

LEMMA CloseAllFrame ==
    ASSUME NEW m, Shaped(m)
    PROVE  Framed(m, CloseAll(m))
BY DEF CloseAll, Framed, Shaped, FrameV, FrameD, FrameR, FrameH, VFields, DFields, HFields

LEMMA PwrmodeFrame ==
    ASSUME NEW m, Shaped(m), NEW x \in Vaps, NEW off
    PROVE  Framed(m, set_pwrmode(m, x, off))
BY DEF set_pwrmode, Framed, Shaped, FrameV, FrameD, FrameR, FrameH, VFields, DFields, HFields

LEMMA UpdateEndFrame ==
    ASSUME NEW m, Shaped(m), NEW x \in Vaps
    PROVE  Framed(m, UpdateEnd(m, x))
BY DEF UpdateEnd, rtwn_tx_beacon, rtwn_beacon_enable,
       Framed, Shaped, FrameV, FrameD, FrameR, FrameH, VFields, DFields, HFields

LEMMA FrameTransitive ==
    ASSUME NEW m, NEW n, NEW o, Framed(m, n), Framed(n, o)
    PROVE  Framed(m, o)
BY DEF Framed, FrameV, FrameD, FrameR, FrameH

OtherOf(x) ==
    \/ Open(x) \/ Close(x) \/ rtwn_update_beacon(x) \/ rtwn_tx_beacon_csa(x) \/ rtwn_update_beacon_end(x)
    \/ rtwn_ioctl_reset(x)
OtherStep ==
    \/ \E x \in Vaps : OtherOf(x)
    \/ CallCheck \/ r21au_chan_check \/ RadarReported \/ ChannelSwitched
    \/ rtwn_calib_to \/ rtwn_calib_cb \/ rtwn_pwrmode_init \/ rtwn_set_pwrmode_cb

FramedStep == UNCHANGED <<plan, tq>> /\ \E n : Become(n) /\ Framed(Now, n)

LEMMA OtherOfFrame ==
    ASSUME TypeOK, NEW x \in Vaps, OtherOf(x)
    PROVE  FramedStep
<1> DEFINE F(n) == Framed(Now, n)
<1>1. Shaped(Now)
  BY NowShaped
<1>2. CASE Open(x)
  <2>1. F([Now EXCEPT !.v[x].open = TRUE])
    BY <1>1, OpenFrame
  <2> QED BY <1>2, <2>1 DEF Open, FramedStep
<1>3. CASE Close(x)
  <2>1. F([Now EXCEPT !.v[x].open = FALSE])
    BY <1>1, OpenFrame
  <2> QED BY <1>3, <2>1 DEF Close, FramedStep
<1>4. CASE rtwn_update_beacon(x)
  <2>1. F(BeginUpdate(Now, x))
    BY <1>1, BeginUpdateFrame
  <2>2. ASSUME NEW m, Framed(Now, m)
        PROVE  F([m EXCEPT !.v[x].csa = TRUE, !.d.csapending = TRUE])
    BY <2>2 DEF Framed, Shaped, FrameV, FrameD, FrameR, FrameH, VFields, DFields, HFields
  <2> QED BY <1>4, <2>1, <2>2 DEF rtwn_update_beacon, FramedStep
<1>5. CASE rtwn_tx_beacon_csa(x)
  <2>1. ASSUME NEW m, Framed(Now, m), NEW b
        PROVE  F([m EXCEPT !.v[x].csa = b])
    BY <2>1 DEF Framed, Shaped, FrameV, FrameD, FrameR, FrameH, VFields, DFields, HFields
  <2>2. F(Now)
    BY <1>1 DEF Framed, FrameV, FrameD, FrameR, FrameH
  <2>3. F([Now EXCEPT !.v[x].csa = FALSE])
    BY <2>1, <2>2
  <2>4. F(BeginUpdate([Now EXCEPT !.v[x].csa = FALSE], x))
    BY <2>3, BeginUpdateFrame, FrameTransitive DEF Framed
  <2>5. \A b : F([BeginUpdate([Now EXCEPT !.v[x].csa = FALSE], x) EXCEPT !.v[x].csa = b])
    BY <2>1, <2>4
  <2> QED BY <1>5, <2>3, <2>5 DEF rtwn_tx_beacon_csa, FramedStep
<1>6. CASE rtwn_update_beacon_end(x)
  BY <1>1, <1>6, UpdateEndFrame DEF rtwn_update_beacon_end, FramedStep
<1>7. CASE rtwn_ioctl_reset(x)
  <2> DEFINE set == [Now EXCEPT !.v[x].pm = ~@]
             told == IF d.running THEN set_pwrmode(set, x, TRUE) ELSE set
             late == IF told.hw.ps /\ v[x].curr = "NOLINK" THEN {"late"} ELSE {}
  <2>1. F(set)
    BY <1>1 DEF Framed, Shaped, FrameV, FrameD, FrameR, FrameH, VFields, DFields, HFields
  <2>2. Framed(set, set_pwrmode(set, x, TRUE))
    BY <2>1, PwrmodeFrame DEF Framed
  <2>5. F(told)
    BY <2>1, <2>2, FrameTransitive
  <2>3. ASSUME NEW m, Framed(Now, m), NEW s
        PROVE  F([m EXCEPT !.d.past = @ \cup s])
    BY <2>3 DEF Framed, Shaped, FrameV, FrameD, FrameR, FrameH, VFields, DFields, HFields
  <2>4. F([told EXCEPT !.d.past = @ \cup late])
    BY <2>5, <2>3
  <2> QED BY <1>7, <2>4 DEF rtwn_ioctl_reset, FramedStep
<1> QED
  BY <1>2, <1>3, <1>4, <1>5, <1>6, <1>7 DEF OtherOf

LEMMA OtherFrame ==
    ASSUME TypeOK, OtherStep
    PROVE  FramedStep
<1> DEFINE F(n) == Framed(Now, n)
<1>1. Shaped(Now)
  BY NowShaped
<1>2. CASE \E x \in Vaps : OtherOf(x)
  BY <1>2, OtherOfFrame
<1>3. CASE CallCheck
  <2>1. F([Now EXCEPT !.d.chk = FALSE, !.d.check = "called"])
    BY <1>1 DEF Framed, Shaped, FrameV, FrameD, FrameR, FrameH, VFields, DFields, HFields
  <2> QED BY <1>3, <2>1 DEF CallCheck, FramedStep
<1>4. CASE r21au_chan_check
  <2>1. F([Now EXCEPT !.d.check = "none", !.d.chk = @ \/ d.radar])
    BY <1>1 DEF Framed, Shaped, FrameV, FrameD, FrameR, FrameH, VFields, DFields, HFields
  <2>2. F([Now EXCEPT !.d.check = "reporting"])
    BY <1>1 DEF Framed, Shaped, FrameV, FrameD, FrameR, FrameH, VFields, DFields, HFields
  <2>3. F([Now EXCEPT !.d.check = "none"])
    BY <1>1 DEF Framed, Shaped, FrameV, FrameD, FrameR, FrameH, VFields, DFields, HFields
  <2>4. F(CloseAll([Now EXCEPT !.d.check = "none"]))
    BY <2>3, CloseAllFrame, FrameTransitive DEF Framed
  <2> QED BY <1>4, <2>1, <2>2, <2>3, <2>4 DEF r21au_chan_check, FramedStep
<1>5. CASE RadarReported
  <2>1. F([Now EXCEPT !.d.check = "none", !.d.chk = @ \/ d.radar])
    BY <1>1 DEF Framed, Shaped, FrameV, FrameD, FrameR, FrameH, VFields, DFields, HFields
  <2> QED BY <1>5, <2>1 DEF RadarReported, FramedStep
<1>6. CASE ChannelSwitched
  <2>1. F([Now EXCEPT !.d.csapending = FALSE])
    BY <1>1 DEF Framed, Shaped, FrameV, FrameD, FrameR, FrameH, VFields, DFields, HFields
  <2> QED BY <1>6, <2>1 DEF ChannelSwitched, FramedStep
<1>7. CASE rtwn_calib_to
  <2>1. F([Now EXCEPT !.d.calto = FALSE, !.d.calcmd = TRUE])
    BY <1>1 DEF Framed, Shaped, FrameV, FrameD, FrameR, FrameH, VFields, DFields, HFields
  <2> QED BY <1>7, <2>1 DEF rtwn_calib_to, FramedStep
<1>8. CASE rtwn_calib_cb
  <2> DEFINE done == [Now EXCEPT !.d.calcmd = FALSE, !.d.calto = @ \/ (d.running /\ d.vr > d.mr)]
  <2>1. F(done)
    BY <1>1 DEF Framed, Shaped, FrameV, FrameD, FrameR, FrameH, VFields, DFields, HFields
  <2>2. F([done EXCEPT !.hw.pause = {}])
    BY <2>1 DEF Framed, Shaped, FrameV, FrameD, FrameR, FrameH, VFields, DFields, HFields
  <2> QED BY <1>8, <2>1, <2>2 DEF rtwn_calib_cb, FramedStep
<1>9. CASE rtwn_pwrmode_init
  <2>1. F([Now EXCEPT !.d.pwrto = FALSE, !.d.pwrcmd = TRUE])
    BY <1>1 DEF Framed, Shaped, FrameV, FrameD, FrameR, FrameH, VFields, DFields, HFields
  <2> QED BY <1>9, <2>1 DEF rtwn_pwrmode_init, FramedStep
<1>10. CASE rtwn_set_pwrmode_cb
  <2> DEFINE done == [Now EXCEPT !.d.pwrcmd = FALSE]
  <2>1. F(done)
    BY <1>1 DEF Framed, Shaped, FrameV, FrameD, FrameR, FrameH, VFields, DFields, HFields
  <2>2. ASSUME d.slot[0] # NoVap
        PROVE  F(set_pwrmode(done, d.slot[0], TRUE))
    <3>1. d.slot[0] \in Vaps
      BY <1>1, <2>2 DEF Shaped, Now, Ports
    <3>2. Framed(done, set_pwrmode(done, d.slot[0], TRUE))
      BY <2>1, <3>1, PwrmodeFrame DEF Framed
    <3> QED BY <2>1, <3>2, FrameTransitive
  <2> QED BY <1>10, <2>1, <2>2 DEF rtwn_set_pwrmode_cb, FramedStep
<1> QED
  BY <1>2, <1>3, <1>4, <1>5, <1>6, <1>7, <1>8, <1>9, <1>10 DEF OtherStep

--------------------------------------------------------------------------
(* What each part of the invariant depends on.                              *)

LivesSame == plan' = plan /\ \A y \in Vaps : v'[y].life = v[y].life /\ v'[y].id = v[y].id
StatesSame == LivesSame /\ \A y \in Vaps : State(y)' = State(y)

LEMMA SameSets ==
    ASSUME plan' = plan, \A y \in Vaps : v'[y].life = v[y].life
    PROVE  /\ Counted' = Counted /\ Ported' = Ported
           /\ {x \in Ported : Beacons(x)}' = {x \in Ported : Beacons(x)}
           /\ {x \in Ported : Mode(x) = "AP"}' = {x \in Ported : Mode(x) = "AP"}
           /\ \A modes : Up(modes)' = Up(modes)
<1>1. Counted' = Counted
  BY DEF Counted
<1>2. Ported' = Ported
  BY <1>1 DEF Ported, Mode
<1>3. \A modes : Up(modes)' = Up(modes)
  BY <1>1 DEF Up, Mode, Counted
<1> QED
  BY <1>1, <1>2, <1>3 DEF Mode, Beacons

LEMMA SameLinking ==
    ASSUME StatesSame
    PROVE  Linking' = Linking
<1>1. Ported' = Ported /\ Ported \subseteq Vaps
  BY SameSets DEF StatesSame, LivesSame, Ported, Counted
<1> QED
  BY <1>1 DEF StatesSame, Linking

LEMMA SlotsKept ==
    ASSUME SlotsSound, LivesSame, d'.slot = d.slot, d.past \subseteq d'.past
    PROVE  SlotsSound'
<1>1. Ported' = Ported /\ Ported \subseteq Vaps
  BY SameSets DEF LivesSame, Ported, Counted
<1>2. Unharmed({"raced"})' => Unharmed({"raced"})
  BY DEF Unharmed
<1> QED
  BY <1>1, <1>2 DEF SlotsSound, LivesSame, Ports

LEMMA CountsKept ==
    ASSUME CountsSound, LivesSame,
           d'.nv = d.nv, d'.ap = d.ap, d'.bcn = d.bcn, d'.mon = d.mon
    PROVE  CountsSound'
BY SameSets DEF CountsSound, LivesSame

LEMMA LinksKept ==
    ASSUME LinksSound, StatesSame, \A y \in Vaps : v'[y].curr = v[y].curr,
           d'.vr - d'.mr = d.vr - d.mr, d.past \subseteq d'.past, hw'.flt2 = hw.flt2
    PROVE  LinksSound'
<1>1. Linking' = Linking /\ Ported' = Ported /\ Ported \subseteq Vaps
  BY SameLinking, SameSets DEF StatesSame, LivesSame, Ported, Counted
<1>2. \A f : Unharmed(f)' => Unharmed(f)
  BY DEF Unharmed
<1> QED
  BY <1>1, <1>2 DEF LinksSound

LEMMA MgtKept ==
    ASSUME MgtSound, LivesSame, d'.running = d.running, d'.mon = d.mon,
           d.past \subseteq d'.past, hw'.flt0 = hw.flt0
    PROVE  MgtSound'
<1>1. \A modes : Up(modes)' = Up(modes)
  BY SameSets DEF LivesSame
<1>2. \A f : Unharmed(f)' => Unharmed(f)
  BY DEF Unharmed
<1> QED
  BY <1>1, <1>2 DEF MgtSound

LEMMA UdtKept ==
    ASSUME UdtSound, StatesSame, hw'.udt \subseteq hw.udt, d.past \subseteq d'.past,
           tq.what = "tsf" => tq' = tq /\ tq.vap \in Vaps
    PROVE  UdtSound'
<1>1. Linking' = Linking /\ Linking \subseteq Vaps
  BY SameLinking DEF Linking, Ported, Counted
<1>2. \A f : Unharmed(f)' => Unharmed(f)
  BY DEF Unharmed
<1> QED
  BY <1>1, <1>2 DEF UdtSound, StatesSame, LivesSame, Mode

LEMMA OutsideFilter ==
    ASSUME IInv, NEW n, Become(n), UNCHANGED <<plan, tq>>,
           Shaped(n), FrameV(Now, n), FrameD(Now, n), FrameH(Now, n)
    PROVE  /\ TypeOK' /\ LivesSound' /\ SlotsSound' /\ CountsSound'
           /\ LinksSound' /\ MgtSound' /\ UdtSound'
<1>1. plan' = plan /\ tq' = tq
  OBVIOUS
<1>2. /\ \A y \in Vaps :
           /\ v'[y].life = v[y].life /\ v'[y].id = v[y].id /\ v'[y].state = v[y].state
           /\ v'[y].curr = v[y].curr /\ v'[y].callout = v[y].callout /\ v'[y].task = v[y].task
      /\ d'.running = d.running /\ d'.slot = d.slot
      /\ d'.nv = d.nv /\ d'.ap = d.ap /\ d'.bcn = d.bcn /\ d'.mon = d.mon
      /\ d'.vr = d.vr /\ d'.mr = d.mr /\ d.past \subseteq d'.past
      /\ hw'.flt0 = hw.flt0 /\ hw'.flt2 = hw.flt2 /\ hw'.udt = hw.udt
  BY DEF FrameV, FrameD, FrameH, Become, Now
<1>3. Shaped(Now)'
  BY DEF Shaped, Become, Now, Ports
<1>4. StatesSame /\ LivesSame
  BY <1>1, <1>2 DEF StatesSame, LivesSame, State
<1>5. TypeOK'
  BY <1>1, <1>2, <1>3 DEF IInv, TypeOK
<1>6. LivesSound'
  <2>1. Counted' = Counted /\ Ported' = Ported
    BY <1>4, SameSets DEF LivesSame
  <2> QED BY <1>1, <1>2, <1>4, <2>1 DEF IInv, LivesSound, LifeSound, StatesSame, Mode
<1>7. SlotsSound' /\ CountsSound'
  BY <1>2, <1>4, SlotsKept, CountsKept DEF IInv
<1>8. LinksSound' /\ MgtSound'
  BY <1>2, <1>4, LinksKept, MgtKept DEF IInv
<1>9. UdtSound'
  BY <1>1, <1>2, <1>4, UdtKept DEF IInv, TypeOK
<1> QED
  BY <1>5, <1>6, <1>7, <1>8, <1>9

LEMMA FramedKept ==
    ASSUME IInv, FramedStep
    PROVE  IInv'
<1>1. PICK n : Become(n) /\ Framed(Now, n)
  BY DEF FramedStep
<1>2. UNCHANGED <<plan, tq>>
  BY DEF FramedStep
<1>3. /\ TypeOK' /\ LivesSound' /\ SlotsSound' /\ CountsSound'
      /\ LinksSound' /\ MgtSound' /\ UdtSound'
  BY <1>1, <1>2, OutsideFilter DEF Framed
<1>4. /\ d'.rcr = d.rcr /\ d'.locked = d.locked /\ d'.promisc = d.promisc /\ d'.ptask = d.ptask
      /\ hw'.rcr = hw.rcr /\ d'.mon = d.mon /\ d'.running = d.running /\ d.past \subseteq d'.past
      /\ \A y \in Vaps : v'[y].life = v[y].life
  BY <1>1 DEF Framed, FrameR, FrameD, FrameV, Become, Now
<1>5. RcrSound'
  <2>1. \A modes : Up(modes)' = Up(modes)
    BY <1>2, <1>4, SameSets
  <2>2. \A f : Unharmed(f)' => Unharmed(f)
    BY <1>4 DEF Unharmed
  <2> QED BY <1>2, <1>4, <2>1, <2>2 DEF IInv, RcrSound
<1> QED
  BY <1>3, <1>5 DEF IInv

--------------------------------------------------------------------------
(* The receive filter.                                                      *)

Filtered(m, n) ==
    /\ Shaped(n) /\ FrameV(m, n) /\ FrameD(m, n)
    /\ n.d.locked = m.d.locked /\ n.d.promisc = m.d.promisc /\ n.d.ptask = m.d.ptask
    /\ n.hw.flt2 = m.hw.flt2 /\ n.hw.udt = m.hw.udt
    /\ n.hw.rcr = IF m.d.locked THEN m.hw.rcr ELSE n.d.rcr

\* What rtwn_set_promisc() and rtwn_rxfilter_update_mgt() reach.
PromiscSet(m, n) ==
    /\ m.d.promisc \/ m.d.mon # 0 => "all" \in n.d.rcr
    /\ ~m.d.promisc /\ m.d.mon = 0 =>
         /\ "apm" \in n.d.rcr
         /\ m.d.bcn # 0 => "bcn" \notin n.d.rcr
         /\ m.d.ap # 0 => "data" \notin n.d.rcr
MgtSet(m, n) ==
    /\ m.d.bcn # 0 => "req" \in n.hw.flt0
    /\ m.d.ap # m.d.nv - m.d.mon => "resp" \in n.hw.flt0

LEMMA SetEffect ==
    ASSUME NEW m, Shaped(m)
    PROVE  /\ Filtered(m, rtwn_rxfilter_set(m))
           /\ rtwn_rxfilter_set(m).d = m.d /\ rtwn_rxfilter_set(m).hw.flt0 = m.hw.flt0
BY DEF rtwn_rxfilter_set, Filtered, Shaped, FrameV, FrameD, HFields

WithRcr(m, r) == [m EXCEPT !.d.rcr = r]

LEMMA RcrEffect ==
    ASSUME NEW m, Shaped(m), NEW r,
           NEW n, n = rtwn_rxfilter_set(WithRcr(m, r))
    PROVE  Filtered(m, n) /\ n.d.rcr = r /\ n.hw.flt0 = m.hw.flt0 /\ n.d.past = m.d.past
<1> DEFINE o == WithRcr(m, r)
<1>1. /\ Shaped(o) /\ FrameV(m, o) /\ FrameD(m, o) /\ o.d.rcr = r /\ o.hw = m.hw
      /\ o.d.past = m.d.past /\ o.d.locked = m.d.locked /\ o.d.promisc = m.d.promisc /\ o.d.ptask = m.d.ptask
  BY DEF WithRcr, Shaped, FrameV, FrameD, DFields
<1> HIDE DEF o
<1>2. Filtered(o, rtwn_rxfilter_set(o)) /\ rtwn_rxfilter_set(o).d = o.d /\ rtwn_rxfilter_set(o).hw.flt0 = o.hw.flt0
  BY <1>1, SetEffect
<1>3. n = rtwn_rxfilter_set(o)
  BY DEF o
<1>4. FrameV(m, n)
  BY <1>1, <1>2, <1>3 DEF Filtered, FrameV
<1>7. FrameD(m, n)
  BY <1>1, <1>2, <1>3 DEF FrameD
<1>5. n.hw.rcr = IF m.d.locked THEN m.hw.rcr ELSE n.d.rcr
  BY <1>1, <1>2, <1>3 DEF Filtered
<1>6. /\ Shaped(n) /\ n.d.past = m.d.past /\ n.hw.flt2 = m.hw.flt2 /\ n.hw.udt = m.hw.udt
      /\ n.d.locked = m.d.locked /\ n.d.promisc = m.d.promisc /\ n.d.ptask = m.d.ptask
  BY <1>1, <1>2, <1>3 DEF Filtered
<1> QED
  BY <1>1, <1>2, <1>3, <1>4, <1>5, <1>6, <1>7 DEF Filtered

LEMMA BssidAllEffect ==
    ASSUME NEW m, Shaped(m), NEW e \in BOOLEAN,
           NEW n, n = rtwn_set_rx_bssid_all(m, e)
    PROVE  /\ Filtered(m, n) /\ n.hw.flt0 = m.hw.flt0 /\ n.d.past = m.d.past
           /\ e => n.d.rcr = m.d.rcr \ {"bcn"}
           /\ ~e => n.d.rcr = m.d.rcr \cup {"bcn"}
<1> DEFINE r == IF e THEN m.d.rcr \ {"bcn"} ELSE m.d.rcr \cup {"bcn"}
<1>1. n = rtwn_rxfilter_set(WithRcr(m, r))
  BY DEF rtwn_set_rx_bssid_all, WithRcr
<1> HIDE DEF r
<1>2. Filtered(m, n) /\ n.d.rcr = r /\ n.hw.flt0 = m.hw.flt0 /\ n.d.past = m.d.past
  BY <1>1, RcrEffect
<1> QED
  BY <1>2 DEF r

LEMMA PromiscEffect ==
    ASSUME NEW m, Shaped(m),
           NEW n, n = rtwn_set_promisc(m)
    PROVE  Filtered(m, n) /\ n.hw.flt0 = m.hw.flt0 /\ n.d.past = m.d.past /\ PromiscSet(m, n)
<1> DEFINE min == {"apm"} \cup (IF m.d.bcn = 0 THEN {"bcn"} ELSE {})
                          \cup (IF m.d.ap = 0 THEN {"data"} ELSE {})
           r == IF ~m.d.promisc /\ m.d.mon = 0 THEN (m.d.rcr \ {"all", "bcn", "data"}) \cup min
                ELSE (m.d.rcr \ min) \cup {"all"}
<1>1. n = rtwn_rxfilter_set(WithRcr(m, r))
  BY DEF rtwn_set_promisc, WithRcr
<1>2. Filtered(m, n) /\ n.d.rcr = r /\ n.hw.flt0 = m.hw.flt0 /\ n.d.past = m.d.past
  <2> HIDE DEF r
  <2> QED BY <1>1, RcrEffect
<1>3. PromiscSet(m, n)
  BY <1>2 DEF PromiscSet
<1> QED
  BY <1>2, <1>3

LEMMA UpdateEffect ==
    ASSUME NEW m, Shaped(m),
           NEW n, n = rtwn_rxfilter_update(m)
    PROVE  Filtered(m, n) /\ n.d.past = m.d.past /\ PromiscSet(m, n) /\ MgtSet(m, n)
<1> DEFINE o == rtwn_rxfilter_update_mgt(m)
<1>1. /\ Shaped(o) /\ FrameV(m, o) /\ FrameD(m, o) /\ FrameR(m, o)
      /\ o.d.past = m.d.past /\ o.hw.flt2 = m.hw.flt2 /\ o.hw.udt = m.hw.udt
      /\ MgtSet(m, o)
  BY DEF rtwn_rxfilter_update_mgt, Shaped, FrameV, FrameD, FrameR, HFields, MgtSet
<1> HIDE DEF o
<1>2. Filtered(o, n) /\ n.hw.flt0 = o.hw.flt0 /\ n.d.past = o.d.past /\ PromiscSet(o, n)
  BY <1>1, PromiscEffect DEF rtwn_rxfilter_update, o
<1> QED
  BY <1>1, <1>2 DEF Filtered, FrameV, FrameD, FrameR, PromiscSet, MgtSet

\* What the counters are for: vaps that are up are counted.
LEMMA CountedUp ==
    ASSUME CountsSound'
    PROVE  /\ Up({"MON"})' # {} => d'.mon # 0
           /\ Up({"AP", "IBSS"})' # {} => d'.bcn # 0
           /\ Up({"AP"})' # {} => d'.ap # 0
           /\ Up({"STA"})' # {} /\ d'.mon = 0 => d'.ap # d'.nv - d'.mon
<1> DEFINE B == {x \in Ported : Beacons(x)}
           A == {x \in Ported : Mode(x) = "AP"}
<1>1. IsFiniteSet(Ported)' /\ IsFiniteSet(Counted \ Ported)' /\ IsFiniteSet(B)' /\ IsFiniteSet(A)'
  <2>1. Ported' \subseteq Counted' /\ (Counted \ Ported)' \subseteq Counted' /\ B' \subseteq Counted' /\ A' \subseteq Counted'
    BY DEF Ported
  <2> QED BY <2>1, FS_Subset DEF CountsSound
<1>2. /\ Up({"MON"})' \subseteq (Counted \ Ported)' /\ Up({"AP", "IBSS"})' \subseteq B'
      /\ Up({"AP"})' \subseteq A' /\ Up({"STA"})' \subseteq Ported' \ A'
  BY DEF Up, Ported, Beacons
<1>3. Up({"MON"})' # {} => d'.mon # 0
  BY <1>1, <1>2, FS_EmptySet DEF CountsSound
<1>4. Up({"AP", "IBSS"})' # {} => d'.bcn # 0
  BY <1>1, <1>2, FS_EmptySet DEF CountsSound
<1>5. Up({"AP"})' # {} => d'.ap # 0
  BY <1>1, <1>2, FS_EmptySet DEF CountsSound
<1>6. ASSUME Up({"STA"})' # {}, d'.mon = 0
      PROVE  d'.ap # d'.nv - d'.mon
  <2>1. A' \subseteq Ported' /\ A' # Ported'
    BY <1>2, <1>6
  <2>2. Cardinality(A') # Cardinality(Ported')
    BY <1>1, <2>1, FS_Subset
  <2>3. d'.ap = Cardinality(A') /\ d'.nv = Cardinality(Ported') /\ d'.nv \in Nat
    BY <1>1, FS_CardinalityType DEF CountsSound
  <2> QED BY <1>6, <2>2, <2>3
<1> QED
  BY <1>3, <1>4, <1>5, <1>6

\* A step that sets the filter and changes nothing else but RCR's copy.
LEMMA FilteredKept ==
    ASSUME IInv, NEW n, Become(n), UNCHANGED <<plan, tq>>,
           Filtered(Now, n), n.hw.flt0 = hw.flt0,
           d.running =>
             /\ ~d.ptask /\ (d.promisc \/ Up({"MON"}) # {}) => "all" \in n.d.rcr
             /\ ~d.ptask /\ ~d.promisc /\ d.mon = 0 /\ Unharmed({"undone"}) =>
                  /\ "apm" \in n.d.rcr
                  /\ ~d.locked /\ Up({"AP", "IBSS"}) # {} => "bcn" \notin n.d.rcr
                  /\ Up({"AP"}) # {} => "data" \notin n.d.rcr
    PROVE  IInv'
<1>1. /\ TypeOK' /\ LivesSound' /\ SlotsSound' /\ CountsSound'
      /\ LinksSound' /\ MgtSound' /\ UdtSound'
  BY OutsideFilter DEF Filtered, FrameH, Now
<1>2. /\ d'.locked = d.locked /\ d'.promisc = d.promisc /\ d'.ptask = d.ptask
      /\ d'.mon = d.mon /\ d'.running = d.running /\ d.past \subseteq d'.past
      /\ \A y \in Vaps : v'[y].life = v[y].life
      /\ d'.rcr = n.d.rcr /\ hw'.rcr = IF d.locked THEN hw.rcr ELSE d'.rcr
  BY DEF Filtered, FrameD, FrameV, Become, Now
<1>3. RcrSound'
  <2>1. \A modes : Up(modes)' = Up(modes)
    BY <1>2, SameSets
  <2>2. \A f : Unharmed(f)' => Unharmed(f)
    BY <1>2 DEF Unharmed
  <2> QED BY <1>2, <2>1, <2>2 DEF IInv, RcrSound
<1> QED
  BY <1>1, <1>3 DEF IInv

LEMMA FramedFiltered ==
    ASSUME NEW m, NEW o, NEW n, Framed(m, o), Filtered(o, n)
    PROVE  Filtered(m, n)
<1>1. FrameV(m, n)
  BY DEF Framed, Filtered, FrameV
<1>2. FrameD(m, n)
  BY DEF Framed, Filtered, FrameD
<1> QED
  BY <1>1, <1>2 DEF Framed, Filtered, FrameR, FrameH

LEMMA ScanStartKeeps ==
    ASSUME IInv, rtwn_scan_start
    PROVE  IInv'
<1> DEFINE quiet == IF d.radar THEN [Now EXCEPT !.d.chk = FALSE, !.hw.radar = FALSE] ELSE Now
           paused == [quiet EXCEPT !.d.scanning = TRUE, !.hw.pause = @ \cup {"bcn"}]
           n == rtwn_set_rx_bssid_all(paused, TRUE)
<1>1. Framed(Now, paused)
  <2>1. Shaped(Now)
    BY NowShaped DEF IInv
  <2>2. Framed(Now, quiet)
    BY <2>1 DEF Framed, Shaped, FrameV, FrameD, FrameR, FrameH, VFields, DFields, HFields
  <2> QED BY <2>2 DEF Framed, Shaped, FrameV, FrameD, FrameR, FrameH, VFields, DFields, HFields
<1>2. UNCHANGED <<plan, tq>> /\ Become(IF d.bcn = 0 THEN n ELSE paused)
  BY DEF rtwn_scan_start
<1> HIDE DEF paused
<1>3. CASE d.bcn # 0
  BY <1>1, <1>2, <1>3, FramedKept DEF FramedStep
<1>4. CASE d.bcn = 0
  <2>1. Become(n)
    BY <1>2, <1>4
  <2>2. Filtered(paused, n) /\ n.hw.flt0 = paused.hw.flt0 /\ n.d.rcr = paused.d.rcr \ {"bcn"}
    BY <1>1, BssidAllEffect DEF Framed
  <2>3. Filtered(Now, n) /\ n.hw.flt0 = hw.flt0 /\ n.d.rcr = d.rcr \ {"bcn"}
    BY <1>1, <2>2, FramedFiltered DEF Framed, FrameH, FrameR, Now
  <2> HIDE DEF n
  <2> QED BY <1>2, <2>1, <2>3, FilteredKept DEF IInv, RcrSound
<1> QED
  BY <1>3, <1>4

LEMMA ScanEndKeeps ==
    ASSUME IInv, rtwn_scan_end
    PROVE  IInv'
<1> DEFINE begun == IF d.radar THEN [Now EXCEPT !.d.chk = TRUE, !.hw.radar = TRUE] ELSE Now
           over == [begun EXCEPT !.d.scanning = FALSE, !.hw.pause = @ \ {"bcn"}]
           n == rtwn_set_rx_bssid_all(over, FALSE)
           closed == CloseAll([Now EXCEPT !.d.scanning = FALSE, !.d.past = @ \cup {"failed"}])
<1>1. Shaped(Now)
  BY NowShaped DEF IInv
<1>2. CASE Become(closed)
  <2>1. Framed(Now, [Now EXCEPT !.d.scanning = FALSE, !.d.past = @ \cup {"failed"}])
    BY <1>1 DEF Framed, Shaped, FrameV, FrameD, FrameR, FrameH, VFields, DFields, HFields
  <2>2. Framed(Now, closed)
    BY <2>1, CloseAllFrame, FrameTransitive DEF Framed
  <2>3. FramedStep
    BY <1>2, <2>2 DEF rtwn_scan_end, FramedStep
  <2> QED BY <2>3, FramedKept
<1>3. CASE Become(ScanEnd(begun))
  <2>1. Framed(Now, over)
    <3>1. Framed(Now, begun)
      BY <1>1 DEF Framed, Shaped, FrameV, FrameD, FrameR, FrameH, VFields, DFields, HFields
    <3> QED BY <3>1 DEF Framed, Shaped, FrameV, FrameD, FrameR, FrameH, VFields, DFields, HFields
  <2>2. begun.d.promisc = d.promisc /\ begun.d.bcn = d.bcn
    BY <1>1 DEF Shaped, DFields, Now
  <2>3. UNCHANGED <<plan, tq>> /\ Become(IF ~d.promisc /\ d.bcn = 0 THEN n ELSE over)
    BY <1>3, <2>2 DEF rtwn_scan_end, ScanEnd
  <2> HIDE DEF over
  <2>4. CASE ~(~d.promisc /\ d.bcn = 0)
    BY <2>1, <2>3, <2>4, FramedKept DEF FramedStep
  <2>5. CASE ~d.promisc /\ d.bcn = 0
    <3>1. Become(n)
      BY <2>3, <2>5
    <3>5. Shaped(over)
      BY <2>1 DEF Framed
    <3>2. Filtered(over, n) /\ n.hw.flt0 = over.hw.flt0 /\ n.d.rcr = over.d.rcr \cup {"bcn"}
      BY <3>5, BssidAllEffect
    <3>3. Filtered(Now, n) /\ n.hw.flt0 = hw.flt0 /\ n.d.rcr = d.rcr \cup {"bcn"}
      BY <2>1, <3>2, FramedFiltered DEF Framed, FrameH, FrameR, Now
    <3> HIDE DEF n
    <3>4. Up({"AP", "IBSS"}) = {}
      <4>1. CountsSound' /\ d'.bcn = d.bcn /\ LivesSame
        BY <2>3, <3>1, <3>3, OutsideFilter DEF Filtered, FrameH, FrameV, FrameD, Now, Become, LivesSame
      <4> QED BY <2>5, <4>1, CountedUp, SameSets DEF LivesSame
    <3> QED BY <2>3, <3>1, <3>3, <3>4, FilteredKept DEF IInv, RcrSound
  <2> QED BY <2>4, <2>5
<1> QED
  BY <1>2, <1>3 DEF rtwn_scan_end

LEMMA SetPromiscKeeps ==
    ASSUME IInv, SetPromisc
    PROVE  IInv'
<1> DEFINE n == [Now EXCEPT !.d.promisc = ~@, !.d.ptask = TRUE]
<1>1. /\ Become(n) /\ UNCHANGED <<plan, tq>> /\ Shaped(n)
      /\ FrameV(Now, n) /\ FrameD(Now, n) /\ FrameH(Now, n)
      /\ n.d.ptask /\ n.d.locked = d.locked /\ n.d.rcr = d.rcr /\ n.hw.rcr = hw.rcr /\ n.d.running = d.running
  BY NowShaped DEF SetPromisc, IInv, Shaped, FrameV, FrameD, FrameH, DFields, HFields, Now
<1> HIDE DEF n
<1>2. /\ TypeOK' /\ LivesSound' /\ SlotsSound' /\ CountsSound'
      /\ LinksSound' /\ MgtSound' /\ UdtSound'
  BY <1>1, OutsideFilter
<1>3. d'.ptask /\ d'.locked = d.locked /\ d'.rcr = d.rcr /\ hw'.rcr = hw.rcr /\ d'.running = d.running
  BY <1>1 DEF Become
<1>4. RcrSound'
  BY <1>1, <1>3 DEF IInv, RcrSound
<1> QED
  BY <1>2, <1>4 DEF IInv

LEMMA UpdatePromiscKeeps ==
    ASSUME IInv, rtwn_update_promisc
    PROVE  IInv'
<1> DEFINE done == [Now EXCEPT !.d.ptask = FALSE]
           n == IF d.running THEN rtwn_set_promisc(done) ELSE done
<1>1. /\ Shaped(done) /\ FrameV(Now, done) /\ FrameD(Now, done) /\ FrameH(Now, done)
      /\ done.d.promisc = d.promisc /\ done.d.locked = d.locked /\ done.d.rcr = d.rcr /\ done.hw.rcr = hw.rcr
      /\ done.d.mon = d.mon /\ done.d.ap = d.ap /\ done.d.bcn = d.bcn
  BY NowShaped DEF IInv, Shaped, FrameV, FrameD, FrameH, DFields, HFields, Now
<1>2. Become(n) /\ UNCHANGED <<plan, tq>> /\ tq = Idle
  BY DEF rtwn_update_promisc
<1> HIDE DEF done
<1>3. ASSUME d.running
      PROVE  Filtered(done, n) /\ n.hw.flt0 = done.hw.flt0 /\ PromiscSet(done, n)
  BY <1>1, <1>3, PromiscEffect
<1>4. Shaped(n) /\ FrameV(Now, n) /\ FrameD(Now, n) /\ FrameH(Now, n)
  <2>1. CASE ~d.running
    BY <1>1, <2>1
  <2>2. CASE d.running
    <3>1. Filtered(done, n) /\ n.hw.flt0 = done.hw.flt0
      BY <1>3, <2>2
    <3> HIDE DEF n
    <3>2. FrameV(Now, n)
      BY <1>1, <3>1 DEF Filtered, FrameV
    <3>3. FrameD(Now, n)
      BY <1>1, <3>1 DEF Filtered, FrameD
    <3> QED BY <1>1, <3>1, <3>2, <3>3 DEF Filtered, FrameH
  <2> QED BY <2>1, <2>2
<1>5. /\ TypeOK' /\ LivesSound' /\ SlotsSound' /\ CountsSound'
      /\ LinksSound' /\ MgtSound' /\ UdtSound'
  BY <1>2, <1>4, OutsideFilter
<1>6. d'.running = d.running /\ d'.locked = d.locked /\ tq' = Idle
  <2>1. n.d.locked = d.locked
    BY <1>1, <1>3 DEF Filtered
  <2> QED BY <1>2, <1>4, <2>1 DEF Become, FrameD, Now
<1>7. ~d'.locked /\ tq'.what = "idle"
  BY <1>2, <1>6 DEF IInv, RcrSound, Idle
<1>8. ASSUME d.running
      PROVE  hw'.rcr = d'.rcr /\ d'.promisc = d.promisc /\ d'.mon = d.mon /\ PromiscSet(done, n)
  BY <1>1, <1>2, <1>3, <1>6, <1>7, <1>8 DEF Filtered, FrameD, Become
<1>9. RcrSound'
  <2>1. CASE ~d.running
    BY <1>6, <1>7, <2>1 DEF RcrSound
  <2>2. CASE d.running
    <3>1. /\ Up({"MON"})' # {} => d'.mon # 0
          /\ Up({"AP", "IBSS"})' # {} => d.bcn # 0
          /\ Up({"AP"})' # {} => d.ap # 0
      BY <1>2, <1>4, <1>5, CountedUp DEF FrameD, Become, Now
    <3>2. d'.rcr = n.d.rcr
      BY <1>2 DEF Become
    <3> HIDE DEF n
    <3> QED BY <1>1, <1>7, <1>8, <2>2, <3>1, <3>2 DEF RcrSound, PromiscSet
  <2> QED BY <2>1, <2>2
<1> QED
  BY <1>5, <1>9 DEF IInv

LEMMA IfcapKeeps ==
    ASSUME IInv, r12a_ioctl_net
    PROVE  IInv'
<1> DEFINE r == IF "offload" \in d.rcr THEN d.rcr \ {"offload"} ELSE d.rcr \cup {"offload"}
           set == WithRcr(Now, r)
<1>1. /\ UNCHANGED <<plan, tq>> /\ Become(IF d.running THEN rtwn_rxfilter_set(set) ELSE set)
      /\ Shaped(Now)
  BY NowShaped DEF r12a_ioctl_net, IInv, Now, WithRcr
<1>2. \A b \in {"all", "apm", "bcn", "data"} : b \in r <=> b \in d.rcr
  OBVIOUS
<1>3. CASE d.running
  <2> DEFINE n == rtwn_rxfilter_set(set)
  <2>1. Become(n)
    BY <1>1, <1>3
  <2> HIDE DEF r
  <2>2. Filtered(Now, n) /\ n.d.rcr = r /\ n.hw.flt0 = hw.flt0
    BY <1>1, RcrEffect DEF Now
  <2> HIDE DEF n
  <2> QED BY <1>1, <1>2, <2>1, <2>2, FilteredKept DEF IInv, RcrSound
<1>4. CASE ~d.running
  <2> HIDE DEF r
  <2>1. /\ Become(set) /\ Shaped(set) /\ FrameV(Now, set) /\ FrameD(Now, set) /\ FrameH(Now, set)
        /\ set.d.locked = d.locked /\ set.hw.rcr = hw.rcr /\ set.d.running = d.running
    BY <1>1, <1>4 DEF WithRcr, Shaped, FrameV, FrameD, FrameH, DFields, HFields, Now
  <2> HIDE DEF set
  <2>2. /\ TypeOK' /\ LivesSound' /\ SlotsSound' /\ CountsSound'
        /\ LinksSound' /\ MgtSound' /\ UdtSound'
    BY <1>1, <2>1, OutsideFilter
  <2>3. RcrSound'
    BY <1>1, <1>4, <2>1 DEF IInv, RcrSound, Become
  <2> QED BY <2>2, <2>3 DEF IInv
<1> QED
  BY <1>3, <1>4

--------------------------------------------------------------------------
(* TSF synchronisation.                                                     *)

Syncing(y) == v[y].callout \/ v[y].task \/ (tq.what = "tsf" /\ tq.vap = y)

LEMMA LivesKept ==
    ASSUME LivesSound, StatesSame, d'.running = d.running, tq'.what = "state" => tq' = tq,
           \A y \in Vaps : v'[y].state = v[y].state /\ v'[y].curr = v[y].curr,
           \A y \in Vaps : Syncing(y)' => Syncing(y)
    PROVE  LivesSound'
<1>1. Counted' = Counted /\ Ported' = Ported
  BY SameSets DEF StatesSame, LivesSame
<1> QED
  BY <1>1 DEF LivesSound, LifeSound, StatesSame, LivesSame, Mode, Syncing

\* The parts of the invariant that a synchronisation leaves alone.
LEMMA SyncKeeps ==
    ASSUME IInv, NEW n, Become(n), Shaped(n), FrameD(Now, n), plan' = plan,
           \A y \in Vaps :
              /\ n.v[y].life = v[y].life /\ n.v[y].id = v[y].id
              /\ n.v[y].state = v[y].state /\ n.v[y].curr = v[y].curr,
           n.hw.flt0 = hw.flt0, n.hw.flt2 = hw.flt2,
           tq' = tq \/ (tq.what # "state" /\ tq'.what # "state"),
           \A y \in Vaps : Syncing(y)' => Syncing(y)
    PROVE  /\ LivesSound' /\ SlotsSound' /\ CountsSound' /\ LinksSound' /\ MgtSound'
           /\ Shaped(Now)' /\ StatesSame
           /\ d'.running = d.running /\ d'.mon = d.mon /\ d.past \subseteq d'.past
           /\ {d.nv, d.ap, d.bcn, d.mon, d.vr, d.mr}' \subseteq Int
<1>1. /\ \A y \in Vaps :
           /\ v'[y].life = v[y].life /\ v'[y].id = v[y].id /\ v'[y].state = v[y].state
           /\ v'[y].curr = v[y].curr
      /\ d'.running = d.running /\ d'.slot = d.slot
      /\ d'.nv = d.nv /\ d'.ap = d.ap /\ d'.bcn = d.bcn /\ d'.mon = d.mon
      /\ d'.vr = d.vr /\ d'.mr = d.mr /\ d.past \subseteq d'.past
      /\ hw'.flt0 = hw.flt0 /\ hw'.flt2 = hw.flt2
  BY DEF FrameD, Become, Now
<1>2. Shaped(Now)'
  BY DEF Shaped, Become, Now, Ports
<1>3. StatesSame /\ LivesSame
  BY <1>1 DEF StatesSame, LivesSame, State
<1>4. LivesSound'
  BY <1>1, <1>3, LivesKept DEF IInv
<1>5. SlotsSound' /\ CountsSound'
  BY <1>1, <1>3, SlotsKept, CountsKept DEF IInv
<1>6. LinksSound' /\ MgtSound'
  BY <1>1, <1>3, LinksKept, MgtKept DEF IInv
<1> QED
  BY <1>1, <1>2, <1>3, <1>4, <1>5, <1>6 DEF IInv, TypeOK

LEMMA AdhocKeeps ==
    ASSUME IInv, NEW x \in Vaps, rtwn_tsf_sync_adhoc(x)
    PROVE  IInv'
<1> DEFINE n == [Now EXCEPT !.v[x].callout = FALSE, !.v[x].task = @ \/ v[x].curr # "NOLINK"]
<1>1. Become(n) /\ v[x].callout /\ plan' = plan /\ tq' = tq
  BY DEF rtwn_tsf_sync_adhoc
<1>2. /\ Shaped(n) /\ n.d = d /\ n.hw = hw
      /\ \A y \in Vaps :
           /\ n.v[y].life = v[y].life /\ n.v[y].id = v[y].id
           /\ n.v[y].state = v[y].state /\ n.v[y].curr = v[y].curr
      /\ \A y \in Vaps \ {x} : n.v[y].callout = v[y].callout /\ n.v[y].task = v[y].task
  BY NowShaped DEF IInv, Shaped, VFields, Now
<1> HIDE DEF n
<1>3. Syncing(x)
  BY <1>1 DEF Syncing
<1>4. \A y \in Vaps : Syncing(y)' => Syncing(y)
  BY <1>1, <1>2, <1>3 DEF Syncing, Become
<1>5. /\ LivesSound' /\ SlotsSound' /\ CountsSound' /\ LinksSound' /\ MgtSound'
      /\ Shaped(Now)' /\ StatesSame
  BY <1>1, <1>2, <1>4, SyncKeeps DEF FrameD, Now
<1>6. d' = d /\ hw' = hw
  BY <1>1, <1>2 DEF Become
<1>7. UdtSound'
  BY <1>1, <1>5, <1>6, UdtKept DEF IInv, TypeOK
<1>8. RcrSound'
  <2>1. \A modes : Up(modes)' = Up(modes)
    BY <1>5, SameSets DEF StatesSame, LivesSame
  <2> QED BY <1>1, <1>6, <2>1 DEF IInv, RcrSound, Unharmed
<1>9. TypeOK'
  BY <1>1, <1>5, <1>6 DEF IInv, TypeOK
<1> QED
  BY <1>5, <1>7, <1>8, <1>9 DEF IInv

LEMMA TsfTaskKeeps ==
    ASSUME IInv, NEW x \in Vaps, rtwn_tsf_sync_adhoc_task(x)
    PROVE  IInv'
<1> DEFINE m == rtwn_set_rx_bssid_all(Now, FALSE)
           n == TsfTask(Now, x)
<1>1. /\ Become(n) /\ tq = Idle /\ v[x].task /\ plan' = plan
      /\ tq' = [what |-> "tsf", vap |-> x, to |-> "INIT"]
  BY DEF rtwn_tsf_sync_adhoc_task
<1>2. Filtered(Now, m) /\ m.hw.flt0 = hw.flt0 /\ m.d.rcr = d.rcr \cup {"bcn"}
  BY NowShaped, BssidAllEffect DEF IInv, Now
<1>3. ~d.locked
  BY <1>1 DEF IInv, RcrSound, Idle
<1>4. m.hw.rcr = m.d.rcr
  BY <1>2, <1>3 DEF Filtered, Now
<1>16. n = [m EXCEPT !.v[x].task = FALSE, !.d.locked = TRUE, !.hw.udt = @ \cup {v[x].id}]
  BY DEF TsfTask, Now
<1> HIDE DEF m, n
<1>17. Shaped(m) /\ m.hw.udt = hw.udt
  BY <1>2 DEF Filtered, Now
<1>5. /\ Shaped(n) /\ n.d.locked /\ n.hw.udt = hw.udt \cup {v[x].id}
      /\ n.d.rcr = m.d.rcr /\ n.hw.rcr = m.hw.rcr /\ n.hw.flt0 = m.hw.flt0 /\ n.hw.flt2 = m.hw.flt2
      /\ n.d.promisc = m.d.promisc /\ n.d.ptask = m.d.ptask
      /\ FrameD(m, n)
      /\ \A y \in Vaps :
           /\ n.v[y].life = m.v[y].life /\ n.v[y].id = m.v[y].id
           /\ n.v[y].state = m.v[y].state /\ n.v[y].curr = m.v[y].curr
           /\ n.v[y].callout = m.v[y].callout
      /\ \A y \in Vaps \ {x} : n.v[y].task = m.v[y].task
  BY <1>16, <1>17 DEF Shaped, FrameD, VFields, DFields, HFields
<1>6. FrameD(Now, n)
  BY <1>2, <1>5 DEF Filtered, FrameD
<1>7. Syncing(x)
  BY <1>1 DEF Syncing
<1>8. /\ \A y \in Vaps :
           /\ n.v[y].life = v[y].life /\ n.v[y].id = v[y].id
           /\ n.v[y].state = v[y].state /\ n.v[y].curr = v[y].curr
      /\ \A y \in Vaps \ {x} : n.v[y].callout = v[y].callout /\ n.v[y].task = v[y].task
  BY <1>2, <1>5 DEF Filtered, FrameV, Now
<1>9. \A y \in Vaps : Syncing(y)' => Syncing(y)
  BY <1>1, <1>7, <1>8 DEF Syncing, Become
<1>10. n.hw.flt0 = hw.flt0 /\ n.hw.flt2 = hw.flt2 /\ n.d.promisc = d.promisc /\ n.d.ptask = d.ptask
  BY <1>2, <1>5 DEF Filtered, Now
<1>11. tq.what # "state" /\ tq'.what = "tsf" /\ tq'.vap = x /\ tq.what # "tsf"
  BY <1>1 DEF Idle
<1>12. /\ LivesSound' /\ SlotsSound' /\ CountsSound' /\ LinksSound' /\ MgtSound'
       /\ Shaped(Now)' /\ StatesSame
       /\ d'.running = d.running /\ d'.mon = d.mon /\ d.past \subseteq d'.past
       /\ {d.nv, d.ap, d.bcn, d.mon, d.vr, d.mr}' \subseteq Int
  BY <1>1, <1>5, <1>6, <1>8, <1>9, <1>10, <1>11, SyncKeeps
<1>13. UdtSound'
  <2>1. hw'.udt = hw.udt \cup {v'[x].id}
    BY <1>1, <1>5, <1>8 DEF Become
  <2>2. Linking' = Linking /\ Linking \subseteq Vaps
    BY <1>12, SameLinking DEF Linking, Ported, Counted
  <2>3. \A f : Unharmed(f)' => Unharmed(f)
    BY <1>12 DEF Unharmed
  <2> QED BY <1>1, <1>11, <1>12, <2>1, <2>2, <2>3 DEF IInv, UdtSound, StatesSame, LivesSame, Mode
<1>14. RcrSound'
  <2>1. \A modes : Up(modes)' = Up(modes)
    BY <1>12, SameSets DEF StatesSame, LivesSame
  <2>2. \A f : Unharmed(f)' => Unharmed(f)
    BY <1>12 DEF Unharmed
  <2>3. /\ d'.locked /\ hw'.rcr = d.rcr \cup {"bcn"} /\ d'.rcr = d.rcr \cup {"bcn"}
        /\ d'.promisc = d.promisc /\ d'.ptask = d.ptask
    BY <1>1, <1>2, <1>4, <1>5, <1>10 DEF Become
  <2> QED BY <1>11, <1>12, <2>1, <2>2, <2>3 DEF IInv, RcrSound
<1>15. TypeOK'
  BY <1>1, <1>11, <1>12 DEF IInv, TypeOK, States
<1> QED
  BY <1>12, <1>13, <1>14, <1>15 DEF IInv

LEMMA TsfDelayKeeps ==
    ASSUME IInv, TsfDelayEnds
    PROVE  IInv'
<1> DEFINE x == tq.vap
           m == [Now EXCEPT !.d.locked = FALSE, !.hw.udt = @ \ {v[x].id}, !.v[x].callout = TRUE]
           n == rtwn_set_rx_bssid_all(m, TRUE)
<1>1. tq.what = "tsf" /\ plan' = plan /\ tq' = Idle /\ x \in Vaps
  BY DEF TsfDelayEnds, IInv, TypeOK
<1>2. Become(n)
  BY DEF TsfDelayEnds, TsfTaskEnd, Now
<1>15. Shaped(Now)
  BY NowShaped DEF IInv
<1>16. /\ Shaped(m) /\ ~m.d.locked /\ m.hw.udt = hw.udt \ {v[x].id}
      /\ m.d.rcr = d.rcr /\ m.hw.flt0 = hw.flt0 /\ m.hw.flt2 = hw.flt2
      /\ m.d.promisc = d.promisc /\ m.d.ptask = d.ptask
      /\ FrameD(Now, m)
  BY <1>1, <1>15 DEF Shaped, FrameD, VFields, DFields, HFields, Now
<1>17. m.v = [v EXCEPT ![x].callout = TRUE]
  BY <1>15 DEF Shaped, Now
<1>3. /\ \A y \in Vaps :
           /\ m.v[y].life = v[y].life /\ m.v[y].id = v[y].id
           /\ m.v[y].state = v[y].state /\ m.v[y].curr = v[y].curr
           /\ m.v[y].task = v[y].task
      /\ \A y \in Vaps \ {x} : m.v[y].callout = v[y].callout
  <2> HIDE DEF m, x
  <2> QED BY <1>1, <1>15, <1>17 DEF Shaped, VFields, Now
<1> HIDE DEF m
<1>4. Filtered(m, n) /\ n.hw.flt0 = m.hw.flt0 /\ n.d.rcr = m.d.rcr \ {"bcn"}
  BY <1>16, BssidAllEffect
<1> HIDE DEF n
<1>5. FrameD(Now, n)
  BY <1>16, <1>4 DEF Filtered, FrameD
<1>6. Syncing(x)
  BY <1>1 DEF Syncing
<1>7. /\ \A y \in Vaps :
           /\ n.v[y].life = v[y].life /\ n.v[y].id = v[y].id
           /\ n.v[y].state = v[y].state /\ n.v[y].curr = v[y].curr
      /\ \A y \in Vaps \ {x} : n.v[y].callout = v[y].callout /\ n.v[y].task = v[y].task
  BY <1>3, <1>4 DEF Filtered, FrameV
<1>8. tq'.what = "idle" /\ tq.what # "state"
  BY <1>1 DEF Idle
<1>9. \A y \in Vaps : Syncing(y)' => Syncing(y)
  BY <1>2, <1>6, <1>7, <1>8 DEF Syncing, Become
<1>10. /\ n.hw.flt0 = hw.flt0 /\ n.hw.flt2 = hw.flt2 /\ n.d.promisc = d.promisc /\ n.d.ptask = d.ptask
       /\ ~n.d.locked /\ n.hw.rcr = n.d.rcr /\ n.d.rcr = d.rcr \ {"bcn"} /\ n.hw.udt = hw.udt \ {v[x].id}
       /\ Shaped(n)
  BY <1>16, <1>4 DEF Filtered
<1>11. /\ LivesSound' /\ SlotsSound' /\ CountsSound' /\ LinksSound' /\ MgtSound'
       /\ Shaped(Now)' /\ StatesSame
       /\ d'.running = d.running /\ d'.mon = d.mon /\ d.past \subseteq d'.past
       /\ {d.nv, d.ap, d.bcn, d.mon, d.vr, d.mr}' \subseteq Int
  BY <1>1, <1>2, <1>5, <1>7, <1>8, <1>9, <1>10, SyncKeeps
<1>12. UdtSound'
  <2>1. hw'.udt = hw.udt \ {v[x].id}
    BY <1>2, <1>10 DEF Become
  <2>2. Linking' = Linking /\ Linking \subseteq Vaps
    BY <1>11, SameLinking DEF Linking, Ported, Counted
  <2>3. \A f : Unharmed(f)' => Unharmed(f)
    BY <1>11 DEF Unharmed
  <2> QED BY <1>1, <1>11, <2>1, <2>2, <2>3 DEF IInv, UdtSound, StatesSame, LivesSame, Mode
<1>13. RcrSound'
  <2>1. \A modes : Up(modes)' = Up(modes)
    BY <1>11, SameSets DEF StatesSame, LivesSame
  <2>2. \A f : Unharmed(f)' => Unharmed(f)
    BY <1>11 DEF Unharmed
  <2>3. /\ ~d'.locked /\ hw'.rcr = d'.rcr /\ d'.rcr = d.rcr \ {"bcn"}
        /\ d'.promisc = d.promisc /\ d'.ptask = d.ptask
    BY <1>2, <1>10 DEF Become
  <2> QED BY <1>8, <1>11, <2>1, <2>2, <2>3 DEF IInv, RcrSound
<1>14. TypeOK'
  BY <1>1, <1>8, <1>11 DEF IInv, TypeOK, States, Idle
<1> QED
  BY <1>11, <1>12, <1>13, <1>14 DEF IInv

--------------------------------------------------------------------------
(* Creation and deletion.                                                   *)

NoneOr(c, k) == IF c THEN k ELSE 0

LEMMA CountEffect ==
    ASSUME NEW m, Shaped(m), NEW x \in Vaps, NEW k \in Int, {m.d.nv, m.d.ap, m.d.bcn, m.d.mon} \subseteq Int,
           Mode(x) \in {"STA", "AP", "IBSS", "MON"},
           NEW n, n = Count(m, x, k)
    PROVE  /\ Shaped(n) /\ n.v = m.v /\ n.hw = m.hw
           /\ n.d.running = m.d.running /\ n.d.slot = m.d.slot /\ n.d.vr = m.d.vr /\ n.d.mr = m.d.mr
           /\ n.d.rcr = m.d.rcr /\ n.d.locked = m.d.locked /\ n.d.promisc = m.d.promisc
           /\ n.d.ptask = m.d.ptask /\ n.d.past = m.d.past
           /\ n.d.ap = m.d.ap + NoneOr(Mode(x) = "AP", k)
           /\ n.d.bcn = m.d.bcn + NoneOr(Beacons(x), k)
           /\ n.d.nv = m.d.nv + NoneOr(Mode(x) # "MON", k)
           /\ n.d.mon = m.d.mon + NoneOr(Mode(x) = "MON", k)
BY ZenonT(30) DEF Count, Shaped, DFields, NoneOr, Beacons

LEMMA ModeType ==
    ASSUME TypeOK, NEW x \in Vaps
    PROVE  Mode(x) \in {"STA", "AP", "IBSS", "MON"}
BY PlansAssumption DEF TypeOK, Mode

LEMMA Added ==
    ASSUME NEW S, IsFiniteSet(S), NEW x, x \notin S, NEW c \in BOOLEAN,
           NEW T, T = IF c THEN S \cup {x} ELSE S
    PROVE  IsFiniteSet(T) /\ Cardinality(T) = Cardinality(S) + NoneOr(c, 1)
<1>1. Cardinality(S) \in Nat
  BY FS_CardinalityType
<1>2. CASE c
  BY <1>1, <1>2, FS_AddElement DEF NoneOr
<1>3. CASE ~c
  BY <1>1, <1>3 DEF NoneOr
<1> QED
  BY <1>2, <1>3

LEMMA Removed ==
    ASSUME NEW S, IsFiniteSet(S), NEW x, NEW c \in BOOLEAN, x \in S <=> c,
           NEW T, T = S \ {x}
    PROVE  IsFiniteSet(T) /\ Cardinality(T) = Cardinality(S) + NoneOr(c, -1)
<1>1. Cardinality(S) \in Nat
  BY FS_CardinalityType
<1>2. CASE c
  BY <1>1, <1>2, FS_RemoveElement DEF NoneOr
<1>3. CASE ~c
  BY <1>1, <1>3, FS_RemoveElement DEF NoneOr
<1> QED
  BY <1>2, <1>3

\* The four counted sets.
LEMMA CountedFinite ==
    ASSUME IsFiniteSet(Counted)
    PROVE  /\ IsFiniteSet(Ported) /\ IsFiniteSet(Counted \ Ported)
           /\ IsFiniteSet({x \in Ported : Beacons(x)}) /\ IsFiniteSet({x \in Ported : Mode(x) = "AP"})
<1>1. /\ Ported \subseteq Counted /\ Counted \ Ported \subseteq Counted
      /\ {x \in Ported : Beacons(x)} \subseteq Counted /\ {x \in Ported : Mode(x) = "AP"} \subseteq Counted
  BY DEF Ported
<1> QED
  BY <1>1, FS_Subset

LEMMA AddCounts ==
    ASSUME CountsSound, NEW x \in Vaps, x \notin Counted, Counted' = Counted \cup {x}, plan' = plan,
           d'.ap = d.ap + NoneOr(Mode(x) = "AP", 1), d'.bcn = d.bcn + NoneOr(Beacons(x), 1),
           d'.nv = d.nv + NoneOr(Mode(x) # "MON", 1), d'.mon = d.mon + NoneOr(Mode(x) = "MON", 1)
    PROVE  CountsSound'
<1> DEFINE B == {y \in Ported : Beacons(y)}
           A == {y \in Ported : Mode(y) = "AP"}
           M == Counted \ Ported
           ap == Mode(x) = "AP"
           bcn == Beacons(x)
           mon == Mode(x) = "MON"
           nv == Mode(x) # "MON"
<1>1. \A y : Mode(y)' = Mode(y) /\ Beacons(y)' = Beacons(y)
  BY DEF Mode, Beacons
<1>2. Ported' = IF nv THEN Ported \cup {x} ELSE Ported
  BY <1>1 DEF Ported
<1>3. M' = IF mon THEN M \cup {x} ELSE M
  BY <1>1, <1>2 DEF Ported
<1>4. B' = IF bcn THEN B \cup {x} ELSE B
  BY <1>1, <1>2 DEF Beacons
<1>5. A' = IF ap THEN A \cup {x} ELSE A
  BY <1>1, <1>2
<1>6. IsFiniteSet(Ported) /\ IsFiniteSet(M) /\ IsFiniteSet(B) /\ IsFiniteSet(A)
  BY CountedFinite DEF CountsSound
<1>7. x \notin Ported /\ x \notin B /\ x \notin A /\ x \notin M
  BY DEF Ported
<1>8. IsFiniteSet(Counted')
  BY FS_AddElement DEF CountsSound
<1>9. ap \in BOOLEAN /\ bcn \in BOOLEAN /\ mon \in BOOLEAN /\ nv \in BOOLEAN
  BY DEF Beacons
<1> HIDE DEF A, B, M, ap, bcn, mon, nv
<1>10. Cardinality(Ported') = Cardinality(Ported) + NoneOr(nv, 1)
  BY <1>2, <1>6, <1>7, <1>9, Added
<1>11. Cardinality(M') = Cardinality(M) + NoneOr(mon, 1)
  BY <1>3, <1>6, <1>7, <1>9, Added
<1>12. Cardinality(B') = Cardinality(B) + NoneOr(bcn, 1)
  BY <1>4, <1>6, <1>7, <1>9, Added
<1>13. Cardinality(A') = Cardinality(A) + NoneOr(ap, 1)
  BY <1>5, <1>6, <1>7, <1>9, Added
<1> QED
  BY <1>8, <1>10, <1>11, <1>12, <1>13 DEF CountsSound, A, B, M, ap, bcn, mon, nv

LEMMA RemoveCounts ==
    ASSUME CountsSound, NEW x \in Vaps, x \in Counted, Counted' = Counted \ {x}, plan' = plan,
           d'.ap = d.ap + NoneOr(Mode(x) = "AP", -1), d'.bcn = d.bcn + NoneOr(Beacons(x), -1),
           d'.nv = d.nv + NoneOr(Mode(x) # "MON", -1), d'.mon = d.mon + NoneOr(Mode(x) = "MON", -1)
    PROVE  CountsSound'
<1> DEFINE B == {y \in Ported : Beacons(y)}
           A == {y \in Ported : Mode(y) = "AP"}
           M == Counted \ Ported
           ap == Mode(x) = "AP"
           bcn == Beacons(x)
           mon == Mode(x) = "MON"
           nv == Mode(x) # "MON"
<1>1. \A y : Mode(y)' = Mode(y) /\ Beacons(y)' = Beacons(y)
  BY DEF Mode, Beacons
<1>2. Ported' = Ported \ {x}
  BY <1>1 DEF Ported
<1>3. M' = M \ {x}
  BY <1>1, <1>2 DEF Ported
<1>4. B' = B \ {x}
  BY <1>1, <1>2
<1>5. A' = A \ {x}
  BY <1>1, <1>2
<1>6. IsFiniteSet(Ported) /\ IsFiniteSet(M) /\ IsFiniteSet(B) /\ IsFiniteSet(A)
  BY CountedFinite DEF CountsSound
<1>7. (x \in Ported <=> nv) /\ (x \in M <=> mon) /\ (x \in B <=> bcn) /\ (x \in A <=> ap)
  BY DEF Ported, Beacons
<1>8. IsFiniteSet(Counted')
  BY FS_RemoveElement DEF CountsSound
<1>9. ap \in BOOLEAN /\ bcn \in BOOLEAN /\ mon \in BOOLEAN /\ nv \in BOOLEAN
  BY DEF Beacons
<1> HIDE DEF A, B, M, ap, bcn, mon, nv
<1>10. Cardinality(Ported') = Cardinality(Ported) + NoneOr(nv, -1)
  BY <1>2, <1>6, <1>7, <1>9, Removed
<1>11. Cardinality(M') = Cardinality(M) + NoneOr(mon, -1)
  BY <1>3, <1>6, <1>7, <1>9, Removed
<1>12. Cardinality(B') = Cardinality(B) + NoneOr(bcn, -1)
  BY <1>4, <1>6, <1>7, <1>9, Removed
<1>13. Cardinality(A') = Cardinality(A) + NoneOr(ap, -1)
  BY <1>5, <1>6, <1>7, <1>9, Removed
<1> QED
  BY <1>8, <1>10, <1>11, <1>12, <1>13 DEF CountsSound, A, B, M, ap, bcn, mon, nv

\* A step that changes one vap, which links before and after it have no part of.
Apart(x) ==
    /\ plan' = plan /\ tq' = tq
    /\ \A y \in Vaps \ {x} : v'[y] = v[y]

LEMMA ApartLinking ==
    ASSUME NEW x \in Vaps, Apart(x), x \notin Linking, State(x)' = "INIT"
    PROVE  Linking' = Linking
<1>1. \A y : Mode(y)' = Mode(y)
  BY DEF Apart, Mode
<1>2. \A y \in Vaps \ {x} : y \in Ported' <=> y \in Ported
  BY <1>1 DEF Apart, Ported, Counted
<1>3. \A y \in Vaps \ {x} : State(y)' = State(y)
  BY DEF Apart, State
<1>4. Linking \subseteq Vaps /\ Linking' \subseteq Vaps
  BY DEF Linking, Ported, Counted
<1>5. x \notin Linking'
  BY DEF Linking
<1> QED
  BY <1>2, <1>3, <1>4, <1>5 DEF Linking

LEMMA ApartLives ==
    ASSUME LivesSound, NEW x \in Vaps, Apart(x), d'.running = d.running, LifeSound(x)'
    PROVE  LivesSound'
<1>1. \A y : Mode(y)' = Mode(y)
  BY DEF Apart, Mode
<1>2. \A y \in Vaps \ {x} : (y \in Counted' <=> y \in Counted) /\ (y \in Ported' <=> y \in Ported)
  BY <1>1 DEF Apart, Ported, Counted
<1>3. \A y \in Vaps \ {x} : State(y)' = State(y)
  BY DEF Apart, State
<1>4. ASSUME NEW y \in Vaps \ {x}
      PROVE  LifeSound(y)'
  BY <1>1, <1>2, <1>3 DEF Apart, LivesSound, LifeSound
<1> QED
  BY <1>4 DEF Apart, LivesSound

LEMMA LinksFrom ==
    ASSUME LinksSound, Linking' = Linking, d'.vr = d.vr, d'.mr = d.mr,
           d.past \subseteq d'.past, hw'.flt2 = hw.flt2,
           \A y \in Ported' : \/ y \in Ported /\ v'[y].curr = v[y].curr
                              \/ y \notin Linking /\ v'[y].curr = "NOLINK"
    PROVE  LinksSound'
<1>1. \A f : Unharmed(f)' => Unharmed(f)
  BY DEF Unharmed
<1> QED
  BY <1>1 DEF LinksSound

LEMMA UdtFrom ==
    ASSUME UdtSound, Linking' = Linking, plan' = plan, tq' = tq, hw'.udt = hw.udt,
           d.past \subseteq d'.past, \A y \in Linking : v'[y].id = v[y].id,
           tq.what = "tsf" => v'[tq.vap].id = v[tq.vap].id
    PROVE  UdtSound'
<1>1. \A f : Unharmed(f)' => Unharmed(f)
  BY DEF Unharmed
<1> QED
  BY <1>1 DEF UdtSound, Mode

LEMMA FilterFrom ==
    ASSUME RcrSound, MgtSound, \A modes : Up(modes)' = Up(modes), tq' = tq,
           d'.running = d.running, d'.locked = d.locked, d'.promisc = d.promisc, d'.ptask = d.ptask,
           d'.rcr = d.rcr, hw'.rcr = hw.rcr, hw'.flt0 = hw.flt0,
           d.past \subseteq d'.past, d'.mon = 0 /\ Unharmed({"undone"})' => d.mon = 0
    PROVE  RcrSound' /\ MgtSound'
<1>1. \A f : Unharmed(f)' => Unharmed(f)
  BY DEF Unharmed
<1>2. RcrSound'
  BY <1>1 DEF RcrSound
<1>3. MgtSound'
  BY <1>1 DEF MgtSound
<1> QED
  BY <1>2, <1>3

LEMMA FreeKeeps ==
    ASSUME IInv, NEW x \in Vaps, FreeVap(x)
    PROVE  IInv'
<1>1. /\ v[x].life = "dying" /\ tq.vap # x /\ plan' = plan /\ tq' = tq
      /\ v' = [v EXCEPT ![x] = Blank] /\ d' = d /\ hw' = hw
  BY DEF FreeVap, Become, Now
<1>2. Shaped(Now)
  BY NowShaped DEF IInv
<1>3. v'[x] = Blank /\ Apart(x)
  BY <1>1, <1>2 DEF Shaped, Now, Apart
<1>4. Shaped(Now)'
  BY <1>1, <1>2, <1>3 DEF Shaped, Now, Ports, Blank, VFields
<1>5. \A y : Mode(y)' = Mode(y)
  BY <1>1 DEF Mode
<1>6. Counted' = Counted /\ Ported' = Ported /\ x \notin Counted
  BY <1>1, <1>3, <1>5 DEF Apart, Counted, Ported, Blank
<1>7. \A modes : Up(modes)' = Up(modes)
  BY <1>3, <1>5, <1>6 DEF Apart, Up, Counted
<1>8. State(x)' = "INIT"
  BY <1>1, <1>3 DEF State, Blank
<1>9. Linking' = Linking
  BY <1>3, <1>6, <1>8, ApartLinking DEF Linking, Ported
<1>10. TypeOK'
  BY <1>1, <1>4 DEF IInv, TypeOK
<1>11. LivesSound'
  <2>1. LifeSound(x)'
    BY <1>1, <1>3, <1>6, <1>8 DEF LifeSound, Blank, Ported
  <2> QED BY <1>1, <1>3, <2>1, ApartLives DEF IInv
<1>12. SlotsSound'
  <2>1. \A y \in Ported : v'[y] = v[y]
    BY <1>3, <1>6 DEF Apart, Ported, Counted
  <2> QED BY <1>1, <1>6, <2>1 DEF IInv, SlotsSound, Unharmed
<1>13. CountsSound'
  BY <1>1, <1>5, <1>6 DEF IInv, CountsSound, Beacons
<1>14. LinksSound'
  BY <1>1, <1>3, <1>6, <1>9, LinksFrom DEF IInv, Apart, Ported, Counted
<1>15. UdtSound'
  BY <1>1, <1>3, <1>6, <1>9, UdtFrom DEF IInv, TypeOK, Apart, Linking, Ported, Counted
<1>16. RcrSound' /\ MgtSound'
  BY <1>1, <1>7, FilterFrom DEF IInv
<1> QED
  BY <1>10, <1>11, <1>12, <1>13, <1>14, <1>15, <1>16 DEF IInv

LEMMA StoreKeeps ==
    ASSUME IInv, NEW x \in Vaps, StoreVap(x)
    PROVE  IInv'
<1> DEFINE slot == IF v[x].id = INVALID THEN d.slot ELSE [d.slot EXCEPT ![v[x].id] = x]
           n == [Now EXCEPT !.v[x].life = "set", !.d.slot = slot]
<1>1. v[x].life = "id" /\ Become(n) /\ plan' = plan /\ tq' = tq
  BY DEF StoreVap, Now
<1>2. Shaped(Now) /\ d.slot \in [Ports -> Vaps \cup {NoVap}] /\ LifeSound(x)
  BY NowShaped DEF IInv, LivesSound, Shaped, Now
<1>3. x \in Counted /\ (Mode(x) # "MON" <=> x \in Ported) /\ (x \in Ported => v[x].id \in Ports)
  BY <1>1, <1>2 DEF Counted, Ported, LifeSound
<1>4. x \notin Ported => v[x].id = INVALID
  BY <1>2, <1>3 DEF LifeSound
<1>5. slot \in [Ports -> Vaps \cup {NoVap}]
  BY <1>2, <1>3, <1>4 DEF Ports
<1> HIDE DEF slot
<1>6. Shaped(n)
  BY <1>2, <1>5 DEF Shaped, VFields, DFields
<1>7. v' = [v EXCEPT ![x].life = "set"] /\ d' = [d EXCEPT !.slot = slot] /\ hw' = hw
  BY <1>1, <1>2 DEF Shaped, Become, Now
<1>8. Apart(x)
  BY <1>1, <1>2, <1>7 DEF Shaped, Now, Apart
<1>9. /\ v'[x].life = "set" /\ v'[x].id = v[x].id /\ v'[x].state = v[x].state /\ v'[x].curr = v[x].curr
      /\ v'[x].callout = v[x].callout /\ v'[x].task = v[x].task
  BY <1>1, <1>2, <1>7 DEF Shaped, Now, VFields
<1>10. /\ d'.running = d.running /\ d'.slot = slot
       /\ d'.nv = d.nv /\ d'.ap = d.ap /\ d'.bcn = d.bcn /\ d'.mon = d.mon
       /\ d'.vr = d.vr /\ d'.mr = d.mr /\ d'.past = d.past
       /\ d'.rcr = d.rcr /\ d'.locked = d.locked /\ d'.promisc = d.promisc /\ d'.ptask = d.ptask
  BY <1>2, <1>7 DEF Shaped, Now, DFields
<1> HIDE DEF n
<1>11. \A y : Mode(y)' = Mode(y)
  BY <1>1 DEF Mode
<1>12. Counted' = Counted /\ Ported' = Ported
  BY <1>3, <1>8, <1>9, <1>11 DEF Apart, Counted, Ported
<1>13. \A modes : Up(modes)' = Up(modes)
  BY <1>1, <1>8, <1>9, <1>11, <1>12 DEF Apart, Up, Counted
<1>14. State(x) = "INIT" /\ State(x)' = "INIT"
  BY <1>1, <1>2, <1>9 DEF State, LifeSound
<1>15. Linking' = Linking
  BY <1>8, <1>14, ApartLinking DEF Linking
<1>16. TypeOK'
  <2>1. Shaped(Now)'
    BY <1>1, <1>6 DEF Shaped, Become, Now, Ports
  <2> QED BY <1>1, <1>10, <2>1 DEF IInv, TypeOK
<1>17. LivesSound'
  <2>1. LifeSound(x)'
    BY <1>1, <1>2, <1>9, <1>10, <1>11, <1>12, <1>14 DEF LifeSound
  <2> QED BY <1>8, <1>10, <2>1, ApartLives DEF IInv
<1>18. SlotsSound'
  <2>1. \A y \in Ported \ {x} : v'[y] = v[y]
    BY <1>8 DEF Apart, Ported, Counted
  <2>2. \A p \in Ports : d.slot[p] # NoVap =>
          /\ d.slot[p] \in Ported \ {x} /\ v[d.slot[p]].life # "id" /\ v[d.slot[p]].id = p
    BY <1>1 DEF IInv, SlotsSound
  <2>3. CASE x \notin Ported
    <3>1. d'.slot = d.slot
      BY <1>4, <1>10, <2>3 DEF slot
    <3> QED BY <1>10, <1>12, <2>1, <2>2, <2>3, <3>1 DEF IInv, SlotsSound, Unharmed
  <2>4. CASE x \in Ported
    <3>1. v[x].id \in Ports /\ v[x].id # INVALID
      BY <1>3, <2>4 DEF Ports, INVALID
    <3>2. d'.slot = [d.slot EXCEPT ![v[x].id] = x]
      BY <1>10, <3>1 DEF slot
    <3>3. \A p \in Ports : d'.slot[p] = IF p = v[x].id THEN x ELSE d.slot[p]
      BY <1>2, <3>2
    <3>4. \A p \in Ports : d'.slot[p] # NoVap =>
            d'.slot[p] \in Ported /\ v'[d'.slot[p]].life # "id" /\ v'[d'.slot[p]].id = p
      BY <1>9, <2>1, <2>2, <2>4, <3>3
    <3>5. ASSUME Unharmed({"raced"})'
          PROVE  \A y \in Ported :
                   /\ \A z \in Ported : y # z => v'[y].id # v'[z].id
                   /\ v'[y].life # "id" => d'.slot[v'[y].id] = y
                   /\ v'[y].life = "id" /\ v'[y].id = 1 => \E z \in Ported : v'[z].id = 0
      <4>1. Unharmed({"raced"})
        BY <1>10, <3>5 DEF Unharmed
      <4>2. \A y \in Ported : v'[y].id = v[y].id /\ v[y].id \in Ports
        BY <1>9, <2>1 DEF IInv, LivesSound, LifeSound, Ported, Counted
      <4> QED BY <1>9, <2>1, <2>4, <3>3, <4>1, <4>2 DEF IInv, SlotsSound
    <3> QED BY <1>12, <3>4, <3>5 DEF SlotsSound, Ports
  <2> QED BY <2>3, <2>4
<1>19. CountsSound'
  BY <1>10, <1>11, <1>12 DEF IInv, CountsSound, Beacons
<1>20. LinksSound'
  <2>1. \A y \in Ported : v'[y].curr = v[y].curr
    BY <1>8, <1>9 DEF Apart, Ported, Counted
  <2> QED BY <1>7, <1>10, <1>12, <1>15, <2>1, LinksFrom DEF IInv
<1>21. UdtSound'
  <2>1. \A y \in Vaps : v'[y].id = v[y].id
    BY <1>8, <1>9 DEF Apart
  <2> QED BY <1>1, <1>7, <1>10, <1>15, <2>1, UdtFrom DEF IInv, TypeOK, Linking, Ported, Counted
<1>22. RcrSound' /\ MgtSound'
  BY <1>1, <1>7, <1>10, <1>13, FilterFrom DEF IInv
<1> QED
  BY <1>16, <1>17, <1>18, <1>19, <1>20, <1>21, <1>22 DEF IInv

\* The port a creation gets is one that no other vap has.
LEMMA PortFree ==
    ASSUME TypeOK, LivesSound, SlotsSound, CountsSound, d.nv < 2, Unharmed({"raced"})
    PROVE  LET id == FreePort(d.nv, d.slot)
           IN  /\ \A y \in Ported : v[y].id # id
               /\ id = 1 => \E y \in Ported : v[y].id = 0
<1>1. d.nv \in Nat /\ d.nv = Cardinality(Ported) /\ IsFiniteSet(Ported)
  BY CountedFinite, FS_CardinalityType DEF CountsSound
<1>2. CASE d.nv = 0
  <2>1. Ported = {}
    BY <1>1, <1>2, FS_EmptySet
  <2> QED BY <1>2, <2>1 DEF FreePort
<1>3. CASE d.nv = 1
  <2>1. PICK y : Ported = {y}
    BY <1>1, <1>3, FS_Singleton
  <2>2. y \in Vaps /\ y # NoVap /\ v[y].id \in {0, 1}
    BY <2>1, VapsAssumption DEF Ported, Counted, LivesSound, LifeSound, Ports
  <2>3. CASE d.slot[1] # NoVap
    <3>1. v[y].id = 1
      BY <2>1, <2>3 DEF SlotsSound, Ports
    <3> QED BY <2>1, <2>3, <3>1 DEF FreePort
  <2>4. CASE d.slot[1] = NoVap
    <3>1. v[y].id # 1
      BY <2>1, <2>2, <2>4 DEF SlotsSound
    <3> QED BY <1>3, <2>1, <2>2, <2>4, <3>1 DEF FreePort
  <2> QED BY <2>3, <2>4
<1> QED
  BY <1>1, <1>2, <1>3

LEMMA ChooseKeeps ==
    ASSUME IInv, NEW x \in Vaps, ChoosePort(x)
    PROVE  IInv'
<1> DEFINE id == IF Mode(x) = "MON" THEN INVALID ELSE FreePort(d.nv, d.slot)
           m == [Now EXCEPT !.v[x].life = "id", !.v[x].id = id]
           n == Count(m, x, 1)
<1>1. /\ v[x].life = "none" /\ (Mode(x) # "MON" => d.nv < 2)
      /\ Become(n) /\ plan' = plan /\ tq' = tq
  BY DEF ChoosePort
<1>2. Shaped(Now) /\ LifeSound(x) /\ Mode(x) \in {"STA", "AP", "IBSS", "MON"}
  BY NowShaped, ModeType DEF IInv, LivesSound
<1>3. id \in {INVALID, 0, 1} /\ (Mode(x) # "MON" => id \in Ports) /\ (Mode(x) = "MON" => id = INVALID)
  BY DEF FreePort, Ports
<1> HIDE DEF id
<1>4. Shaped(m) /\ m.d = d /\ m.hw = hw /\ m.v = [v EXCEPT ![x].life = "id", ![x].id = id]
  BY <1>2 DEF Shaped, VFields, Now
<1> HIDE DEF m
<1>5. /\ Shaped(n) /\ n.v = m.v /\ n.hw = hw
      /\ n.d.running = d.running /\ n.d.slot = d.slot /\ n.d.vr = d.vr /\ n.d.mr = d.mr
      /\ n.d.rcr = d.rcr /\ n.d.locked = d.locked /\ n.d.promisc = d.promisc
      /\ n.d.ptask = d.ptask /\ n.d.past = d.past
      /\ n.d.ap = d.ap + NoneOr(Mode(x) = "AP", 1)
      /\ n.d.bcn = d.bcn + NoneOr(Beacons(x), 1)
      /\ n.d.nv = d.nv + NoneOr(Mode(x) # "MON", 1)
      /\ n.d.mon = d.mon + NoneOr(Mode(x) = "MON", 1)
  <2>1. {m.d.nv, m.d.ap, m.d.bcn, m.d.mon} \subseteq Int
    BY <1>4 DEF IInv, TypeOK
  <2> HIDE DEF n
  <2>2. n = Count(m, x, 1)
    BY DEF n
  <2> QED BY <1>2, <1>4, <2>1, <2>2, CountEffect
<1> HIDE DEF n
<1>6. /\ d'.running = d.running /\ d'.slot = d.slot /\ d'.vr = d.vr /\ d'.mr = d.mr
      /\ d'.rcr = d.rcr /\ d'.locked = d.locked /\ d'.promisc = d.promisc
      /\ d'.ptask = d.ptask /\ d'.past = d.past
      /\ d'.ap = d.ap + NoneOr(Mode(x) = "AP", 1)
      /\ d'.bcn = d.bcn + NoneOr(Beacons(x), 1)
      /\ d'.nv = d.nv + NoneOr(Mode(x) # "MON", 1)
      /\ d'.mon = d.mon + NoneOr(Mode(x) = "MON", 1)
  BY <1>1, <1>5 DEF Become
<1>7. v' = [v EXCEPT ![x].life = "id", ![x].id = id] /\ hw' = hw
  BY <1>1, <1>4, <1>5 DEF Become
<1>8. Apart(x)
  BY <1>1, <1>2, <1>7 DEF Shaped, Now, Apart
<1>9. /\ v'[x].life = "id" /\ v'[x].id = id /\ v'[x].state = v[x].state /\ v'[x].curr = v[x].curr
      /\ v'[x].callout = v[x].callout /\ v'[x].task = v[x].task
  BY <1>2, <1>7 DEF Shaped, Now, VFields
<1>10. \A y : Mode(y)' = Mode(y)
  BY <1>1 DEF Mode
<1>11. /\ Counted' = Counted \cup {x} /\ x \notin Counted
       /\ Ported' = IF Mode(x) # "MON" THEN Ported \cup {x} ELSE Ported
  BY <1>1, <1>8, <1>9, <1>10 DEF Apart, Counted, Ported
<1>12. \A modes : Up(modes)' = Up(modes)
  BY <1>1, <1>8, <1>9, <1>10, <1>11 DEF Apart, Up, Counted
<1>13. State(x) = "INIT" /\ State(x)' = "INIT"
  BY <1>1, <1>2, <1>9 DEF State, LifeSound
<1>14. Linking' = Linking /\ x \notin Linking
  BY <1>8, <1>13, ApartLinking DEF Linking
<1>15. CountsSound'
  BY <1>1, <1>6, <1>11, AddCounts DEF IInv
<1>16. TypeOK'
  <2>1. Shaped(Now)'
    BY <1>1, <1>5 DEF Shaped, Become, Now, Ports
  <2>2. {d.nv, d.ap, d.bcn, d.mon, d.vr, d.mr}' \subseteq Int
    BY <1>6 DEF IInv, TypeOK, NoneOr
  <2> QED BY <1>1, <2>1, <2>2 DEF IInv, TypeOK
<1>17. LivesSound'
  <2>1. LifeSound(x)'
    BY <1>1, <1>2, <1>3, <1>6, <1>9, <1>10, <1>11, <1>13 DEF LifeSound, Ported
  <2> QED BY <1>6, <1>8, <2>1, ApartLives DEF IInv
<1>18. SlotsSound'
  <2>1. \A y \in Ported : v'[y] = v[y]
    BY <1>8, <1>11 DEF Apart, Ported, Counted
  <2>2. \A p \in Ports : d'.slot[p] # NoVap =>
          d'.slot[p] \in Ported' /\ v'[d'.slot[p]].life # "id" /\ v'[d'.slot[p]].id = p
    BY <1>6, <1>11, <2>1 DEF IInv, SlotsSound
  <2>3. ASSUME Unharmed({"raced"})'
        PROVE  \A y \in Ported' :
                 /\ \A z \in Ported' : y # z => v'[y].id # v'[z].id
                 /\ v'[y].life # "id" => d'.slot[v'[y].id] = y
                 /\ v'[y].life = "id" /\ v'[y].id = 1 => \E z \in Ported' : v'[z].id = 0
    <3>1. Unharmed({"raced"})
      BY <1>6, <2>3 DEF Unharmed
    <3>2. CASE Mode(x) = "MON"
      BY <1>6, <1>11, <2>1, <3>1, <3>2 DEF IInv, SlotsSound
    <3>3. CASE Mode(x) # "MON"
      <4>1. /\ \A y \in Ported : v[y].id # id
            /\ id = 1 => \E y \in Ported : v[y].id = 0
        BY <1>1, <3>1, <3>3, PortFree DEF IInv, id
      <4>2. Ported' = Ported \cup {x}
        BY <1>11, <3>3
      <4> QED BY <1>6, <1>9, <2>1, <3>1, <4>1, <4>2 DEF IInv, SlotsSound
    <3> QED BY <3>2, <3>3
  <2> QED BY <2>2, <2>3 DEF SlotsSound, Ports
<1>19. LinksSound'
  <2>1. v'[x].curr = "NOLINK"
    BY <1>1, <1>2, <1>9 DEF LifeSound
  <2>2. \A y \in Ported' : \/ y \in Ported /\ v'[y].curr = v[y].curr
                           \/ y \notin Linking /\ v'[y].curr = "NOLINK"
    <3>1. \A y \in Ported : v'[y] = v[y]
      BY <1>8, <1>11 DEF Apart, Ported, Counted
    <3>2. \A y \in Ported' : y \in Ported \/ y = x
      BY <1>11
    <3> QED BY <1>14, <2>1, <3>1, <3>2
  <2> QED BY <1>6, <1>7, <1>14, <2>2, LinksFrom DEF IInv
<1>20. UdtSound'
  <2>1. \A y \in Linking : v'[y].id = v[y].id
    BY <1>8, <1>14 DEF Apart, Linking, Ported, Counted
  <2>2. tq.what = "tsf" => v'[tq.vap].id = v[tq.vap].id
    BY <1>1, <1>2, <1>8 DEF Apart, IInv, TypeOK, LifeSound
  <2> QED BY <1>1, <1>6, <1>7, <1>14, <2>1, <2>2, UdtFrom DEF IInv
<1>21. RcrSound' /\ MgtSound'
  <2>1. d.mon \in Nat
    BY CountedFinite, FS_CardinalityType DEF IInv, CountsSound
  <2>2. d'.mon = 0 => d.mon = 0
    BY <1>6, <2>1 DEF NoneOr
  <2> QED BY <1>1, <1>6, <1>7, <1>12, <2>2, FilterFrom DEF IInv
<1> QED
  BY <1>15, <1>16, <1>17, <1>18, <1>19, <1>20, <1>21 DEF IInv

LEMMA UpdateIfEffect ==
    ASSUME NEW m, Shaped(m),
           NEW n, n = UpdateIfRunning(m)
    PROVE  /\ Shaped(n) /\ n.v = m.v /\ FrameD(m, n) /\ n.d.past = m.d.past
           /\ n.d.locked = m.d.locked /\ n.d.promisc = m.d.promisc /\ n.d.ptask = m.d.ptask
           /\ n.hw.flt2 = m.hw.flt2 /\ n.hw.udt = m.hw.udt
           /\ m.d.running => Filtered(m, n) /\ PromiscSet(m, n) /\ MgtSet(m, n)
           /\ ~m.d.running => n = m
<1>1. CASE m.d.running
  <2>1. n = rtwn_rxfilter_update(m)
    BY <1>1 DEF UpdateIfRunning
  <2>2. Filtered(m, n) /\ n.d.past = m.d.past /\ PromiscSet(m, n) /\ MgtSet(m, n)
    BY <2>1, UpdateEffect
  <2>3. n.v = m.v
    BY <2>1 DEF rtwn_rxfilter_update, rtwn_set_promisc, rtwn_rxfilter_update_mgt, rtwn_rxfilter_set, Shaped
  <2> QED BY <1>1, <2>2, <2>3 DEF Filtered
<1>2. CASE ~m.d.running
  BY <1>2 DEF UpdateIfRunning, FrameD
<1> QED
  BY <1>1, <1>2

\* rtwn_rxfilter_update() brings the filter up to date with the counters.
LEMMA UpdatedFilter ==
    ASSUME RcrSound, CountsSound', tq' = tq, NEW m, Shaped(m), m.d.locked = d.locked, m.hw.rcr = hw.rcr,
           NEW n, n = UpdateIfRunning(m), Become(n)
    PROVE  RcrSound' /\ MgtSound'
<1>1. /\ n.d.locked = m.d.locked /\ n.d.promisc = m.d.promisc /\ n.d.ptask = m.d.ptask
      /\ FrameD(m, n)
      /\ m.d.running => Filtered(m, n) /\ PromiscSet(m, n) /\ MgtSet(m, n)
      /\ ~m.d.running => n = m
  BY UpdateIfEffect
<1>2. d' = n.d /\ hw' = n.hw
  BY DEF Become
<1>3. d'.locked = d.locked /\ (d.locked => hw'.rcr = hw.rcr) /\ (d'.running /\ ~d.locked => hw'.rcr = d'.rcr)
  BY <1>1, <1>2 DEF Filtered, FrameD
<1>4. CASE ~d'.running
  BY <1>3, <1>4 DEF RcrSound, MgtSound
<1>5. CASE d'.running
  <2>1. m.d.running
    BY <1>1, <1>2, <1>5 DEF FrameD
  <2>2. PromiscSet(m, n) /\ MgtSet(m, n)
    BY <1>1, <2>1
  <2>3. /\ m.d.promisc = d'.promisc /\ m.d.mon = d'.mon /\ m.d.bcn = d'.bcn /\ m.d.ap = d'.ap /\ m.d.nv = d'.nv
        /\ n.d.rcr = d'.rcr /\ n.hw.flt0 = hw'.flt0
    BY <1>1, <1>2 DEF FrameD
  <2>4. RcrSound'
    BY <1>3, <2>2, <2>3, CountedUp DEF RcrSound, PromiscSet
  <2>5. MgtSound'
    BY <2>2, <2>3, CountedUp DEF MgtSound, MgtSet
  <2> QED BY <2>4, <2>5
<1> QED
  BY <1>4, <1>5

\* A counted vap that does not link goes.
LEMMA RemoveKeeps ==
    ASSUME IInv, NEW x \in Vaps, Apart(x), x \in Counted, x \notin Linking,
           v'[x].life \notin {"id", "set", "up"}, State(x)' = "INIT", LifeSound(x)',
           tq.what = "tsf" /\ tq.vap = x => v'[x].id = v[x].id,
           d'.slot = IF v[x].id = INVALID THEN d.slot ELSE [d.slot EXCEPT ![v[x].id] = NoVap],
           d'.ap = d.ap + NoneOr(Mode(x) = "AP", -1), d'.bcn = d.bcn + NoneOr(Beacons(x), -1),
           d'.nv = d.nv + NoneOr(Mode(x) # "MON", -1), d'.mon = d.mon + NoneOr(Mode(x) = "MON", -1),
           d'.running = d.running, d'.vr = d.vr, d'.mr = d.mr,
           d.past \subseteq d'.past, Choosing(Now, x) => "raced" \in d'.past,
           hw'.flt2 = hw.flt2, hw'.udt = hw.udt, Shaped(Now)'
    PROVE  TypeOK' /\ LivesSound' /\ SlotsSound' /\ CountsSound' /\ LinksSound' /\ UdtSound'
<1>1. \A y : Mode(y)' = Mode(y)
  BY DEF Apart, Mode
<1>2. Counted' = Counted \ {x} /\ Ported' = Ported \ {x}
  BY <1>1 DEF Apart, Counted, Ported
<1>3. \A y \in Ported' : y \in Vaps /\ v'[y] = v[y]
  BY <1>2 DEF Apart, Ported, Counted
<1>4. CountsSound'
  BY <1>2, RemoveCounts DEF IInv, Apart
<1>5. TypeOK'
  <2>1. {d.nv, d.ap, d.bcn, d.mon, d.vr, d.mr}' \subseteq Int
    BY DEF IInv, TypeOK, NoneOr
  <2> QED BY <2>1 DEF IInv, TypeOK, Apart
<1>6. LivesSound'
  BY ApartLives DEF IInv
<1>7. Linking' = Linking
  BY ApartLinking
<1>8. LinksSound'
  BY <1>2, <1>3, <1>7, LinksFrom DEF IInv
<1>9. UdtSound'
  <2>1. \A y \in Linking : v'[y].id = v[y].id
    BY DEF Apart, Linking, Ported, Counted
  <2>2. tq.what = "tsf" => v'[tq.vap].id = v[tq.vap].id
    BY DEF Apart, IInv, TypeOK
  <2> QED BY <1>7, <2>1, <2>2, UdtFrom DEF IInv, Apart
<1>10. SlotsSound'
  <2>1. Unharmed({"raced"})' => Unharmed({"raced"}) /\ \A y \in Vaps \ {x} : v[y].life # "id"
    BY DEF Unharmed, Choosing, Now
  <2>2. CASE x \notin Ported
    <3>1. v[x].id = INVALID
      BY <2>2 DEF IInv, LivesSound, LifeSound
    <3>2. Ported' = Ported /\ d'.slot = d.slot
      BY <1>2, <2>2, <3>1
    <3> QED BY <1>3, <2>1, <3>2 DEF IInv, SlotsSound
  <2>3. CASE x \in Ported
    <3>1. v[x].id \in Ports /\ v[x].id # INVALID
      BY <2>3 DEF IInv, LivesSound, LifeSound, Ports, INVALID
    <3>2. d.slot \in [Ports -> Vaps \cup {NoVap}]
      BY DEF IInv, TypeOK, Shaped, Now
    <3>3. \A p \in Ports : d'.slot[p] = IF p = v[x].id THEN NoVap ELSE d.slot[p]
      BY <3>1, <3>2
    <3>4. \A p \in Ports : d'.slot[p] # NoVap =>
            d'.slot[p] \in Ported' /\ v'[d'.slot[p]].life # "id" /\ v'[d'.slot[p]].id = p
      BY <1>2, <1>3, <3>3 DEF IInv, SlotsSound
    <3>5. ASSUME Unharmed({"raced"})'
          PROVE  \A y \in Ported' :
                   /\ \A z \in Ported' : y # z => v'[y].id # v'[z].id
                   /\ v'[y].life # "id" => d'.slot[v'[y].id] = y
                   /\ v'[y].life = "id" /\ v'[y].id = 1 => \E z \in Ported' : v'[z].id = 0
      <4>1. Unharmed({"raced"}) /\ \A y \in Ported' : v[y].life # "id"
        BY <1>2, <1>3, <2>1, <3>5
      <4>2. \A y \in Ported' : v[y].id \in Ports /\ v[y].id # v[x].id
        BY <1>2, <1>3, <2>3, <4>1 DEF IInv, SlotsSound, LivesSound, LifeSound
      <4> QED BY <1>2, <1>3, <3>3, <4>1, <4>2 DEF IInv, SlotsSound
    <3> QED BY <3>4, <3>5 DEF SlotsSound, Ports
  <2> QED BY <2>2, <2>3
<1> QED
  BY <1>4, <1>5, <1>6, <1>8, <1>9, <1>10

LEMMA DecrementEffect ==
    ASSUME IInv, NEW x \in Vaps, x \in Counted,
           NEW n, n = rtwn_vap_decrement_counters(Now, x)
    PROVE  /\ Shaped(n) /\ n.v = v /\ n.hw = hw
           /\ n.d.slot = IF v[x].id = INVALID THEN d.slot ELSE [d.slot EXCEPT ![v[x].id] = NoVap]
           /\ n.d.running = d.running /\ n.d.vr = d.vr /\ n.d.mr = d.mr
           /\ n.d.rcr = d.rcr /\ n.d.locked = d.locked /\ n.d.promisc = d.promisc /\ n.d.ptask = d.ptask
           /\ n.d.ap = d.ap + NoneOr(Mode(x) = "AP", -1)
           /\ n.d.bcn = d.bcn + NoneOr(Beacons(x), -1)
           /\ n.d.nv = d.nv + NoneOr(Mode(x) # "MON", -1)
           /\ n.d.mon = d.mon + NoneOr(Mode(x) = "MON", -1)
           /\ d.past \subseteq n.d.past /\ (Choosing(Now, x) => "raced" \in n.d.past)
<1> DEFINE slot == IF v[x].id = INVALID THEN d.slot ELSE [d.slot EXCEPT ![v[x].id] = NoVap]
           past == d.past \cup (IF Choosing(Now, x) THEN {"raced"} ELSE {})
           m == [Now EXCEPT !.d.slot = slot, !.d.past = past]
<1>1. Shaped(Now) /\ Mode(x) \in {"STA", "AP", "IBSS", "MON"} /\ {d.nv, d.ap, d.bcn, d.mon} \subseteq Int
  BY NowShaped, ModeType DEF IInv, TypeOK
<1>2. slot \in [Ports -> Vaps \cup {NoVap}]
  <2>1. v[x].id = INVALID \/ v[x].id \in Ports
    BY DEF IInv, LivesSound, LifeSound, Ported
  <2>2. d.slot \in [Ports -> Vaps \cup {NoVap}]
    BY <1>1 DEF Shaped, Now
  <2> QED BY <2>1, <2>2
<1>3. d.past \subseteq past /\ (Choosing(Now, x) => "raced" \in past)
  OBVIOUS
<1>4. n = Count(m, x, -1)
  BY DEF rtwn_vap_decrement_counters, Now
<1> HIDE DEF slot, past
<1>5. /\ Shaped(m) /\ m.v = v /\ m.hw = hw /\ m.d.slot = slot /\ m.d.past = past
      /\ m.d.running = d.running /\ m.d.vr = d.vr /\ m.d.mr = d.mr
      /\ m.d.rcr = d.rcr /\ m.d.locked = d.locked /\ m.d.promisc = d.promisc /\ m.d.ptask = d.ptask
      /\ m.d.ap = d.ap /\ m.d.bcn = d.bcn /\ m.d.nv = d.nv /\ m.d.mon = d.mon
  BY <1>1, <1>2 DEF Shaped, DFields, Now
<1> HIDE DEF m
<1>6. {m.d.nv, m.d.ap, m.d.bcn, m.d.mon} \subseteq Int /\ -1 \in Int
  BY <1>1, <1>5
<1>7. /\ Shaped(n) /\ n.v = m.v /\ n.hw = m.hw
      /\ n.d.running = m.d.running /\ n.d.slot = m.d.slot /\ n.d.vr = m.d.vr /\ n.d.mr = m.d.mr
      /\ n.d.rcr = m.d.rcr /\ n.d.locked = m.d.locked /\ n.d.promisc = m.d.promisc
      /\ n.d.ptask = m.d.ptask /\ n.d.past = m.d.past
      /\ n.d.ap = m.d.ap + NoneOr(Mode(x) = "AP", -1)
      /\ n.d.bcn = m.d.bcn + NoneOr(Beacons(x), -1)
      /\ n.d.nv = m.d.nv + NoneOr(Mode(x) # "MON", -1)
      /\ n.d.mon = m.d.mon + NoneOr(Mode(x) = "MON", -1)
  BY <1>1, <1>4, <1>5, <1>6, CountEffect
<1> QED
  BY <1>3, <1>5, <1>7 DEF slot

LEMMA AttachedKeeps ==
    ASSUME IInv, NEW x \in Vaps, v[x].life = "set", plan' = plan, tq' = tq,
           Become(UpdateIfRunning([Now EXCEPT !.v[x].life = "up"]))
    PROVE  IInv'
<1> DEFINE m == [Now EXCEPT !.v[x].life = "up"]
           n == UpdateIfRunning(m)
<1>1. Shaped(Now) /\ LifeSound(x)
  BY NowShaped DEF IInv, LivesSound
<1>2. Shaped(m) /\ m.d = d /\ m.hw = hw /\ m.v = [v EXCEPT ![x].life = "up"]
  BY <1>1 DEF Shaped, VFields, Now
<1> HIDE DEF m
<1>3. /\ Shaped(n) /\ n.v = m.v /\ FrameD(m, n) /\ n.d.past = m.d.past
      /\ n.hw.flt2 = m.hw.flt2 /\ n.hw.udt = m.hw.udt
  BY <1>2, UpdateIfEffect
<1>4. Become(n)
  BY DEF m
<1> HIDE DEF n
<1>5. v' = [v EXCEPT ![x].life = "up"]
  BY <1>2, <1>3, <1>4 DEF Become
<1>6. /\ d'.running = d.running /\ d'.slot = d.slot
      /\ d'.nv = d.nv /\ d'.ap = d.ap /\ d'.bcn = d.bcn /\ d'.mon = d.mon
      /\ d'.vr = d.vr /\ d'.mr = d.mr /\ d'.past = d.past
      /\ hw'.flt2 = hw.flt2 /\ hw'.udt = hw.udt
  BY <1>2, <1>3, <1>4 DEF Become, FrameD
<1>7. Apart(x)
  BY <1>1, <1>5 DEF Shaped, Now, Apart
<1>8. /\ v'[x].life = "up" /\ v'[x].id = v[x].id /\ v'[x].state = v[x].state /\ v'[x].curr = v[x].curr
      /\ v'[x].callout = v[x].callout /\ v'[x].task = v[x].task
  BY <1>1, <1>5 DEF Shaped, Now, VFields
<1>9. \A y : Mode(y)' = Mode(y)
  BY DEF Mode
<1>10. Counted' = Counted /\ Ported' = Ported
  BY <1>7, <1>8, <1>9 DEF Apart, Counted, Ported
<1>11. State(x) = "INIT" /\ State(x)' = "INIT"
  BY <1>1, <1>8 DEF State, LifeSound
<1>12. Linking' = Linking
  BY <1>7, <1>11, ApartLinking DEF Linking
<1>13. TypeOK'
  <2>1. Shaped(Now)'
    BY <1>3, <1>4 DEF Shaped, Become, Now, Ports
  <2> QED BY <1>6, <2>1 DEF IInv, TypeOK
<1>14. LivesSound'
  <2>1. LifeSound(x)'
    BY <1>1, <1>6, <1>8, <1>9, <1>10, <1>11 DEF LifeSound
  <2> QED BY <1>6, <1>7, <2>1, ApartLives DEF IInv
<1>15. \A y \in Vaps : v'[y].id = v[y].id /\ v'[y].curr = v[y].curr /\ (v'[y].life = "id" <=> v[y].life = "id")
  BY <1>7, <1>8 DEF Apart
<1>16. SlotsSound'
  <2>1. Ported \subseteq Vaps
    BY DEF Ported, Counted
  <2> QED BY <1>6, <1>10, <1>15, <2>1 DEF IInv, SlotsSound, Unharmed, Ports
<1>17. CountsSound'
  BY <1>6, <1>9, <1>10 DEF IInv, CountsSound, Beacons
<1>18. LinksSound'
  BY <1>6, <1>10, <1>12, <1>15, LinksFrom DEF IInv, Ported, Counted
<1>19. UdtSound'
  BY <1>6, <1>12, <1>15, UdtFrom DEF IInv, TypeOK, Linking, Ported, Counted
<1>20. RcrSound' /\ MgtSound'
  <2>1. n = UpdateIfRunning(m)
    BY DEF n
  <2> QED BY <1>2, <1>4, <1>17, <2>1, UpdatedFilter DEF IInv
<1> QED
  BY <1>13, <1>14, <1>16, <1>17, <1>18, <1>19, <1>20 DEF IInv

LEMMA AttachKeeps ==
    ASSUME IInv, NEW x \in Vaps, AttachVap(x)
    PROVE  IInv'
<1> DEFINE m == rtwn_vap_decrement_counters(Now, x)
           undone == IF Mode(x) = "MON" THEN {"undone"} ELSE {}
           n == [m EXCEPT !.v[x] = Blank, !.d.past = @ \cup undone]
<1>1. v[x].life = "set" /\ plan' = plan /\ tq' = tq
  BY DEF AttachVap
<1>2. CASE Become(UpdateIfRunning([Now EXCEPT !.v[x].life = "up"]))
  BY <1>1, <1>2, AttachedKeeps
<1>3. CASE Become(n)
  <2>1. x \in Counted /\ Mode(x) \in {"STA", "AP", "IBSS", "MON"} /\ LifeSound(x)
    BY <1>1, ModeType DEF Counted, IInv, LivesSound
  <2>2. /\ Shaped(m) /\ m.v = v /\ m.hw = hw
        /\ m.d.slot = IF v[x].id = INVALID THEN d.slot ELSE [d.slot EXCEPT ![v[x].id] = NoVap]
        /\ m.d.running = d.running /\ m.d.vr = d.vr /\ m.d.mr = d.mr
        /\ m.d.rcr = d.rcr /\ m.d.locked = d.locked /\ m.d.promisc = d.promisc /\ m.d.ptask = d.ptask
        /\ m.d.ap = d.ap + NoneOr(Mode(x) = "AP", -1)
        /\ m.d.bcn = d.bcn + NoneOr(Beacons(x), -1)
        /\ m.d.nv = d.nv + NoneOr(Mode(x) # "MON", -1)
        /\ m.d.mon = d.mon + NoneOr(Mode(x) = "MON", -1)
        /\ d.past \subseteq m.d.past /\ (Choosing(Now, x) => "raced" \in m.d.past)
    BY <2>1, DecrementEffect
  <2> HIDE DEF m, undone
  <2>3. /\ Shaped(n) /\ n.v = [v EXCEPT ![x] = Blank] /\ n.hw = hw
        /\ n.d.slot = m.d.slot /\ n.d.running = m.d.running /\ n.d.vr = m.d.vr /\ n.d.mr = m.d.mr
        /\ n.d.rcr = m.d.rcr /\ n.d.locked = m.d.locked /\ n.d.promisc = m.d.promisc /\ n.d.ptask = m.d.ptask
        /\ n.d.ap = m.d.ap /\ n.d.bcn = m.d.bcn /\ n.d.nv = m.d.nv /\ n.d.mon = m.d.mon
        /\ n.d.past = m.d.past \cup undone
    BY <2>2 DEF Shaped, DFields, VFields, Blank
  <2> HIDE DEF n
  <2>4. v' = [v EXCEPT ![x] = Blank] /\ hw' = hw /\ d' = n.d
    BY <1>3, <2>3 DEF Become
  <2>5. v'[x] = Blank /\ Apart(x)
    <3>1. DOMAIN v = Vaps
      BY NowShaped DEF IInv, Shaped, Now
    <3> QED BY <1>1, <2>4, <3>1 DEF Apart
  <2>6. State(x) = "INIT" /\ State(x)' = "INIT" /\ x \notin Linking
    BY <1>1, <2>1, <2>5 DEF State, LifeSound, Linking, Blank
  <2>7. \A y : Mode(y)' = Mode(y)
    BY <1>1 DEF Mode
  <2>8. x \notin Counted'
    BY <2>5 DEF Counted, Blank
  <2>9. LifeSound(x)'
    BY <1>1, <2>1, <2>5, <2>6, <2>8 DEF LifeSound, Blank, Ported
  <2>10. Shaped(Now)'
    BY <1>3, <2>3 DEF Shaped, Become, Now, Ports
  <2>11. ~(tq.what = "tsf" /\ tq.vap = x)
    BY <1>1, <2>1 DEF LifeSound
  <2>12. v'[x].life = "none"
    BY <2>5 DEF Blank
  <2>13. d.past \subseteq d'.past /\ (Choosing(Now, x) => "raced" \in d'.past)
    BY <2>2, <2>3, <2>4
  <2>14. TypeOK' /\ LivesSound' /\ SlotsSound' /\ CountsSound' /\ LinksSound' /\ UdtSound'
    BY <2>1, <2>2, <2>3, <2>4, <2>5, <2>6, <2>9, <2>10, <2>11, <2>12, <2>13, RemoveKeeps
  <2>15. RcrSound' /\ MgtSound'
    <3>1. \A modes : Up(modes)' = Up(modes)
      BY <1>1, <2>5, <2>7, <2>12 DEF Apart, Up, Counted
    <3>2. Unharmed({"undone"})' => Mode(x) # "MON"
      BY <2>3, <2>4 DEF Unharmed, undone
    <3>3. Mode(x) # "MON" => d'.mon = d.mon
      BY <2>2, <2>3, <2>4 DEF NoneOr, IInv, TypeOK
    <3> QED BY <1>1, <2>2, <2>3, <2>4, <2>13, <3>1, <3>2, <3>3, FilterFrom DEF IInv
  <2> QED BY <2>14, <2>15 DEF IInv
<1> QED
  BY <1>2, <1>3 DEF AttachVap

LEMMA DeleteKeeps ==
    ASSUME IInv, NEW x \in Vaps, rtwn_vap_delete(x)
    PROVE  IInv'
<1> DEFINE m == rtwn_vap_decrement_counters(Now, x)
           gone == IF Mode(x) = "IBSS" THEN [v[x] EXCEPT !.life = "dying"] ELSE [Blank EXCEPT !.csa = v[x].csa]
           o == [m EXCEPT !.v[x] = gone]
           n == UpdateIfRunning(o)
<1>1. /\ v[x].life = "up" /\ v[x].state = "INIT" /\ plan' = plan /\ tq' = tq
      /\ tq # [what |-> "state", vap |-> x, to |-> tq.to] /\ Become(n)
  BY DEF rtwn_vap_delete
<1>2. x \in Counted /\ Mode(x) \in {"STA", "AP", "IBSS", "MON"} /\ LifeSound(x)
  BY <1>1, ModeType DEF Counted, IInv, LivesSound
<1>3. ~(tq.what = "state" /\ tq.vap = x)
  BY <1>1 DEF IInv, TypeOK
<1>4. /\ Shaped(m) /\ m.v = v /\ m.hw = hw
      /\ m.d.slot = IF v[x].id = INVALID THEN d.slot ELSE [d.slot EXCEPT ![v[x].id] = NoVap]
      /\ m.d.running = d.running /\ m.d.vr = d.vr /\ m.d.mr = d.mr
      /\ m.d.rcr = d.rcr /\ m.d.locked = d.locked /\ m.d.promisc = d.promisc /\ m.d.ptask = d.ptask
      /\ m.d.ap = d.ap + NoneOr(Mode(x) = "AP", -1)
      /\ m.d.bcn = d.bcn + NoneOr(Beacons(x), -1)
      /\ m.d.nv = d.nv + NoneOr(Mode(x) # "MON", -1)
      /\ m.d.mon = d.mon + NoneOr(Mode(x) = "MON", -1)
      /\ d.past \subseteq m.d.past /\ (Choosing(Now, x) => "raced" \in m.d.past)
  BY <1>2, DecrementEffect
<1>5. /\ DOMAIN gone = VFields /\ gone.life \in {"none", "dying"} /\ gone.state = "INIT"
      /\ gone.life = "none" => gone.curr = "NOLINK" /\ ~gone.callout /\ ~gone.task
      /\ Mode(x) = "IBSS" => gone.life = "dying" /\ gone.id = v[x].id
  <2>1. DOMAIN v[x] = VFields
    BY NowShaped DEF IInv, Shaped, Now
  <2>2. CASE Mode(x) = "IBSS"
    BY <1>1, <2>1, <2>2 DEF VFields
  <2>3. CASE Mode(x) # "IBSS"
    BY <2>3 DEF Blank, VFields
  <2> QED BY <2>2, <2>3
<1> HIDE DEF m, gone
<1>6. Shaped(o) /\ o.v = [v EXCEPT ![x] = gone] /\ o.hw = hw /\ o.d = m.d
  BY <1>4, <1>5 DEF Shaped
<1> HIDE DEF o
<1>7. /\ Shaped(n) /\ n.v = o.v /\ FrameD(o, n) /\ n.d.past = o.d.past
      /\ n.hw.flt2 = o.hw.flt2 /\ n.hw.udt = o.hw.udt
  BY <1>6, UpdateIfEffect
<1>8. n = UpdateIfRunning(o)
  OBVIOUS
<1> HIDE DEF n
<1>9. v' = [v EXCEPT ![x] = gone] /\ hw'.flt2 = hw.flt2 /\ hw'.udt = hw.udt
  BY <1>1, <1>6, <1>7 DEF Become
<1>10. /\ d'.slot = m.d.slot /\ d'.running = m.d.running /\ d'.vr = m.d.vr /\ d'.mr = m.d.mr
       /\ d'.ap = m.d.ap /\ d'.bcn = m.d.bcn /\ d'.nv = m.d.nv /\ d'.mon = m.d.mon
       /\ d'.past = m.d.past
  BY <1>1, <1>6, <1>7 DEF Become, FrameD
<1>11. v'[x] = gone /\ Apart(x)
  <2>1. DOMAIN v = Vaps
    BY NowShaped DEF IInv, Shaped, Now
  <2> QED BY <1>1, <1>9, <2>1 DEF Apart
<1>12. State(x) = "INIT" /\ State(x)' = "INIT" /\ x \notin Linking
  BY <1>1, <1>3, <1>5, <1>11 DEF State, Linking
<1>13. x \notin Counted'
  BY <1>5, <1>11 DEF Counted
<1>14. Mode(x)' = Mode(x)
  BY <1>1 DEF Mode
<1>15. LifeSound(x)'
  <2>1. CASE Mode(x) = "IBSS"
    BY <1>1, <1>5, <1>11, <1>12, <1>13, <1>14, <2>1 DEF LifeSound, Ported
  <2>2. CASE Mode(x) # "IBSS"
    <3>1. ~(tq.what = "tsf" /\ tq.vap = x) /\ gone.life = "none"
      BY <1>2, <2>2 DEF LifeSound, gone, Blank
    <3> QED BY <1>1, <1>5, <1>11, <1>12, <1>13, <2>2, <3>1 DEF LifeSound, Ported
  <2> QED BY <2>1, <2>2
<1>16. Shaped(Now)'
  BY <1>1, <1>7 DEF Shaped, Become, Now, Ports
<1>17. tq.what = "tsf" /\ tq.vap = x => v'[x].id = v[x].id
  BY <1>2, <1>5, <1>11 DEF LifeSound
<1>18. v'[x].life \notin {"id", "set", "up"}
  BY <1>5, <1>11
<1>19. d.past \subseteq d'.past /\ (Choosing(Now, x) => "raced" \in d'.past)
  BY <1>4, <1>10
<1>20. TypeOK' /\ LivesSound' /\ SlotsSound' /\ CountsSound' /\ LinksSound' /\ UdtSound'
  BY <1>2, <1>4, <1>9, <1>10, <1>11, <1>12, <1>15, <1>16, <1>17, <1>18, <1>19, RemoveKeeps
<1>21. RcrSound' /\ MgtSound'
  BY <1>1, <1>4, <1>6, <1>8, <1>20, UpdatedFilter DEF IInv
<1> QED
  BY <1>20, <1>21 DEF IInv

--------------------------------------------------------------------------
(* State changes that do not touch the chip, starts and stops.              *)

LEMMA SetStateKeeps ==
    ASSUME IInv, SetState
    PROVE  IInv'
<1> DEFINE x == tq.vap
           n == [Now EXCEPT !.v[x].state = tq.to]
<1>1. tq.what = "state" /\ x \in Vaps /\ Become(n) /\ plan' = plan /\ tq' = Idle
  BY DEF SetState, IInv, TypeOK
<1>2. Shaped(Now) /\ tq'.what = "idle"
  BY <1>1, NowShaped DEF IInv, Idle
<1> HIDE DEF x
<1>3. Shaped(n) /\ n.d = d /\ n.hw = hw /\ n.v = [v EXCEPT ![x].state = tq.to]
  BY <1>1, <1>2 DEF Shaped, VFields, Now
<1> HIDE DEF n
<1>4. v' = [v EXCEPT ![x].state = tq.to] /\ d' = d /\ hw' = hw
  BY <1>1, <1>3 DEF Become
<1>5. \A y \in Vaps :
        /\ v'[y].life = v[y].life /\ v'[y].id = v[y].id /\ v'[y].curr = v[y].curr
        /\ v'[y].callout = v[y].callout /\ v'[y].task = v[y].task
        /\ v'[y].state = IF y = x THEN tq.to ELSE v[y].state
  BY <1>1, <1>2, <1>4 DEF Shaped, VFields, Now
<1>6. \A y \in Vaps : State(y)' = State(y) /\ State(y) = v'[y].state
  BY <1>1, <1>2, <1>5 DEF State, x
<1>7. StatesSame /\ LivesSame
  BY <1>1, <1>5, <1>6 DEF StatesSame, LivesSame
<1>8. Counted' = Counted /\ Ported' = Ported /\ \A modes : Up(modes)' = Up(modes)
  BY <1>7, SameSets DEF LivesSame
<1>9. TypeOK'
  <2>1. Shaped(Now)'
    BY <1>1, <1>3 DEF Shaped, Become, Now, Ports
  <2> QED BY <1>1, <1>2, <1>4, <2>1 DEF IInv, TypeOK, Idle, States
<1>10. LivesSound'
  <2>1. ASSUME NEW y \in Vaps
        PROVE  LifeSound(y)'
    <3>1. d.running
      BY <1>1 DEF IInv, LivesSound
    <3>2. v[y].life # "up" => State(y) = "INIT"
      BY DEF IInv, LivesSound, LifeSound
    <3>3. Mode(y)' = Mode(y)
      BY <1>1 DEF Mode
    <3> QED BY <1>2, <1>4, <1>5, <1>6, <1>8, <3>1, <3>2, <3>3 DEF IInv, LivesSound, LifeSound
  <2> QED BY <1>2, <2>1 DEF LivesSound
<1>11. SlotsSound' /\ CountsSound'
  BY <1>4, <1>7, SlotsKept, CountsKept DEF IInv
<1>12. LinksSound'
  BY <1>4, <1>5, <1>7, LinksKept DEF IInv
<1>13. UdtSound'
  BY <1>1, <1>4, <1>7, UdtKept DEF IInv
<1>14. MgtSound'
  BY <1>4, <1>7, MgtKept DEF IInv
<1>15. RcrSound'
  BY <1>1, <1>2, <1>4, <1>8 DEF IInv, RcrSound, Unharmed
<1> QED
  BY <1>9, <1>10, <1>11, <1>12, <1>13, <1>14, <1>15 DEF IInv

LEMMA MonitorKeeps ==
    ASSUME IInv, NEW x \in Vaps, NEW n \in States, rtwn_monitor_newstate(x, n)
    PROVE  IInv'
<1> DEFINE by == IF n = "RUN" THEN 1 ELSE -1
           m == [Now EXCEPT !.d.vr = @ + by, !.d.mr = @ + by]
<1>1. /\ tq = Idle /\ v[x].life = "up" /\ Mode(x) = "MON" /\ Become(m) /\ plan' = plan
      /\ tq' = [what |-> "state", vap |-> x, to |-> n]
  BY DEF rtwn_monitor_newstate, Move
<1>2. d.running
  BY DEF rtwn_monitor_newstate, Move, IInv, LivesSound, LifeSound
<1>3. Shaped(Now) /\ d.vr \in Int /\ d.mr \in Int
  BY NowShaped DEF IInv, TypeOK
<1>4. by \in Int
  OBVIOUS
<1> HIDE DEF by
<1>5. /\ Shaped(m) /\ m.v = v /\ m.hw = hw /\ m.d.vr = d.vr + by /\ m.d.mr = d.mr + by
      /\ m.d.running = d.running /\ m.d.slot = d.slot
      /\ m.d.nv = d.nv /\ m.d.ap = d.ap /\ m.d.bcn = d.bcn /\ m.d.mon = d.mon /\ m.d.past = d.past
      /\ m.d.rcr = d.rcr /\ m.d.locked = d.locked /\ m.d.promisc = d.promisc /\ m.d.ptask = d.ptask
  BY <1>3 DEF Shaped, DFields, Now
<1> HIDE DEF m
<1>6. /\ v' = v /\ hw' = hw /\ d'.vr = d.vr + by /\ d'.mr = d.mr + by
      /\ d'.running = d.running /\ d'.slot = d.slot
      /\ d'.nv = d.nv /\ d'.ap = d.ap /\ d'.bcn = d.bcn /\ d'.mon = d.mon /\ d'.past = d.past
      /\ d'.rcr = d.rcr /\ d'.locked = d.locked /\ d'.promisc = d.promisc /\ d'.ptask = d.ptask
  BY <1>1, <1>5 DEF Become
<1>7. tq.what = "idle" /\ tq'.what = "state" /\ tq'.vap = x
  BY <1>1 DEF Idle
<1>8. LivesSame
  BY <1>1, <1>6 DEF LivesSame
<1>9. Counted' = Counted /\ Ported' = Ported /\ (\A modes : Up(modes)' = Up(modes)) /\ x \notin Ported
  BY <1>1, <1>8, SameSets DEF LivesSame, Ported
<1>10. Linking' = Linking
  <2>1. \A y \in Ported : State(y)' = State(y)
    BY <1>6, <1>7, <1>9 DEF State
  <2> QED BY <1>9, <2>1 DEF Linking
<1>11. TypeOK'
  <2>1. Shaped(Now)'
    BY <1>1, <1>5 DEF Shaped, Become, Now, Ports
  <2>2. {d.nv, d.ap, d.bcn, d.mon, d.vr, d.mr}' \subseteq Int
    BY <1>3, <1>4, <1>6 DEF IInv, TypeOK
  <2> QED BY <1>1, <1>7, <2>1, <2>2 DEF IInv, TypeOK
<1>12. LivesSound'
  <2>1. ASSUME NEW y \in Vaps
        PROVE  LifeSound(y)'
    <3>1. Mode(y)' = Mode(y)
      BY <1>1 DEF Mode
    <3>2. y # x => State(y)' = State(y)
      BY <1>6, <1>7 DEF State
    <3> QED BY <1>1, <1>6, <1>7, <1>9, <3>1, <3>2 DEF IInv, LivesSound, LifeSound
  <2> QED BY <1>2, <1>6, <2>1 DEF LivesSound
<1>13. SlotsSound' /\ CountsSound'
  BY <1>6, <1>8, SlotsKept, CountsKept DEF IInv
<1>14. LinksSound'
  <2>1. d'.vr - d'.mr = d.vr - d.mr
    BY <1>3, <1>4, <1>6
  <2> QED BY <1>6, <1>9, <1>10, <2>1 DEF IInv, LinksSound, Unharmed
<1>15. UdtSound'
  BY <1>1, <1>6, <1>7, <1>10 DEF IInv, UdtSound, Unharmed, Mode
<1>16. MgtSound'
  BY <1>6, <1>8, MgtKept DEF IInv
<1>17. RcrSound'
  BY <1>6, <1>7, <1>9 DEF IInv, RcrSound, Unharmed
<1> QED
  BY <1>11, <1>12, <1>13, <1>14, <1>15, <1>16, <1>17 DEF IInv

LEMMA StopKeeps ==
    ASSUME IInv, Become(rtwn_stop(Now)), UNCHANGED <<plan, tq>>, tq = Idle,
           \A x \in Vaps : v[x].state = "INIT"
    PROVE  IInv'
<1> DEFINE n == rtwn_stop(Now)
<1>1. /\ Shaped(n) /\ n.v = v /\ n.hw = hw /\ ~n.d.running /\ n.d.slot = d.slot
      /\ n.d.nv = d.nv /\ n.d.ap = d.ap /\ n.d.bcn = d.bcn /\ n.d.mon = d.mon
      /\ n.d.vr = d.vr /\ n.d.mr = d.mr /\ n.d.past = d.past /\ n.d.locked = d.locked
  BY NowShaped DEF IInv, rtwn_stop, Shaped, DFields, Now
<1>2. /\ v' = v /\ hw' = hw /\ ~d'.running /\ d'.slot = d.slot
      /\ d'.nv = d.nv /\ d'.ap = d.ap /\ d'.bcn = d.bcn /\ d'.mon = d.mon
      /\ d'.vr = d.vr /\ d'.mr = d.mr /\ d'.past = d.past /\ d'.locked = d.locked
  BY <1>1 DEF Become
<1>3. StatesSame /\ LivesSame
  BY <1>2 DEF StatesSame, LivesSame, State
<1>4. TypeOK'
  <2>1. Shaped(Now)'
    BY <1>1 DEF Shaped, Become, Now, Ports
  <2> QED BY <1>2, <2>1 DEF IInv, TypeOK
<1>5. LivesSound'
  <2>1. Counted' = Counted /\ Ported' = Ported
    BY <1>3, SameSets DEF LivesSame
  <2>2. tq'.what = "idle"
    BY DEF Idle
  <2> QED BY <1>2, <1>3, <2>1, <2>2 DEF IInv, LivesSound, LifeSound, StatesSame, Mode
<1>6. SlotsSound' /\ CountsSound'
  BY <1>2, <1>3, SlotsKept, CountsKept DEF IInv
<1>7. LinksSound'
  BY <1>2, <1>3, LinksKept DEF IInv
<1>8. UdtSound'
  BY <1>2, <1>3, UdtKept DEF IInv, TypeOK
<1>9. RcrSound' /\ MgtSound'
  BY <1>2 DEF IInv, RcrSound, MgtSound
<1> QED
  BY <1>4, <1>5, <1>6, <1>7, <1>8, <1>9 DEF IInv

LEMMA SetModeEffect ==
    ASSUME NEW m, Shaped(m), NEW id \in Ports, NEW mode,
           NEW n, n = rtwn_set_mode(m, mode, id)
    PROVE  /\ Shaped(n) /\ n.d = m.d /\ n.hw = m.hw
           /\ \A y \in Vaps :
                /\ n.v[y].life = m.v[y].life /\ n.v[y].id = m.v[y].id /\ n.v[y].state = m.v[y].state
                /\ n.v[y].callout = m.v[y].callout /\ n.v[y].task = m.v[y].task
                /\ n.v[y].curr = IF y = m.d.slot[id] THEN mode ELSE m.v[y].curr
<1>1. CASE m.d.slot[id] = NoVap
  BY <1>1, VapsAssumption DEF rtwn_set_mode
<1>2. CASE m.d.slot[id] # NoVap
  <2>1. m.d.slot[id] \in Vaps
    BY <1>2 DEF Shaped
  <2>2. n = [m EXCEPT !.v[m.d.slot[id]].curr = mode]
    BY <1>2 DEF rtwn_set_mode
  <2> DEFINE z == m.d.slot[id]
  <2>3. n = [m EXCEPT !.v[z].curr = mode] /\ z \in Vaps
    BY <2>1, <2>2
  <2> HIDE DEF z
  <2>4. /\ Shaped(n) /\ n.d = m.d /\ n.hw = m.hw
        /\ \A y \in Vaps :
             /\ n.v[y].life = m.v[y].life /\ n.v[y].id = m.v[y].id /\ n.v[y].state = m.v[y].state
             /\ n.v[y].callout = m.v[y].callout /\ n.v[y].task = m.v[y].task
             /\ n.v[y].curr = IF y = z THEN mode ELSE m.v[y].curr
    BY <2>3 DEF Shaped, VFields
  <2> QED BY <2>4 DEF z
<1> QED
  BY <1>1, <1>2

\* rtwn_init() leaves no vap linked and the filter up to date.
LEMMA InitEffect ==
    ASSUME NEW m, Shaped(m), ~m.d.locked,
           NEW n, n = rtwn_init(m)
    PROVE  /\ Shaped(n) /\ n.d.running /\ n.d.slot = m.d.slot
           /\ n.d.nv = m.d.nv /\ n.d.ap = m.d.ap /\ n.d.bcn = m.d.bcn /\ n.d.mon = m.d.mon
           /\ n.d.vr = m.d.vr /\ n.d.mr = m.d.mr
           /\ ("lost" \in n.d.past <=> "lost" \in m.d.past) /\ ("raced" \in n.d.past <=> "raced" \in m.d.past)
           /\ n.d.locked = m.d.locked /\ n.hw.rcr = n.d.rcr /\ n.hw.udt = {}
           /\ PromiscSet(n, n) /\ MgtSet(n, n)
           /\ \A y \in Vaps :
                /\ n.v[y].life = m.v[y].life /\ n.v[y].id = m.v[y].id /\ n.v[y].state = m.v[y].state
                /\ n.v[y].callout = m.v[y].callout /\ n.v[y].task = m.v[y].task
                /\ n.v[y].curr = IF \E p \in Ports : m.d.slot[p] = y THEN "NOLINK" ELSE m.v[y].curr
<1> DEFINE off == [m EXCEPT !.hw = PoweredOn, !.d.past = @ \ {"failed", "hidden", "late", "undone"}]
           one == rtwn_set_mode(off, "NOLINK", 0)
           two == rtwn_set_mode(one, "NOLINK", 1)
           ready == [two EXCEPT !.hw.flt2 = FALSE, !.d.rcr = @ \cup {"apm"}]
           u == rtwn_rxfilter_update(ready)
<1>1. n = [u EXCEPT !.d.running = TRUE]
  BY DEF rtwn_init, rtwn_rxfilter_init
<1>2. /\ Shaped(off) /\ off.v = m.v /\ off.hw = PoweredOn /\ off.d.slot = m.d.slot
      /\ off.d.nv = m.d.nv /\ off.d.ap = m.d.ap /\ off.d.bcn = m.d.bcn /\ off.d.mon = m.d.mon
      /\ off.d.vr = m.d.vr /\ off.d.mr = m.d.mr /\ off.d.locked = m.d.locked
      /\ off.d.past = m.d.past \ {"failed", "hidden", "late", "undone"}
  BY DEF Shaped, DFields, PoweredOn, HFields
<1> HIDE DEF off
<1>3. /\ Shaped(one) /\ one.d = off.d /\ one.hw = off.hw
      /\ \A y \in Vaps :
           /\ one.v[y].life = m.v[y].life /\ one.v[y].id = m.v[y].id /\ one.v[y].state = m.v[y].state
           /\ one.v[y].callout = m.v[y].callout /\ one.v[y].task = m.v[y].task
           /\ one.v[y].curr = IF y = m.d.slot[0] THEN "NOLINK" ELSE m.v[y].curr
  BY <1>2, SetModeEffect DEF Ports
<1> HIDE DEF one
<1>4. /\ Shaped(two) /\ two.d = off.d /\ two.hw = off.hw
      /\ \A y \in Vaps :
           /\ two.v[y].life = m.v[y].life /\ two.v[y].id = m.v[y].id /\ two.v[y].state = m.v[y].state
           /\ two.v[y].callout = m.v[y].callout /\ two.v[y].task = m.v[y].task
           /\ two.v[y].curr = IF y = m.d.slot[1] THEN "NOLINK" ELSE one.v[y].curr
  <2>1. 1 \in Ports /\ one.d.slot[1] = m.d.slot[1]
    BY <1>2, <1>3 DEF Ports
  <2> QED BY <1>3, <2>1, SetModeEffect
<1> HIDE DEF two
<1>5. /\ Shaped(ready) /\ ready.v = two.v /\ ready.d.slot = off.d.slot /\ ready.hw.udt = {}
      /\ ready.d.nv = off.d.nv /\ ready.d.ap = off.d.ap /\ ready.d.bcn = off.d.bcn /\ ready.d.mon = off.d.mon
      /\ ready.d.vr = off.d.vr /\ ready.d.mr = off.d.mr /\ ready.d.locked = off.d.locked
      /\ ready.d.past = off.d.past
  BY <1>2, <1>4 DEF Shaped, DFields, HFields, PoweredOn
<1> HIDE DEF ready
<1>6. Filtered(ready, u) /\ u.d.past = ready.d.past /\ PromiscSet(ready, u) /\ MgtSet(ready, u)
  BY <1>5, UpdateEffect
<1> HIDE DEF u
<1>7. /\ Shaped(n) /\ n.v = u.v /\ n.hw = u.hw /\ n.d.running
      /\ n.d.slot = u.d.slot /\ n.d.nv = u.d.nv /\ n.d.ap = u.d.ap /\ n.d.bcn = u.d.bcn /\ n.d.mon = u.d.mon
      /\ n.d.vr = u.d.vr /\ n.d.mr = u.d.mr /\ n.d.locked = u.d.locked /\ n.d.past = u.d.past
      /\ n.d.rcr = u.d.rcr /\ n.d.promisc = u.d.promisc
  BY <1>1, <1>6 DEF Filtered, Shaped, DFields
<1>8. /\ u.d.slot = m.d.slot
      /\ u.d.nv = m.d.nv /\ u.d.ap = m.d.ap /\ u.d.bcn = m.d.bcn /\ u.d.mon = m.d.mon
      /\ u.d.vr = m.d.vr /\ u.d.mr = m.d.mr /\ u.d.locked = m.d.locked
      /\ u.d.past = m.d.past \ {"failed", "hidden", "late", "undone"}
      /\ u.hw.udt = {} /\ u.d.promisc = ready.d.promisc
  BY <1>2, <1>5, <1>6 DEF Filtered, FrameD
<1>9. u.hw.rcr = u.d.rcr
  <2>1. ~ready.d.locked
    BY <1>2, <1>5
  <2> QED BY <1>6, <2>1 DEF Filtered
<1>10. PromiscSet(n, n) /\ MgtSet(n, n)
  <2>1. n.d.ap = ready.d.ap /\ n.d.bcn = ready.d.bcn /\ n.d.nv = ready.d.nv /\ n.d.mon = ready.d.mon
    BY <1>2, <1>5, <1>7, <1>8
  <2> QED BY <1>6, <1>7, <1>8, <2>1 DEF PromiscSet, MgtSet
<1>11. \A y \in Vaps :
         /\ n.v[y].life = m.v[y].life /\ n.v[y].id = m.v[y].id /\ n.v[y].state = m.v[y].state
         /\ n.v[y].callout = m.v[y].callout /\ n.v[y].task = m.v[y].task
         /\ n.v[y].curr = two.v[y].curr
  BY <1>4, <1>5, <1>6, <1>7 DEF Filtered, FrameV
<1>12. \A y \in Vaps : n.v[y].curr = IF \E p \in Ports : m.d.slot[p] = y THEN "NOLINK" ELSE m.v[y].curr
  BY <1>3, <1>4, <1>11 DEF Ports
<1> QED
  BY <1>7, <1>8, <1>9, <1>10, <1>11, <1>12

LEMMA StartKeeps ==
    ASSUME IInv, Become(rtwn_init(Now)), UNCHANGED <<plan, tq>>, tq = Idle, ~d.running
    PROVE  IInv'
<1> DEFINE n == rtwn_init(Now)
<1>1. Shaped(Now) /\ ~d.locked /\ tq.what = "idle" /\ tq'.what = "idle"
  BY NowShaped DEF IInv, RcrSound, Idle
<1>2. /\ Shaped(n) /\ n.d.running /\ n.d.slot = d.slot
      /\ n.d.nv = d.nv /\ n.d.ap = d.ap /\ n.d.bcn = d.bcn /\ n.d.mon = d.mon
      /\ n.d.vr = d.vr /\ n.d.mr = d.mr
      /\ ("lost" \in n.d.past <=> "lost" \in d.past) /\ ("raced" \in n.d.past <=> "raced" \in d.past)
      /\ n.d.locked = d.locked /\ n.hw.rcr = n.d.rcr /\ n.hw.udt = {}
      /\ PromiscSet(n, n) /\ MgtSet(n, n)
      /\ \A y \in Vaps :
           /\ n.v[y].life = v[y].life /\ n.v[y].id = v[y].id /\ n.v[y].state = v[y].state
           /\ n.v[y].callout = v[y].callout /\ n.v[y].task = v[y].task
           /\ n.v[y].curr = IF \E p \in Ports : d.slot[p] = y THEN "NOLINK" ELSE v[y].curr
  <2>1. ~Now.d.locked /\ Now.v = v /\ Now.d = d
    BY <1>1 DEF Now
  <2> HIDE DEF n
  <2>2. n = rtwn_init(Now)
    BY DEF n
  <2> QED BY <1>1, <2>1, <2>2, InitEffect
<1>3. Become(n)
  OBVIOUS
<1> HIDE DEF n
<1>4. v' = n.v /\ d' = n.d /\ hw' = n.hw
  BY <1>3 DEF Become
<1>5. StatesSame /\ LivesSame
  BY <1>2, <1>4 DEF StatesSame, LivesSame, State
<1>6. /\ Counted' = Counted /\ Ported' = Ported /\ Ported \subseteq Vaps
      /\ Linking' = Linking
  BY <1>5, SameSets, SameLinking DEF LivesSame, Ported, Counted
<1>7. Linking = {}
  <2>1. \A y \in Vaps : State(y) = "INIT"
    BY <1>1 DEF State, IInv, LivesSound, LifeSound
  <2> QED BY <1>6, <2>1 DEF Linking
<1>8. TypeOK'
  <2>1. Shaped(Now)'
    BY <1>2, <1>4 DEF Shaped, Now, Ports
  <2> QED BY <1>2, <1>4, <2>1 DEF IInv, TypeOK
<1>9. LivesSound'
  <2>1. ASSUME NEW y \in Vaps
        PROVE  LifeSound(y)'
    <3>1. Mode(y)' = Mode(y)
      BY DEF Mode
    <3> QED BY <1>1, <1>2, <1>4, <1>5, <1>6, <3>1 DEF IInv, LivesSound, LifeSound, StatesSame
  <2> QED BY <1>1, <2>1 DEF LivesSound
<1>10. SlotsSound'
  <2>1. Unharmed({"raced"})' => Unharmed({"raced"})
    BY <1>2, <1>4 DEF Unharmed
  <2> QED BY <1>2, <1>4, <1>6, <2>1 DEF IInv, SlotsSound, Ports
<1>11. CountsSound'
  BY <1>2, <1>4, <1>5, CountsKept DEF IInv
<1>12. LinksSound'
  <2>1. (Unharmed({"lost"})' => Unharmed({"lost"})) /\ (Unharmed({"lost", "raced", "failed"})' => Unharmed({"raced"}))
    BY <1>2, <1>4 DEF Unharmed
  <2>2. ASSUME Unharmed({"raced"}), NEW y \in Ported
        PROVE  v'[y].curr = "NOLINK"
    <3>1. CASE v[y].life = "id"
      BY <1>2, <1>4, <1>6, <3>1 DEF IInv, LivesSound, LifeSound
    <3>2. CASE v[y].life # "id"
      <4>1. d.slot[v[y].id] = y /\ v[y].id \in Ports
        BY <1>6, <2>2, <3>2 DEF IInv, SlotsSound, LivesSound, LifeSound
      <4> QED BY <1>2, <1>4, <1>6, <4>1
    <3> QED BY <3>1, <3>2
  <2> QED BY <1>2, <1>4, <1>6, <1>7, <2>1, <2>2 DEF IInv, LinksSound
<1>13. UdtSound'
  BY <1>2, <1>4 DEF UdtSound
<1>14. RcrSound'
  BY <1>1, <1>2, <1>4, <1>11, CountedUp DEF RcrSound, PromiscSet
<1>15. MgtSound'
  BY <1>2, <1>4, <1>11, CountedUp DEF MgtSound, MgtSet
<1> QED
  BY <1>8, <1>9, <1>10, <1>11, <1>12, <1>13, <1>14, <1>15 DEF IInv

LEMMA ParentKeeps ==
    ASSUME IInv, rtwn_parent
    PROVE  IInv'
<1>1. UNCHANGED <<plan, tq>> /\ tq = Idle
  BY DEF rtwn_parent
<1>2. CASE ~d.running /\ Become(rtwn_init(Now))
  BY <1>1, <1>2, StartKeeps
<1>3. CASE Become(CloseAll(Now))
  <2>1. Framed(Now, CloseAll(Now))
    BY NowShaped, CloseAllFrame DEF IInv
  <2>2. FramedStep
    BY <1>1, <1>3, <2>1 DEF FramedStep
  <2> QED BY <2>2, FramedKept
<1>4. CASE Become(rtwn_stop(Now)) /\ \A x \in Vaps : v[x].state = "INIT"
  BY <1>1, <1>4, StopKeeps
<1> QED
  BY <1>2, <1>3, <1>4 DEF rtwn_parent

--------------------------------------------------------------------------
(* State changes of vaps with a port.                                       *)

\* What rtwn_newstate() leaves alone.
FrameL(m, n, x) ==
    /\ Shaped(n)
    /\ \A y \in Vaps :
         /\ n.v[y].life = m.v[y].life /\ n.v[y].id = m.v[y].id /\ n.v[y].state = m.v[y].state
         /\ n.v[y].callout => m.v[y].callout
         /\ n.v[y].task => m.v[y].task \/ (y = x /\ Mode(x) = "IBSS")
    /\ n.d.running = m.d.running /\ n.d.slot = m.d.slot
    /\ n.d.nv = m.d.nv /\ n.d.ap = m.d.ap /\ n.d.bcn = m.d.bcn /\ n.d.mon = m.d.mon
    /\ n.d.mr = m.d.mr /\ m.d.past \subseteq n.d.past
    /\ FrameR(m, n) /\ n.hw.flt0 = m.hw.flt0
SameCurr(m, n) == \A y \in Vaps : n.v[y].curr = m.v[y].curr
SameRest(m, n) == n.d.vr = m.d.vr /\ SameCurr(m, n) /\ n.hw.udt = m.hw.udt /\ n.hw.flt2 = m.hw.flt2

LEMMA FramedIsL ==
    ASSUME NEW m, NEW n, Framed(m, n), NEW x
    PROVE  FrameL(m, n, x) /\ SameRest(m, n)
BY DEF Framed, FrameV, FrameD, FrameH, FrameL, SameRest, SameCurr

LEMMA FrameLTransitive ==
    ASSUME NEW x, NEW m, NEW n, NEW o, FrameL(m, n, x), FrameL(n, o, x)
    PROVE  FrameL(m, o, x)
BY DEF FrameL, FrameR

LEMMA TxBeaconFrame ==
    ASSUME NEW m, Shaped(m), NEW x, NEW frame
    PROVE  Framed(m, rtwn_tx_beacon(m, x, frame))
BY DEF rtwn_tx_beacon, Framed, Shaped, FrameV, FrameD, FrameR, FrameH, HFields

LEMMA PastFrame ==
    ASSUME NEW m, Shaped(m), NEW s
    PROVE  /\ Framed(m, [m EXCEPT !.d.past = @ \cup s])
           /\ [m EXCEPT !.d.past = @ \cup s].d.past = m.d.past \cup s
BY DEF Framed, Shaped, FrameV, FrameD, FrameR, FrameH, DFields

LEMMA PushFrame ==
    ASSUME NEW m, Shaped(m), NEW x, NEW sent, NEW restored
    PROVE  Framed(m, rtwn_push_nulldata(m, x, sent, restored).m)
<1> DEFINE other == m.d.slot[1 - m.v[x].id]
           restore == m.d.bcn > 0 /\ other # NoVap /\ (other # NoVap => m.v[other].curr # "NOLINK")
           page == rtwn_tx_beacon(m, x, NullPage)
           pushed == [page EXCEPT !.hw.null = sent]
           back == rtwn_tx_beacon(pushed, other, IF restored THEN other ELSE NoVap)
           s == (IF sent THEN {} ELSE {"hidden"})
           t == (IF restored THEN {} ELSE {"failed"})
           n == rtwn_push_nulldata(m, x, sent, restored).m
<1>1. n = IF ~restore THEN pushed ELSE [back EXCEPT !.d.past = (@ \cup s) \cup t]
  BY DEF rtwn_push_nulldata
<1>2. Framed(m, page)
  BY TxBeaconFrame
<1> HIDE DEF other, page, s, t, restore
<1>3. Framed(m, pushed)
  BY <1>2 DEF Framed, Shaped, FrameV, FrameD, FrameR, FrameH, HFields
<1> HIDE DEF pushed
<1>4. Framed(pushed, back)
  BY <1>3, TxBeaconFrame DEF Framed
<1>5. Framed(m, back)
  BY <1>3, <1>4, FrameTransitive
<1> HIDE DEF back
<1>6. Framed(m, [back EXCEPT !.d.past = (@ \cup s) \cup t])
  BY <1>5 DEF Framed, Shaped, FrameV, FrameD, FrameR, FrameH, DFields
<1> QED
  BY <1>1, <1>3, <1>6

LEMMA BeaconEnableFrame ==
    ASSUME NEW m, Shaped(m), NEW id, NEW e
    PROVE  Framed(m, rtwn_beacon_enable(m, id, e))
BY DEF rtwn_beacon_enable, Framed, Shaped, FrameV, FrameD, FrameR, FrameH, HFields

LEMMA SyncEffect ==
    ASSUME NEW m, Shaped(m), NEW x \in Vaps, Mode(x) \in {"STA", "AP", "IBSS"},
           NEW n, n = rtwn_tsf_sync_enable(m, x)
    PROVE  /\ FrameL(m, n, x) /\ n.d.vr = m.d.vr /\ SameCurr(m, n) /\ n.hw.flt2 = m.hw.flt2
           /\ n.hw.udt = IF Mode(x) = "STA" THEN m.hw.udt \cup {m.v[x].id} ELSE m.hw.udt
<1>1. CASE Mode(x) = "STA"
  <2>1. n = [m EXCEPT !.hw.udt = @ \cup {m.v[x].id}]
    BY <1>1 DEF rtwn_tsf_sync_enable
  <2> QED BY <1>1, <2>1 DEF FrameL, SameCurr, FrameR, Shaped, HFields
<1>2. CASE Mode(x) = "IBSS"
  <2> DEFINE o == [m EXCEPT !.v[x].task = TRUE]
  <2>1. n = rtwn_beacon_enable(o, m.v[x].id, TRUE)
    BY <1>2 DEF rtwn_tsf_sync_enable
  <2>2. /\ FrameL(m, o, x) /\ Shaped(o) /\ o.d.vr = m.d.vr /\ SameCurr(m, o)
        /\ o.hw = m.hw
    BY <1>2 DEF FrameL, SameCurr, FrameR, Shaped, VFields
  <2> HIDE DEF o
  <2>3. Framed(o, n)
    BY <2>1, <2>2, BeaconEnableFrame
  <2>4. FrameL(o, n, x) /\ SameRest(o, n)
    BY <2>3, FramedIsL
  <2>5. FrameL(m, n, x)
    BY <2>2, <2>4, FrameLTransitive
  <2> QED BY <1>2, <2>2, <2>4, <2>5 DEF SameRest, SameCurr
<1>3. CASE Mode(x) = "AP"
  <2>1. n = rtwn_beacon_enable(m, m.v[x].id, TRUE)
    BY <1>3 DEF rtwn_tsf_sync_enable
  <2>2. FrameL(m, n, x) /\ SameRest(m, n)
    BY <2>1, BeaconEnableFrame, FramedIsL
  <2> QED BY <1>3, <2>2 DEF SameRest
<1> QED
  BY <1>1, <1>2, <1>3

LEMMA ModeChangeIsL ==
    ASSUME NEW m, Shaped(m), NEW x, NEW id \in Ports, NEW mode,
           NEW n, n = rtwn_set_mode(m, mode, id)
    PROVE  /\ FrameL(m, n, x) /\ n.d.vr = m.d.vr /\ n.hw = m.hw
           /\ \A y \in Vaps : n.v[y].curr = IF y = m.d.slot[id] THEN mode ELSE m.v[y].curr
<1>1. /\ Shaped(n) /\ n.d = m.d /\ n.hw = m.hw
      /\ \A y \in Vaps :
           /\ n.v[y].life = m.v[y].life /\ n.v[y].id = m.v[y].id /\ n.v[y].state = m.v[y].state
           /\ n.v[y].callout = m.v[y].callout /\ n.v[y].task = m.v[y].task
           /\ n.v[y].curr = IF y = m.d.slot[id] THEN mode ELSE m.v[y].curr
  BY SetModeEffect
<1> QED
  BY <1>1 DEF FrameL, FrameR

LEMMA LeaveEffect ==
    ASSUME NEW m, Shaped(m), NEW x \in Vaps, m.v[x].id \in Ports, m.d.vr \in Int, m.d.mr \in Int,
           NEW n, n = Leave(m, x)
    PROVE  /\ FrameL(m, n, x) /\ n.d.vr = m.d.vr - 1
           /\ n.hw.udt = m.hw.udt \ {m.v[x].id}
           /\ m.d.vr - 1 # m.d.mr => n.hw.flt2 = m.hw.flt2
           /\ \A y \in Vaps : n.v[y].curr = IF y = m.d.slot[m.v[x].id] THEN "NOLINK" ELSE m.v[y].curr
<1> DEFINE id == m.v[x].id
           mode == rtwn_set_mode(m, "NOLINK", id)
           quiet == rtwn_beacon_enable(mode, id, FALSE)
           left == [quiet EXCEPT !.d.vr = @ - 1, !.v[x].callout = FALSE, !.hw.udt = @ \ {id}]
           calm == [left EXCEPT !.d.pwrto = FALSE]
           awake == IF Saves(x, m) THEN set_pwrmode(calm, x, FALSE) ELSE left
           last == [awake EXCEPT !.d.calto = FALSE, !.hw.flt2 = FALSE]
<1>1. n = IF awake.d.vr # awake.d.mr THEN awake ELSE last
  BY Zenon DEF Leave
<1>2. /\ FrameL(m, mode, x) /\ mode.d.vr = m.d.vr /\ mode.hw = m.hw
      /\ \A y \in Vaps : mode.v[y].curr = IF y = m.d.slot[id] THEN "NOLINK" ELSE m.v[y].curr
  BY ModeChangeIsL
<1> HIDE DEF id, mode
<1>3. FrameL(mode, quiet, x) /\ SameRest(mode, quiet)
  <2>1. Shaped(mode)
    BY <1>2 DEF FrameL
  <2>2. Framed(mode, quiet)
    BY <2>1, BeaconEnableFrame
  <2> QED BY <2>2, FramedIsL
<1>4. FrameL(m, quiet, x)
  BY <1>2, <1>3, FrameLTransitive
<1> HIDE DEF quiet
<1>5. /\ FrameL(quiet, left, x) /\ left.d.vr = quiet.d.vr - 1 /\ SameCurr(quiet, left)
      /\ left.hw.udt = quiet.hw.udt \ {id} /\ left.hw.flt2 = quiet.hw.flt2
  <2>1. Shaped(quiet)
    BY <1>4 DEF FrameL
  <2> QED BY <2>1 DEF FrameL, SameCurr, FrameR, Shaped, VFields, DFields, HFields
<1> HIDE DEF left
<1>6. Shaped(left)
  BY <1>5 DEF FrameL
<1>7. FrameL(left, awake, x) /\ SameRest(left, awake)
  <2>1. Framed(left, calm)
    BY <1>6 DEF Framed, Shaped, FrameV, FrameD, FrameR, FrameH, DFields
  <2> HIDE DEF calm
  <2>2. Framed(calm, set_pwrmode(calm, x, FALSE))
    BY <2>1, PwrmodeFrame DEF Framed
  <2>3. Framed(left, set_pwrmode(calm, x, FALSE))
    BY <2>1, <2>2, FrameTransitive
  <2>4. Framed(left, left)
    BY <1>6 DEF Framed, FrameV, FrameD, FrameR, FrameH
  <2>5. Framed(left, awake)
    BY <2>3, <2>4
  <2> QED BY <2>5, FramedIsL
<1> HIDE DEF awake
<1>8. /\ FrameL(awake, last, x) /\ last.d.vr = awake.d.vr /\ SameCurr(awake, last)
      /\ last.hw.udt = awake.hw.udt
  <2>1. Shaped(awake)
    BY <1>7 DEF FrameL
  <2> QED BY <2>1 DEF FrameL, SameCurr, FrameR, Shaped, DFields, HFields
<1> HIDE DEF last
<1>9. FrameL(m, left, x)
  BY <1>4, <1>5, FrameLTransitive
<1>10. FrameL(m, awake, x)
  BY <1>7, <1>9, FrameLTransitive
<1>11. FrameL(m, last, x)
  BY <1>8, <1>10, FrameLTransitive
<1>12. awake.d.vr = m.d.vr - 1 /\ awake.d.mr = m.d.mr
  BY <1>2, <1>3, <1>5, <1>7, <1>10 DEF SameRest, FrameL
<1>13. \A y \in Vaps : awake.v[y].curr = IF y = m.d.slot[id] THEN "NOLINK" ELSE m.v[y].curr
  BY <1>2, <1>3, <1>5, <1>7 DEF SameRest, SameCurr
<1>14. awake.hw.udt = m.hw.udt \ {id} /\ awake.hw.flt2 = m.hw.flt2
  BY <1>2, <1>3, <1>5, <1>7 DEF SameRest
<1>15. CASE awake.d.vr # awake.d.mr
  BY <1>1, <1>10, <1>12, <1>13, <1>14, <1>15 DEF id
<1>16. CASE awake.d.vr = awake.d.mr
  BY <1>1, <1>8, <1>11, <1>12, <1>13, <1>14, <1>16 DEF id, SameCurr
<1> QED
  BY <1>15, <1>16

\* The mode registers of the other ports.
SameElsewhere(m, n, x) == \A y \in Vaps : y # m.d.slot[m.v[x].id] => n.v[y].curr = m.v[y].curr

\* rtwn_run(): what it does when it succeeds, and what is left when it fails.
RunsTo(m, x, r) ==
    /\ r.error \in BOOLEAN /\ FrameL(m, r.m, x) /\ r.m.d.vr = m.d.vr /\ SameElsewhere(m, r.m, x)
    /\ m.hw.flt2 => r.m.hw.flt2
    /\ ~r.error /\ m.d.vr = m.d.mr => r.m.hw.flt2
    /\ r.error => r.m.hw.udt = m.hw.udt
    /\ ~r.error => r.m.hw.udt = IF Mode(x) = "STA" THEN m.hw.udt \cup {m.v[x].id} ELSE m.hw.udt
    /\ r.error => "failed" \in r.m.d.past \/ SameCurr(m, r.m)
    /\ ~r.error => \A y \in Vaps :
         r.m.v[y].curr = IF y = m.d.slot[m.v[x].id] THEN CurrMode(x) ELSE m.v[y].curr
LEMMA RunEffect ==
    ASSUME NEW m, Shaped(m), NEW x \in Vaps, m.v[x].id \in Ports, Mode(x) \in {"STA", "AP", "IBSS"},
           NEW how, NEW restored \in BOOLEAN,
           NEW r, r = rtwn_run(m, x, how, restored)
    PROVE  RunsTo(m, x, r)
<1> DEFINE first == m.d.vr = m.d.mr
           linked == rtwn_set_mode(m, CurrMode(x), m.v[x].id)
           open == [linked EXCEPT !.hw.flt2 = TRUE, !.hw.pause = {}]
           opened == IF first THEN open ELSE linked
           nulls == Saves(x, m) /\ Mode(x) = "STA"
           push == rtwn_push_nulldata(opened, x, how # "null", restored)
           timed == [push.m EXCEPT !.d.pwrto = TRUE]
           saved == IF nulls THEN timed ELSE opened
           synced == rtwn_tsf_sync_enable(saved, x)
           setup == rtwn_setup_beacon(synced, x, how # "beacon")
           beaconing == IF Beacons(x) THEN setup ELSE synced
           stopped == [push.m EXCEPT !.d.past = @ \cup {"failed"}]
           spoilt == [beaconing EXCEPT !.d.past = @ \cup {"failed"}]
           done == [beaconing EXCEPT !.d.calto = TRUE]
           Linked(n) == \A y \in Vaps : n.v[y].curr = IF y = m.d.slot[m.v[x].id] THEN CurrMode(x) ELSE m.v[y].curr
           Kept(n) == /\ FrameL(m, n, x) /\ n.d.vr = m.d.vr /\ Linked(n)
                      /\ m.hw.flt2 => n.hw.flt2
                      /\ first => n.hw.flt2
           SameUdt(n) == n.hw.udt = m.hw.udt
           NewUdt(n) == n.hw.udt = IF Mode(x) = "STA" THEN m.hw.udt \cup {m.v[x].id} ELSE m.hw.udt
<1>1. \/ r = [error |-> TRUE, m |-> m]
      \/ r = [error |-> TRUE, m |-> stopped]
      \/ r = [error |-> TRUE, m |-> spoilt] /\ Beacons(x)
      \/ r = [error |-> FALSE, m |-> IF first THEN done ELSE beaconing]
  <2>1. r = CASE how = "channel" -> [error |-> TRUE, m |-> m]
              [] how # "channel" /\ nulls /\ push.error -> [error |-> TRUE, m |-> stopped]
              [] how = "beacon" /\ Beacons(x) -> [error |-> TRUE, m |-> spoilt]
              [] OTHER -> [error |-> FALSE, m |-> IF first THEN done ELSE beaconing]
    BY Zenon DEF rtwn_run
  <2>2. nulls => ~Beacons(x)
    BY DEF Beacons
  <2> HIDE DEF nulls, push, stopped, spoilt, first, done, beaconing
  <2> QED BY <2>1, <2>2
<1>2. Framed(m, m) /\ FrameL(m, m, x)
  BY DEF Framed, FrameV, FrameD, FrameR, FrameH, FrameL
<1>3. FrameL(m, linked, x) /\ linked.d.vr = m.d.vr /\ linked.hw = m.hw /\ Linked(linked)
  <2> DEFINE id == m.v[x].id
             mode == CurrMode(x)
  <2>1. linked = rtwn_set_mode(m, mode, id) /\ id \in Ports
    OBVIOUS
  <2> HIDE DEF linked, id, mode
  <2>2. /\ FrameL(m, linked, x) /\ linked.d.vr = m.d.vr /\ linked.hw = m.hw
        /\ \A y \in Vaps : linked.v[y].curr = IF y = m.d.slot[id] THEN mode ELSE m.v[y].curr
    BY <2>1, ModeChangeIsL
  <2> QED BY <2>2 DEF id, mode
<1> HIDE DEF linked, first
<1>4. Kept(opened) /\ SameUdt(opened)
  <2>1. Shaped(linked)
    BY <1>3 DEF FrameL
  <2>2. Shaped(open) /\ open.v = linked.v /\ open.d = linked.d /\ open.hw.flt2 /\ open.hw.udt = linked.hw.udt
        /\ open.hw.rcr = linked.hw.rcr /\ open.hw.flt0 = linked.hw.flt0
    BY <2>1 DEF Shaped, HFields
  <2> HIDE DEF open
  <2>3. FrameL(m, open, x) /\ Linked(open) /\ open.d.vr = m.d.vr
    BY <1>3, <2>2 DEF FrameL, FrameR
  <2> QED BY <1>3, <2>2, <2>3
<1> HIDE DEF opened
<1>5. ASSUME NEW n, Kept(n), NEW o, Framed(n, o)
      PROVE  Kept(o) /\ o.hw.udt = n.hw.udt
  <2>1. FrameL(n, o, x) /\ SameRest(n, o)
    BY <1>5, FramedIsL
  <2>2. FrameL(m, o, x)
    BY <1>5, <2>1, FrameLTransitive
  <2> QED BY <1>5, <2>1, <2>2 DEF SameRest, SameCurr
<1>6. Kept(push.m) /\ SameUdt(push.m)
  <2>1. Shaped(opened)
    BY <1>4 DEF FrameL
  <2>2. Framed(opened, push.m)
    BY <2>1, PushFrame
  <2> HIDE DEF push, Kept
  <2> QED BY <1>4, <1>5, <2>2
<1> HIDE DEF push
<1>7. ASSUME NEW n, Kept(n), NEW s
      PROVE  Kept([n EXCEPT !.d.past = @ \cup s]) /\ [n EXCEPT !.d.past = @ \cup s].hw.udt = n.hw.udt
  <2>1. Shaped(n)
    BY <1>7 DEF FrameL
  <2>2. Framed(n, [n EXCEPT !.d.past = @ \cup s])
    BY <2>1, PastFrame
  <2> HIDE DEF Kept
  <2> QED BY <1>5, <1>7, <2>2
<1>8. ASSUME NEW n, Kept(n)
      PROVE  /\ "failed" \in [n EXCEPT !.d.past = @ \cup {"failed"}].d.past
  <2>1. Shaped(n)
    BY <1>8 DEF FrameL
  <2> QED BY <2>1, PastFrame
<1>9. Kept(stopped) /\ SameUdt(stopped) /\ "failed" \in stopped.d.past
  <2> HIDE DEF Kept
  <2> QED BY <1>6, <1>7, <1>8
<1> HIDE DEF stopped
<1>10. Kept(saved) /\ SameUdt(saved)
  <2>1. Shaped(push.m)
    BY <1>6 DEF FrameL
  <2>2. Framed(push.m, timed)
    BY <2>1 DEF Framed, Shaped, FrameV, FrameD, FrameR, FrameH, DFields
  <2> HIDE DEF Kept, timed
  <2>3. Kept(timed) /\ SameUdt(timed)
    BY <1>5, <1>6, <2>2
  <2> QED BY <1>4, <2>3
<1> HIDE DEF saved
<1>11. Kept(synced) /\ NewUdt(synced)
  <2>1. Shaped(saved)
    BY <1>10 DEF FrameL
  <2>2. /\ FrameL(saved, synced, x) /\ synced.d.vr = saved.d.vr /\ SameCurr(saved, synced)
        /\ synced.hw.flt2 = saved.hw.flt2
        /\ synced.hw.udt = IF Mode(x) = "STA" THEN saved.hw.udt \cup {saved.v[x].id} ELSE saved.hw.udt
    BY <2>1, SyncEffect
  <2>3. FrameL(m, synced, x)
    BY <1>10, <2>2, FrameLTransitive
  <2>4. saved.v[x].id = m.v[x].id
    BY <1>10 DEF FrameL
  <2> QED BY <1>10, <2>2, <2>3, <2>4 DEF SameCurr
<1> HIDE DEF synced
<1>12. Kept(beaconing) /\ NewUdt(beaconing)
  <2>1. Shaped(synced)
    BY <1>11 DEF FrameL
  <2>2. Framed(synced, setup)
    BY <2>1, TxBeaconFrame DEF rtwn_setup_beacon
  <2> HIDE DEF Kept, setup
  <2>3. Kept(setup) /\ NewUdt(setup)
    BY <1>5, <1>11, <2>2
  <2> QED BY <1>11, <2>3
<1> HIDE DEF beaconing
<1>13. Kept(done) /\ NewUdt(done)
  <2>1. Shaped(beaconing)
    BY <1>12 DEF FrameL
  <2>2. Framed(beaconing, done)
    BY <2>1 DEF Framed, Shaped, FrameV, FrameD, FrameR, FrameH, DFields
  <2> HIDE DEF Kept, done
  <2> QED BY <1>5, <1>12, <2>2
<1>14. Kept(spoilt) /\ NewUdt(spoilt) /\ "failed" \in spoilt.d.past
  <2> HIDE DEF Kept
  <2> QED BY <1>7, <1>8, <1>12
<1> HIDE DEF spoilt, done
<1>15. CASE r = [error |-> TRUE, m |-> m]
  BY <1>2, <1>15 DEF SameCurr, RunsTo, SameElsewhere
<1>16. CASE r = [error |-> TRUE, m |-> stopped]
  BY <1>9, <1>16 DEF RunsTo, SameElsewhere
<1>17. CASE r = [error |-> TRUE, m |-> spoilt] /\ Beacons(x)
  BY <1>14, <1>17 DEF Beacons, RunsTo, SameElsewhere
<1>18. CASE r = [error |-> FALSE, m |-> IF first THEN done ELSE beaconing]
  BY <1>12, <1>13, <1>18 DEF first, RunsTo, SameElsewhere
<1> QED
  BY <1>1, <1>15, <1>16, <1>17, <1>18

LEMMA DfsFrame ==
    ASSUME NEW m, Shaped(m), NEW x, NEW n
    PROVE  Framed(m, r21au_newstate(m, x, n))
<1> DEFINE on == [m EXCEPT !.d.radar = TRUE, !.hw.radar = TRUE, !.d.chk = TRUE]
           off == [m EXCEPT !.d.radar = FALSE, !.hw.radar = FALSE, !.d.chk = FALSE]
<1>1. Framed(m, m) /\ Framed(m, on) /\ Framed(m, off)
  BY DEF Framed, Shaped, FrameV, FrameD, FrameR, FrameH, DFields, HFields
<1>2. r21au_newstate(m, x, n) \in {m, on, off}
  BY DEF r21au_newstate
<1> QED
  BY <1>1, <1>2

\* rtwn_newstate() up to its unlock.
Leaving(o, n) == (o = "RUN" /\ n # "CSA") \/ o = "CSA"
Moved(m, x, n, leaving, before, ran, r) ==
    /\ r.error \in BOOLEAN /\ FrameL(m, r.m, x) /\ r.m.d.vr = before + NoneOr(ran, 1)
    /\ SameElsewhere(m, r.m, x)
    /\ r.error => n = "RUN"
    /\ r.error /\ leaving => "lost" \in r.m.d.past
    /\ m.hw.flt2 /\ (leaving => before # m.d.mr) => r.m.hw.flt2
    /\ ran /\ before = m.d.mr => r.m.hw.flt2
    /\ r.m.hw.udt \subseteq (m.hw.udt \ (IF leaving THEN {m.v[x].id} ELSE {}))
                            \cup (IF ran /\ Mode(x) = "STA" THEN {m.v[x].id} ELSE {})
    /\ ran => \A y \in Vaps :
         r.m.v[y].curr = IF y = m.d.slot[m.v[x].id] THEN CurrMode(x) ELSE m.v[y].curr
    /\ ~ran => \/ "failed" \in r.m.d.past
               \/ \A y \in Vaps : r.m.v[y].curr = IF leaving /\ y = m.d.slot[m.v[x].id]
                                                  THEN "NOLINK" ELSE m.v[y].curr
LEMMA NewstateEffect ==
    ASSUME NEW m, Shaped(m), NEW x \in Vaps, m.v[x].id \in Ports, Mode(x) \in {"STA", "AP", "IBSS"},
           m.d.vr \in Int, m.d.mr \in Int,
           NEW n, NEW how, NEW restored \in BOOLEAN,
           NEW leaving \in BOOLEAN, leaving <=> Leaving(m.v[x].state, n),
           NEW before \in Int, before = m.d.vr + NoneOr(leaving, -1),
           NEW r, r = rtwn_newstate(m, x, n, how, restored),
           NEW ran \in BOOLEAN, ran <=> (n = "RUN" /\ ~r.error)
    PROVE  Moved(m, x, n, leaving, before, ran, r)
<1> DEFINE id == m.v[x].id
           cancel == [m EXCEPT !.v[x].csa = FALSE, !.hw.pause = {}]
           cancelled == IF m.v[x].state = "CSA" THEN cancel ELSE m
           away == Leave(cancelled, x)
           left == IF Leaving(m.v[x].state, n) THEN away ELSE cancelled
           run == rtwn_run(left, x, how, restored)
           scan == IF left.d.vr # 0 THEN left ELSE [left EXCEPT !.hw.pause = @ \cup AC]
           csa == [left EXCEPT !.hw.pause = @ \cup AC \cup {"mgt", "high"}]
           up == [run.m EXCEPT !.d.vr = @ + 1]
           lost == [run.m EXCEPT !.d.past = @ \cup {"lost"}]
<1>1. /\ n = "SCAN" => r = [error |-> FALSE, m |-> scan]
      /\ n = "CSA" => r = [error |-> FALSE, m |-> csa]
      /\ n = "RUN" /\ ~run.error => r = [error |-> FALSE, m |-> up]
      /\ n = "RUN" /\ run.error => r = [error |-> TRUE, m |-> IF leaving THEN lost ELSE run.m]
      /\ n \notin {"SCAN", "CSA", "RUN"} => r = [error |-> FALSE, m |-> left]
  <2>1. r = CASE n = "SCAN" -> [error |-> FALSE, m |-> scan]
              [] n = "RUN" /\ ~run.error -> [error |-> FALSE, m |-> up]
              [] n = "RUN" /\ run.error ->
                    [error |-> TRUE, m |-> IF Leaving(m.v[x].state, n) THEN lost ELSE run.m]
              [] n = "CSA" -> [error |-> FALSE, m |-> csa]
              [] OTHER -> [error |-> FALSE, m |-> left]
    BY Zenon DEF rtwn_newstate, Leaving
  <2> HIDE DEF scan, csa, up, lost, run, left
  <2> QED BY <2>1
<1>2. Framed(m, cancelled)
  <2>1. Framed(m, cancel) /\ Framed(m, m)
    BY DEF Framed, Shaped, FrameV, FrameD, FrameR, FrameH, VFields, HFields
  <2> QED BY <2>1
<1> HIDE DEF cancelled, id
<1>3. FrameL(m, cancelled, x) /\ SameRest(m, cancelled)
  BY <1>2, FramedIsL
<1>4. /\ FrameL(m, left, x) /\ left.d.vr = before
      /\ m.hw.flt2 /\ (leaving => before # m.d.mr) => left.hw.flt2
      /\ left.hw.udt = m.hw.udt \ (IF leaving THEN {id} ELSE {})
      /\ \A y \in Vaps : left.v[y].curr = IF leaving /\ y = m.d.slot[id] THEN "NOLINK" ELSE m.v[y].curr
  <2>1. CASE leaving
    <3>1. /\ cancelled.v[x].id = id /\ cancelled.d.vr = m.d.vr /\ cancelled.d.mr = m.d.mr
          /\ cancelled.d.slot = m.d.slot /\ Shaped(cancelled)
      BY <1>3 DEF FrameL, SameRest, id
    <3>2. /\ FrameL(cancelled, away, x) /\ away.d.vr = m.d.vr - 1
          /\ away.hw.udt = cancelled.hw.udt \ {id}
          /\ m.d.vr - 1 # m.d.mr => away.hw.flt2 = cancelled.hw.flt2
          /\ \A y \in Vaps : away.v[y].curr = IF y = m.d.slot[id] THEN "NOLINK" ELSE cancelled.v[y].curr
      <4>1. cancelled.v[x].id \in Ports /\ cancelled.d.vr \in Int /\ cancelled.d.mr \in Int
        BY <3>1 DEF id
      <4> HIDE DEF away
      <4>2. away = Leave(cancelled, x)
        BY DEF away
      <4> QED BY <3>1, <4>1, <4>2, LeaveEffect
    <3> HIDE DEF away
    <3>3. FrameL(m, away, x)
      BY <1>3, <3>2, FrameLTransitive
    <3>4. before = m.d.vr - 1
      BY <2>1 DEF NoneOr
    <3> QED BY <1>3, <2>1, <3>2, <3>3, <3>4 DEF SameRest, SameCurr
  <2>2. CASE ~leaving
    <3>1. before = m.d.vr
      BY <2>2 DEF NoneOr
    <3> QED BY <1>3, <2>2, <3>1 DEF SameRest, SameCurr
  <2> QED BY <2>1, <2>2
<1> HIDE DEF left
<1>5. Shaped(left) /\ left.v[x].id = id /\ left.d.mr = m.d.mr /\ left.d.slot = m.d.slot
  BY <1>4 DEF FrameL, id
<1>6. ASSUME NEW o, Framed(left, o), ~ran, r = [error |-> FALSE, m |-> o], n # "RUN"
      PROVE  r.error = FALSE /\ FrameL(m, r.m, x) /\ SameRest(left, r.m) /\ NoneOr(ran, 1) = 0
  <2>1. FrameL(left, o, x) /\ SameRest(left, o)
    BY <1>6, FramedIsL
  <2>2. FrameL(m, o, x)
    BY <1>4, <2>1, FrameLTransitive
  <2> QED BY <1>6, <2>1, <2>2 DEF NoneOr
<1>7. ASSUME n # "RUN"
      PROVE  ~ran /\ r.error = FALSE /\ FrameL(m, r.m, x) /\ SameRest(left, r.m) /\ NoneOr(ran, 1) = 0
  <2>1. ~ran
    BY <1>7
  <2>2. Framed(left, left) /\ Framed(left, scan) /\ Framed(left, csa)
    BY <1>5 DEF Framed, Shaped, FrameV, FrameD, FrameR, FrameH, HFields
  <2> HIDE DEF scan, csa, up, lost, run
  <2> QED BY <1>1, <1>6, <1>7, <2>1, <2>2
<1>8. CASE n # "RUN"
  <2>1. ~ran /\ r.error = FALSE /\ FrameL(m, r.m, x) /\ NoneOr(ran, 1) = 0
    BY <1>7, <1>8
  <2>2. SameRest(left, r.m)
    BY <1>7, <1>8
  <2>3. /\ r.m.d.vr = left.d.vr /\ r.m.hw.flt2 = left.hw.flt2 /\ r.m.hw.udt = left.hw.udt
        /\ \A y \in Vaps : r.m.v[y].curr = left.v[y].curr
    BY <2>2 DEF SameRest, SameCurr
  <2>4. r.m.d.vr = before + NoneOr(ran, 1)
    BY <1>4, <2>1, <2>3
  <2>5. \A y \in Vaps : r.m.v[y].curr = IF leaving /\ y = m.d.slot[m.v[x].id] THEN "NOLINK" ELSE m.v[y].curr
    BY <1>4, <2>3 DEF id
  <2>6. r.m.hw.udt \subseteq m.hw.udt \ (IF leaving THEN {m.v[x].id} ELSE {})
    BY <1>4, <2>3 DEF id
  <2>7. SameElsewhere(m, r.m, x)
    BY <2>5 DEF SameElsewhere
  <2> QED BY <1>4, <1>8, <2>1, <2>3, <2>4, <2>5, <2>6, <2>7 DEF Moved
<1>9. ASSUME n = "RUN"
      PROVE  /\ run.error \in BOOLEAN /\ FrameL(left, run.m, x) /\ run.m.d.vr = left.d.vr
             /\ left.hw.flt2 => run.m.hw.flt2
             /\ ~run.error /\ left.d.vr = left.d.mr => run.m.hw.flt2
             /\ run.error => run.m.hw.udt = left.hw.udt
             /\ ~run.error =>
                  run.m.hw.udt = IF Mode(x) = "STA" THEN left.hw.udt \cup {id} ELSE left.hw.udt
             /\ run.error => "failed" \in run.m.d.past \/ SameCurr(left, run.m)
             /\ ~run.error => \A y \in Vaps :
                  run.m.v[y].curr = IF y = m.d.slot[id] THEN CurrMode(x) ELSE left.v[y].curr
             /\ \A y \in Vaps : y # m.d.slot[id] => run.m.v[y].curr = left.v[y].curr
  <2>1. run = rtwn_run(left, x, how, restored) /\ left.v[x].id \in Ports
    BY <1>5 DEF id
  <2> HIDE DEF run
  <2>2. RunsTo(left, x, run)
    BY <1>5, <2>1, RunEffect
  <2> QED BY <1>5, <2>2 DEF RunsTo, SameElsewhere
<1> HIDE DEF run
<1>10. ASSUME n = "RUN"
       PROVE  FrameL(m, run.m, x) /\ Shaped(run.m)
  <2>1. FrameL(m, run.m, x)
    BY <1>4, <1>9, <1>10, FrameLTransitive
  <2> QED BY <2>1 DEF FrameL
<1>11. CASE n = "RUN" /\ ~run.error
  <2>1. r = [error |-> FALSE, m |-> up]
    BY <1>1, <1>11
  <2>6. r.error = FALSE /\ r.m = up
    BY <2>1
  <2>7. ran
    BY <1>11, <2>6
  <2>2. FrameL(m, up, x) /\ up.d.vr = run.m.d.vr + 1 /\ up.v = run.m.v /\ up.hw = run.m.hw
    BY <1>10, <1>11 DEF FrameL, FrameR, Shaped, DFields
  <2> HIDE DEF up
  <2>3. NoneOr(ran, 1) = 1
    BY <2>7 DEF NoneOr
  <2>4. \A y \in Vaps : up.v[y].curr = IF y = m.d.slot[id] THEN CurrMode(x) ELSE m.v[y].curr
    BY <1>4, <1>9, <1>11, <2>2
  <2>5. up.hw.udt \subseteq (m.hw.udt \ (IF leaving THEN {id} ELSE {}))
                            \cup (IF Mode(x) = "STA" THEN {id} ELSE {})
    BY <1>4, <1>9, <1>11, <2>2
  <2>8. SameElsewhere(m, r.m, x)
    BY <2>4, <2>6 DEF SameElsewhere, id
  <2>9. r.m.d.vr = before + NoneOr(ran, 1)
    BY <1>4, <1>9, <1>11, <2>2, <2>3, <2>6
  <2>10. /\ m.hw.flt2 /\ (leaving => before # m.d.mr) => r.m.hw.flt2
         /\ before = m.d.mr => r.m.hw.flt2
    BY <1>4, <1>5, <1>9, <1>11, <2>2, <2>6
  <2> QED BY <2>2, <2>4, <2>5, <2>6, <2>7, <2>8, <2>9, <2>10 DEF id, Moved
<1>12. CASE n = "RUN" /\ run.error
  <2>1. r = [error |-> TRUE, m |-> IF leaving THEN lost ELSE run.m]
    BY <1>1, <1>12
  <2>2. /\ FrameL(m, lost, x) /\ lost.d.vr = run.m.d.vr /\ lost.v = run.m.v /\ lost.hw = run.m.hw
        /\ "lost" \in lost.d.past /\ run.m.d.past \subseteq lost.d.past
    BY <1>10, <1>12 DEF FrameL, FrameR, Shaped, DFields
  <2> HIDE DEF lost
  <2>4. r.error = TRUE /\ (r.m = lost \/ (r.m = run.m /\ ~leaving))
    BY <2>1
  <2>5. ~ran
    BY <1>12, <2>4
  <2>6. NoneOr(ran, 1) = 0
    BY <2>5 DEF NoneOr
  <2>3. /\ r.m.d.vr = run.m.d.vr /\ r.m.v = run.m.v /\ r.m.hw = run.m.hw
        /\ run.m.d.past \subseteq r.m.d.past /\ (leaving => "lost" \in r.m.d.past)
        /\ FrameL(m, r.m, x)
    BY <1>10, <1>12, <2>2, <2>4
  <2>7. r.m.d.vr = before + NoneOr(ran, 1)
    BY <1>4, <1>9, <1>12, <2>3, <2>6
  <2>8. \/ "failed" \in r.m.d.past
        \/ \A y \in Vaps : r.m.v[y].curr = IF leaving /\ y = m.d.slot[id] THEN "NOLINK" ELSE m.v[y].curr
    BY <1>4, <1>9, <1>12, <2>3 DEF SameCurr
  <2>9. r.m.hw.udt \subseteq m.hw.udt \ (IF leaving THEN {id} ELSE {})
    BY <1>4, <1>9, <1>12, <2>3
  <2>10. m.hw.flt2 /\ (leaving => before # m.d.mr) => r.m.hw.flt2
    BY <1>4, <1>9, <1>12, <2>3
  <2>11. SameElsewhere(m, r.m, x)
    BY <1>4, <1>9, <1>12, <2>3 DEF SameElsewhere, id
  <2> QED BY <1>12, <2>3, <2>4, <2>5, <2>7, <2>8, <2>9, <2>10, <2>11 DEF id, Moved
<1> QED
  BY <1>8, <1>9, <1>11, <1>12

--------------------------------------------------------------------------
(* What must go on, and what holds the queues: each part rests on IInv.      *)

\* Radar is enabled for a vap above CSA, and while no scan has paused it the
\* chip looks for it and a check is set or under way.
RadarSound ==
    /\ d.radar => plan.dfs /\ \E x \in Vaps : Mode(x) # "MON" /\ ~Below(State(x))
    /\ d.running /\ d.radar /\ Unharmed({"failed"}) =>
         /\ ~d.scanning => hw.radar /\ (d.chk \/ d.check # "none")
         /\ d.chk \/ d.check # "none" => hw.radar
\* A linked vap has the next calibration set, or in the command queue.
CalibSound == Linking # {} /\ Unharmed({"lost", "failed", "raced"}) => d.calto \/ d.calcmd
\* A linked IBSS vap has its next synchronisation set, waiting, or being run,
\* and the task changes the state of no vap that was deleted.
Awaits(x) == v[x].callout \/ v[x].task \/ (tq.what = "tsf" /\ tq.vap = x)
SyncSound ==
    /\ \A x \in Linking : Mode(x) = "IBSS" /\ Unharmed({"lost", "failed", "raced"}) => Awaits(x)
    /\ tq.what = "state" => v[tq.vap].life = "up"
\* vaps_running = vr + mr decides whether a scan pauses the queues: the monitors
\* in it are those in RUN, so it is 0 only without linked vaps.
Monitoring == {x \in Vaps : Mode(x) = "MON" /\ State(x) = "RUN"}
MonitorsSound ==
    /\ IsFiniteSet(Monitoring) /\ d.mr = Cardinality(Monitoring)
    /\ \A x \in Vaps : Mode(x) = "MON" => State(x) \in {"INIT", "RUN"}
\* Only a scan holds beacons back, and outside CSA nothing else is held.
PauseSound ==
    Unharmed({"lost", "failed"}) =>
      /\ "bcn" \in hw.pause => d.scanning
      /\ Linking # {} /\ (\A x \in Linking : State(x) # "CSA") => hw.pause \subseteq {"bcn"}
JInv == RadarSound /\ CalibSound /\ SyncSound /\ MonitorsSound /\ PauseSound

LEMMA LinkingIs ==
    ASSUME LivesSound
    PROVE  Linking = {x \in Vaps : Mode(x) # "MON" /\ State(x) \in {"RUN", "CSA"}}
<1>1. \A x \in Vaps : State(x) \in {"RUN", "CSA"} => v[x].life = "up"
  BY DEF LivesSound, LifeSound
<1> QED
  BY <1>1 DEF Linking, Ported, Counted

\* Steps that leave every vap in its state.
StandStill == plan' = plan /\ d.past \subseteq d'.past /\ \A y \in Vaps : State(y)' = State(y)

LEMMA StillLinking ==
    ASSUME LivesSound, LivesSound', StandStill
    PROVE  Linking' = Linking /\ Monitoring' = Monitoring
<1>1. Linking' = {x \in Vaps : Mode(x) # "MON" /\ State(x) \in {"RUN", "CSA"}}'
  <2>1. \A x \in Vaps : State(x)' \in {"RUN", "CSA"} => v'[x].life = "up"
    BY DEF LivesSound, LifeSound
  <2> QED BY <2>1 DEF Linking, Ported, Counted
<1> QED
  BY <1>1, LinkingIs DEF StandStill, Mode, Monitoring

LEMMA RadarKept ==
    ASSUME RadarSound, StandStill, d'.running = d.running, d'.radar = d.radar, d'.scanning = d.scanning,
           d'.chk = d.chk, d'.check = d.check, hw'.radar = hw.radar
    PROVE  RadarSound'
<1>1. Unharmed({"failed"})' => Unharmed({"failed"})
  BY DEF StandStill, Unharmed
<1> QED
  BY <1>1 DEF RadarSound, StandStill, Mode

LEMMA CalibKept ==
    ASSUME CalibSound, LivesSound, LivesSound', StandStill, d.calto \/ d.calcmd => d'.calto \/ d'.calcmd
    PROVE  CalibSound'
<1>1. Unharmed({"lost", "failed", "raced"})' => Unharmed({"lost", "failed", "raced"})
  BY DEF StandStill, Unharmed
<1> QED
  BY <1>1, StillLinking DEF CalibSound

LEMMA SyncKept ==
    ASSUME SyncSound, LivesSound, LivesSound', StandStill,
           \A y \in Linking : Mode(y) = "IBSS" /\ Awaits(y) /\ Unharmed({"lost", "failed", "raced"}) => Awaits(y)',
           tq'.what = "state" => v'[tq'.vap].life = "up"
    PROVE  SyncSound'
<1>1. Unharmed({"lost", "failed", "raced"})' => Unharmed({"lost", "failed", "raced"})
  BY DEF StandStill, Unharmed
<1>2. Linking' = Linking /\ \A y : Mode(y)' = Mode(y)
  BY StillLinking DEF StandStill, Mode
<1> QED
  BY <1>1, <1>2 DEF SyncSound

LEMMA MonitorsKept ==
    ASSUME MonitorsSound, LivesSound, LivesSound', StandStill, d'.mr = d.mr
    PROVE  MonitorsSound'
BY StillLinking DEF MonitorsSound, StandStill, Mode

LEMMA PauseKept ==
    ASSUME PauseSound, LivesSound, LivesSound', StandStill, hw'.pause \subseteq hw.pause,
           "bcn" \in hw'.pause /\ d.scanning /\ Unharmed({"failed"})' => d'.scanning
    PROVE  PauseSound'
<1>1. /\ Unharmed({"lost", "failed"})' => Unharmed({"lost", "failed"})
      /\ Unharmed({"lost", "failed"})' => Unharmed({"failed"})'
  BY DEF StandStill, Unharmed
<1>2. Linking' = Linking /\ \A y \in Linking : y \in Vaps
  BY StillLinking, LinkingIs
<1> QED
  BY <1>1, <1>2 DEF PauseSound, StandStill

\* The fields these depend on.
Steady(m, n) ==
    /\ Shaped(n) /\ \A y \in Vaps : n.v[y].state = m.v[y].state
    /\ n.d.running = m.d.running /\ n.d.scanning = m.d.scanning /\ n.d.mr = m.d.mr
    /\ n.d.calto = m.d.calto /\ n.d.calcmd = m.d.calcmd
    /\ n.d.radar = m.d.radar /\ n.d.chk = m.d.chk /\ n.d.check = m.d.check
    /\ m.d.past \subseteq n.d.past
    /\ n.hw.radar = m.hw.radar /\ n.hw.pause = m.hw.pause
SteadyVaps(m, n) ==
    \A y \in Vaps : n.v[y].life = m.v[y].life /\ n.v[y].callout = m.v[y].callout /\ n.v[y].task = m.v[y].task

LEMMA SteadyTransitive ==
    ASSUME NEW m, NEW n, NEW o, Steady(m, n), Steady(n, o)
    PROVE  Steady(m, o) /\ (SteadyVaps(m, n) /\ SteadyVaps(n, o) => SteadyVaps(m, o))
BY DEF Steady, SteadyVaps

LEMMA SteadyKeeps ==
    ASSUME IInv, IInv', JInv, UNCHANGED <<plan, tq>>, NEW n, Become(n), Steady(Now, n),
           \A y \in Linking : v'[y].callout = v[y].callout /\ v'[y].task = v[y].task,
           tq.what = "state" /\ v[tq.vap].life = "up" => v'[tq.vap].life = "up"
    PROVE  JInv'
<1>1. LivesSound /\ LivesSound'
  BY DEF IInv
<1>2. v' = n.v /\ d' = n.d /\ hw' = n.hw
  BY DEF Become
<1>3. StandStill
  BY <1>2 DEF StandStill, Steady, State, Now
<1>4. RadarSound'
  BY <1>2, <1>3, RadarKept DEF JInv, Steady, Now
<1>5. CalibSound'
  BY <1>1, <1>2, <1>3, CalibKept DEF JInv, Steady, Now
<1>6. SyncSound'
  <2>1. \A y \in Linking : Awaits(y)' = Awaits(y)
    BY DEF Awaits
  <2> QED BY <1>1, <1>3, <2>1, SyncKept DEF JInv, SyncSound
<1>7. MonitorsSound'
  BY <1>1, <1>2, <1>3, MonitorsKept DEF JInv, Steady, Now
<1>8. PauseSound'
  BY <1>1, <1>2, <1>3, PauseKept DEF JInv, Steady, Now
<1> QED
  BY <1>4, <1>5, <1>6, <1>7, <1>8 DEF JInv

LEMMA SteadyVapsKeep ==
    ASSUME IInv, IInv', JInv, UNCHANGED <<plan, tq>>, NEW n, Become(n), Steady(Now, n), SteadyVaps(Now, n)
    PROVE  JInv'
<1>1. v' = n.v /\ \A y \in Linking : y \in Vaps
  BY LinkingIs DEF Become, IInv
<1>2. /\ \A y \in Linking : v'[y].callout = v[y].callout /\ v'[y].task = v[y].task
      /\ tq.what = "state" /\ v[tq.vap].life = "up" => v'[tq.vap].life = "up"
  BY <1>1 DEF SteadyVaps, Now, IInv, TypeOK
<1> QED
  BY <1>2, SteadyKeeps

--------------------------------------------------------------------------
(* Steps that change nothing of it.                                         *)

LEMMA SteadySelf == ASSUME NEW m, Shaped(m) PROVE Steady(m, m) /\ SteadyVaps(m, m)
BY DEF Steady, SteadyVaps

LEMMA BeginUpdateSteady ==
    ASSUME NEW m, Shaped(m), NEW x \in Vaps
    PROVE  Steady(m, BeginUpdate(m, x)) /\ SteadyVaps(m, BeginUpdate(m, x))
BY DEF BeginUpdate, rtwn_beacon_enable, Steady, SteadyVaps, Shaped, VFields, DFields, HFields

LEMMA CloseAllSteady ==
    ASSUME NEW m, Shaped(m)
    PROVE  Steady(m, CloseAll(m)) /\ SteadyVaps(m, CloseAll(m))
BY DEF CloseAll, Steady, SteadyVaps, Shaped, VFields, DFields, HFields

LEMMA PwrmodeSteady ==
    ASSUME NEW m, Shaped(m), NEW x, NEW off
    PROVE  Steady(m, set_pwrmode(m, x, off)) /\ SteadyVaps(m, set_pwrmode(m, x, off))
BY DEF set_pwrmode, Steady, SteadyVaps, Shaped, VFields, DFields, HFields

LEMMA UpdateEndSteady ==
    ASSUME NEW m, Shaped(m), NEW x \in Vaps
    PROVE  Steady(m, UpdateEnd(m, x)) /\ SteadyVaps(m, UpdateEnd(m, x))
BY DEF UpdateEnd, rtwn_tx_beacon, rtwn_beacon_enable, Steady, SteadyVaps, Shaped, VFields, DFields, HFields

LEMMA FilterSteady ==
    ASSUME NEW m, Shaped(m)
    PROVE  Steady(m, rtwn_rxfilter_set(m)) /\ SteadyVaps(m, rtwn_rxfilter_set(m))
BY DEF rtwn_rxfilter_set, Steady, SteadyVaps, Shaped, VFields, DFields, HFields

LEMMA WithRcrSteady ==
    ASSUME NEW m, Shaped(m), NEW r
    PROVE  Steady(m, rtwn_rxfilter_set(WithRcr(m, r))) /\ SteadyVaps(m, rtwn_rxfilter_set(WithRcr(m, r)))
<1>1. Steady(m, WithRcr(m, r)) /\ SteadyVaps(m, WithRcr(m, r))
  BY DEF WithRcr, Steady, SteadyVaps, Shaped, VFields, DFields, HFields
<1> HIDE DEF WithRcr
<1> QED
  BY <1>1, FilterSteady, SteadyTransitive DEF Steady

LEMMA BssidAllSteady ==
    ASSUME NEW m, Shaped(m), NEW e
    PROVE  Steady(m, rtwn_set_rx_bssid_all(m, e)) /\ SteadyVaps(m, rtwn_set_rx_bssid_all(m, e))
<1> DEFINE r == IF e THEN m.d.rcr \ {"bcn"} ELSE m.d.rcr \cup {"bcn"}
<1>1. rtwn_set_rx_bssid_all(m, e) = rtwn_rxfilter_set(WithRcr(m, r))
  BY DEF rtwn_set_rx_bssid_all, WithRcr
<1> HIDE DEF r
<1> QED
  BY <1>1, WithRcrSteady

LEMMA PromiscSteady ==
    ASSUME NEW m, Shaped(m)
    PROVE  Steady(m, rtwn_set_promisc(m)) /\ SteadyVaps(m, rtwn_set_promisc(m))
<1> DEFINE min == {"apm"} \cup (IF m.d.bcn = 0 THEN {"bcn"} ELSE {}) \cup (IF m.d.ap = 0 THEN {"data"} ELSE {})
           r == IF ~m.d.promisc /\ m.d.mon = 0
                THEN (m.d.rcr \ {"all", "bcn", "data"}) \cup min ELSE (m.d.rcr \ min) \cup {"all"}
<1>1. rtwn_set_promisc(m) = rtwn_rxfilter_set(WithRcr(m, r))
  BY DEF rtwn_set_promisc, WithRcr
<1> HIDE DEF r
<1> QED
  BY <1>1, WithRcrSteady

LEMMA UpdateSteady ==
    ASSUME NEW m, Shaped(m)
    PROVE  Steady(m, UpdateIfRunning(m)) /\ SteadyVaps(m, UpdateIfRunning(m))
<1> DEFINE u == rtwn_rxfilter_update_mgt(m)
<1>1. Steady(m, u) /\ SteadyVaps(m, u)
  BY DEF rtwn_rxfilter_update_mgt, Steady, SteadyVaps, Shaped, VFields, DFields, HFields
<1>2. UpdateIfRunning(m) = IF m.d.running THEN rtwn_set_promisc(u) ELSE m
  BY DEF UpdateIfRunning, rtwn_rxfilter_update
<1> HIDE DEF u
<1>3. Steady(m, rtwn_set_promisc(u)) /\ SteadyVaps(m, rtwn_set_promisc(u))
  BY <1>1, PromiscSteady, SteadyTransitive DEF Steady
<1> QED
  BY <1>2, <1>3, SteadySelf

SteadyStep == UNCHANGED <<plan, tq>> /\ \E n : Become(n) /\ Steady(Now, n) /\ SteadyVaps(Now, n)

LEMMA OtherOfSteady ==
    ASSUME TypeOK, NEW x \in Vaps, OtherOf(x)
    PROVE  SteadyStep
<1> DEFINE F(n) == Steady(Now, n) /\ SteadyVaps(Now, n)
<1>1. Shaped(Now) /\ F(Now)
  BY NowShaped, SteadySelf
<1>2. ASSUME NEW m, F(m), NEW b
      PROVE  /\ F([m EXCEPT !.v[x].open = b]) /\ F([m EXCEPT !.v[x].csa = b]) /\ F([m EXCEPT !.v[x].pm = b])
             /\ F([m EXCEPT !.v[x].csa = b, !.d.csapending = b]) /\ F([m EXCEPT !.d.past = @ \cup b])
  BY <1>2 DEF Steady, SteadyVaps, Shaped, VFields, DFields, HFields
<1>3. ASSUME NEW m, F(m), NEW n, Steady(m, n) /\ SteadyVaps(m, n)
      PROVE  F(n)
  BY <1>3, SteadyTransitive
<1>4. CASE Open(x)
  BY <1>1, <1>2, <1>4 DEF Open, SteadyStep
<1>5. CASE Close(x)
  BY <1>1, <1>2, <1>5 DEF Close, SteadyStep
<1>6. CASE rtwn_update_beacon(x)
  <2>1. F(BeginUpdate(Now, x))
    BY <1>1, BeginUpdateSteady
  <2>2. F([BeginUpdate(Now, x) EXCEPT !.v[x].csa = TRUE, !.d.csapending = TRUE])
    BY <1>2, <2>1
  <2> QED BY <1>6, <2>1, <2>2 DEF rtwn_update_beacon, SteadyStep
<1>7. CASE rtwn_tx_beacon_csa(x)
  <2> DEFINE fired == [Now EXCEPT !.v[x].csa = FALSE]
  <2>1. F(fired) /\ Shaped(fired)
    BY <1>1 DEF Steady, SteadyVaps, Shaped, VFields, DFields, HFields
  <2>2. F(BeginUpdate(fired, x))
    BY <1>3, <2>1, BeginUpdateSteady
  <2>3. \A b : F([BeginUpdate(fired, x) EXCEPT !.v[x].csa = b])
    BY <1>2, <2>2
  <2> QED BY <1>7, <2>1, <2>3 DEF rtwn_tx_beacon_csa, SteadyStep
<1>8. CASE rtwn_update_beacon_end(x)
  BY <1>1, <1>8, UpdateEndSteady DEF rtwn_update_beacon_end, SteadyStep
<1>9. CASE rtwn_ioctl_reset(x)
  <2> DEFINE set == [Now EXCEPT !.v[x].pm = ~@]
             told == IF d.running THEN set_pwrmode(set, x, TRUE) ELSE set
             late == IF told.hw.ps /\ v[x].curr = "NOLINK" THEN {"late"} ELSE {}
  <2>1. F(set) /\ Shaped(set)
    BY <1>1 DEF Steady, SteadyVaps, Shaped, VFields, DFields, HFields
  <2>2. F(set_pwrmode(set, x, TRUE))
    BY <1>3, <2>1, PwrmodeSteady
  <2>3. F(told)
    BY Zenon, <2>1, <2>2
  <2>4. F([told EXCEPT !.d.past = @ \cup late])
    BY Zenon, <1>2, <2>3
  <2> QED BY Zenon, <1>9, <2>4 DEF rtwn_ioctl_reset, SteadyStep
<1> QED
  BY <1>4, <1>5, <1>6, <1>7, <1>8, <1>9 DEF OtherOf

LEMMA MoreSteady ==
    ASSUME TypeOK, \/ ChannelSwitched \/ rtwn_pwrmode_init \/ rtwn_set_pwrmode_cb
                   \/ SetPromisc \/ rtwn_update_promisc \/ r12a_ioctl_net
    PROVE  SteadyStep
<1> DEFINE F(n) == Steady(Now, n) /\ SteadyVaps(Now, n)
<1>1. Shaped(Now) /\ F(Now)
  BY NowShaped, SteadySelf
<1>3. ASSUME NEW m, F(m), NEW n, Steady(m, n) /\ SteadyVaps(m, n)
      PROVE  F(n)
  BY <1>3, SteadyTransitive
<1>4. CASE ChannelSwitched
  <2>1. F([Now EXCEPT !.d.csapending = FALSE])
    BY <1>1 DEF Steady, SteadyVaps, Shaped, VFields, DFields, HFields
  <2> QED BY <1>4, <2>1 DEF ChannelSwitched, SteadyStep
<1>5. CASE rtwn_pwrmode_init
  <2>1. F([Now EXCEPT !.d.pwrto = FALSE, !.d.pwrcmd = TRUE])
    BY <1>1 DEF Steady, SteadyVaps, Shaped, VFields, DFields, HFields
  <2> QED BY <1>5, <2>1 DEF rtwn_pwrmode_init, SteadyStep
<1>6. CASE rtwn_set_pwrmode_cb
  <2> DEFINE done == [Now EXCEPT !.d.pwrcmd = FALSE]
  <2>1. F(done) /\ Shaped(done)
    BY <1>1 DEF Steady, SteadyVaps, Shaped, VFields, DFields, HFields
  <2>2. F(set_pwrmode(done, d.slot[0], TRUE))
    BY <1>3, <2>1, PwrmodeSteady
  <2> QED BY <1>6, <2>1, <2>2 DEF rtwn_set_pwrmode_cb, SteadyStep
<1>7. CASE SetPromisc
  <2>1. F([Now EXCEPT !.d.promisc = ~@, !.d.ptask = TRUE])
    BY <1>1 DEF Steady, SteadyVaps, Shaped, VFields, DFields, HFields
  <2> QED BY <1>7, <2>1 DEF SetPromisc, SteadyStep
<1>8. CASE rtwn_update_promisc
  <2> DEFINE done == [Now EXCEPT !.d.ptask = FALSE]
  <2>1. F(done) /\ Shaped(done)
    BY <1>1 DEF Steady, SteadyVaps, Shaped, VFields, DFields, HFields
  <2>2. F(rtwn_set_promisc(done))
    BY <1>3, <2>1, PromiscSteady
  <2> QED BY <1>8, <2>1, <2>2 DEF rtwn_update_promisc, SteadyStep
<1>9. CASE r12a_ioctl_net
  <2> DEFINE set == [Now EXCEPT !.d.rcr = IF "offload" \in @ THEN @ \ {"offload"} ELSE @ \cup {"offload"}]
  <2>1. F(set) /\ Shaped(set)
    BY <1>1 DEF Steady, SteadyVaps, Shaped, VFields, DFields, HFields
  <2>2. F(rtwn_rxfilter_set(set))
    BY <1>3, <2>1, FilterSteady
  <2> QED BY <1>9, <2>1, <2>2 DEF r12a_ioctl_net, SteadyStep
<1> QED
  BY <1>4, <1>5, <1>6, <1>7, <1>8, <1>9

--------------------------------------------------------------------------
(* Creation, deletion, and the steps of an IBSS.                            *)

LEMMA SteadyTurns ==
    ASSUME IInv, IInv', JInv, plan' = plan, NEW n, Become(n), Steady(Now, n), \A y \in Vaps : State(y)' = State(y),
           \A y \in Linking : Mode(y) = "IBSS" /\ Awaits(y) /\ Unharmed({"lost", "failed", "raced"}) => Awaits(y)',
           tq'.what = "state" => v'[tq'.vap].life = "up"
    PROVE  JInv'
<1>1. LivesSound /\ LivesSound'
  BY DEF IInv
<1>2. v' = n.v /\ d' = n.d /\ hw' = n.hw
  BY DEF Become
<1>3. StandStill
  BY <1>2 DEF StandStill, Steady, Now
<1>4. RadarSound'
  BY <1>2, <1>3, RadarKept DEF JInv, Steady, Now
<1>5. CalibSound'
  BY <1>1, <1>2, <1>3, CalibKept DEF JInv, Steady, Now
<1>6. SyncSound'
  BY <1>1, <1>3, SyncKept DEF JInv
<1>7. MonitorsSound'
  BY <1>1, <1>2, <1>3, MonitorsKept DEF JInv, Steady, Now
<1>8. PauseSound'
  BY <1>1, <1>2, <1>3, PauseKept DEF JInv, Steady, Now
<1> QED
  BY <1>4, <1>5, <1>6, <1>7, <1>8 DEF JInv

LEMMA CountSteady ==
    ASSUME NEW m, Shaped(m), NEW x, NEW k
    PROVE  Steady(m, Count(m, x, k)) /\ Count(m, x, k).v = m.v
BY ZenonT(30) DEF Count, Steady, Shaped, DFields

LEMMA DecrementSteady ==
    ASSUME IInv, NEW x \in Vaps, x \in Counted
    PROVE  Steady(Now, rtwn_vap_decrement_counters(Now, x)) /\ rtwn_vap_decrement_counters(Now, x).v = v
<1> DEFINE s == IF Choosing(Now, x) THEN {"raced"} ELSE {}
           slots == IF v[x].id = INVALID THEN d.slot ELSE [d.slot EXCEPT ![v[x].id] = NoVap]
           m == [Now EXCEPT !.d.slot = slots, !.d.past = @ \cup s]
<1>1. rtwn_vap_decrement_counters(Now, x) = Count(m, x, -1)
  BY Zenon DEF rtwn_vap_decrement_counters, Now
<1>2. Shaped(Now)
  BY NowShaped DEF IInv
<1>3. slots \in [Ports -> Vaps \cup {NoVap}]
  BY <1>2 DEF Shaped, Now
<1> HIDE DEF slots, s
<1>4. Steady(Now, m) /\ m.v = v
  BY <1>2, <1>3 DEF Steady, Shaped, DFields, Now
<1> HIDE DEF m
<1> QED
  BY <1>1, <1>4, CountSteady, SteadyTransitive DEF Steady

LEMMA LifeMoves ==
    ASSUME IInv, IInv', JInv, NEW x \in Vaps, NEW n, Become(n), Steady(Now, n), UNCHANGED <<plan, tq>>,
           x \notin Linking, tq.what = "state" /\ tq.vap = x => v[x].life # "up",
           \A y \in Vaps : y # x => n.v[y] = v[y]
    PROVE  JInv'
<1>1. v' = n.v /\ \A y \in Linking : y \in Vaps /\ y # x
  BY LinkingIs DEF Become, IInv
<1>2. /\ \A y \in Linking : v'[y].callout = v[y].callout /\ v'[y].task = v[y].task
      /\ tq.what = "state" /\ v[tq.vap].life = "up" => v'[tq.vap].life = "up"
  BY <1>1 DEF IInv, TypeOK
<1> QED
  BY <1>2, SteadyKeeps

LEMMA NotUpOutside ==
    ASSUME IInv, NEW x \in Vaps, v[x].life # "up" \/ State(x) = "INIT"
    PROVE  x \notin Linking
BY LinkingIs DEF IInv, LivesSound, LifeSound

LEMMA ChooseGoesOn ==
    ASSUME IInv, IInv', JInv, NEW x \in Vaps, ChoosePort(x)
    PROVE  JInv'
<1> DEFINE id == IF Mode(x) = "MON" THEN INVALID ELSE FreePort(d.nv, d.slot)
           m == [Now EXCEPT !.v[x].life = "id", !.v[x].id = id]
<1>1. v[x].life = "none" /\ Become(Count(m, x, 1)) /\ UNCHANGED <<plan, tq>>
  BY DEF ChoosePort
<1>2. Shaped(Now)
  BY NowShaped DEF IInv
<1> HIDE DEF id
<1>3. Steady(Now, m) /\ \A y \in Vaps : y # x => m.v[y] = v[y]
  BY <1>2 DEF Steady, Shaped, VFields, Now
<1> HIDE DEF m
<1>4. Steady(m, Count(m, x, 1)) /\ Count(m, x, 1).v = m.v
  BY <1>3, CountSteady DEF Steady
<1>5. Steady(Now, Count(m, x, 1))
  BY <1>3, <1>4, SteadyTransitive
<1> QED
  BY <1>1, <1>3, <1>4, <1>5, NotUpOutside, LifeMoves

LEMMA StoreGoesOn ==
    ASSUME IInv, IInv', JInv, NEW x \in Vaps, StoreVap(x)
    PROVE  JInv'
<1> DEFINE slots == IF v[x].id = INVALID THEN d.slot ELSE [d.slot EXCEPT ![v[x].id] = x]
           m == [Now EXCEPT !.v[x].life = "set", !.d.slot = slots]
<1>1. v[x].life = "id" /\ Become(m) /\ UNCHANGED <<plan, tq>>
  BY DEF StoreVap, Now
<1>2. Shaped(Now)
  BY NowShaped DEF IInv
<1>3. slots \in [Ports -> Vaps \cup {NoVap}]
  BY <1>2 DEF Shaped, Now
<1> HIDE DEF slots
<1>4. Steady(Now, m) /\ \A y \in Vaps : y # x => m.v[y] = v[y]
  BY <1>2, <1>3 DEF Steady, Shaped, VFields, DFields, Now
<1> HIDE DEF m
<1> QED
  BY <1>1, <1>4, NotUpOutside, LifeMoves

LEMMA AttachGoesOn ==
    ASSUME IInv, IInv', JInv, NEW x \in Vaps, AttachVap(x)
    PROVE  JInv'
<1> DEFINE up == [Now EXCEPT !.v[x].life = "up"]
           less == rtwn_vap_decrement_counters(Now, x)
           s == IF Mode(x) = "MON" THEN {"undone"} ELSE {}
           gone == [less EXCEPT !.v[x] = Blank, !.d.past = @ \cup s]
<1>1. v[x].life = "set" /\ UNCHANGED <<plan, tq>> /\ (Become(UpdateIfRunning(up)) \/ Become(gone))
  BY DEF AttachVap
<1>2. Shaped(Now) /\ x \in Counted /\ v[x].state = "INIT"
  BY <1>1, NowShaped DEF IInv, Counted, LivesSound, LifeSound
<1>3. Steady(Now, up) /\ \A y \in Vaps : y # x => up.v[y] = v[y]
  BY <1>2 DEF Steady, Shaped, VFields, Now
<1> HIDE DEF up, s
<1>4. /\ Steady(Now, UpdateIfRunning(up)) /\ UpdateIfRunning(up).v = up.v
  <2>1. Shaped(up)
    BY <1>3 DEF Steady
  <2> QED BY <1>3, <2>1, UpdateSteady, UpdateIfEffect, SteadyTransitive
<1>5. Steady(Now, less) /\ less.v = v
  BY <1>2, DecrementSteady
<1> HIDE DEF less
<1>6. Steady(Now, gone) /\ \A y \in Vaps : y # x => gone.v[y] = v[y]
  BY <1>2, <1>5 DEF Steady, Shaped, Blank, VFields, DFields, Now
<1> HIDE DEF gone
<1>7. x \notin Linking
  BY <1>1, NotUpOutside
<1>8. CASE Become(UpdateIfRunning(up))
  BY <1>1, <1>3, <1>4, <1>7, <1>8, LifeMoves
<1>9. CASE Become(gone)
  BY <1>1, <1>6, <1>7, <1>9, LifeMoves
<1> QED
  BY <1>1, <1>8, <1>9

LEMMA DeleteGoesOn ==
    ASSUME IInv, IInv', JInv, NEW x \in Vaps, rtwn_vap_delete(x)
    PROVE  JInv'
<1> DEFINE gone == IF Mode(x) = "IBSS" THEN [v[x] EXCEPT !.life = "dying"] ELSE [Blank EXCEPT !.csa = v[x].csa]
           less == rtwn_vap_decrement_counters(Now, x)
           m == [less EXCEPT !.v[x] = gone]
<1>1. /\ v[x].life = "up" /\ v[x].state = "INIT" /\ UNCHANGED <<plan, tq>> /\ Become(UpdateIfRunning(m))
      /\ tq # [what |-> "state", vap |-> x, to |-> tq.to]
  BY DEF rtwn_vap_delete
<1>2. ~(tq.what = "state" /\ tq.vap = x)
  BY <1>1 DEF IInv, TypeOK
<1>3. Shaped(Now) /\ x \in Counted /\ x \notin Linking
  <2>1. State(x) = "INIT"
    BY <1>1, <1>2 DEF State
  <2> QED BY <1>1, <2>1, NowShaped, NotUpOutside DEF IInv, Counted
<1>4. Steady(Now, less) /\ less.v = v
  BY <1>3, DecrementSteady
<1> HIDE DEF less
<1>5. DOMAIN gone = VFields /\ gone.state = "INIT"
  BY <1>1, <1>3 DEF Shaped, Blank, VFields, Now
<1> HIDE DEF gone
<1>6. Steady(Now, m) /\ \A y \in Vaps : y # x => m.v[y] = v[y]
  BY <1>1, <1>4, <1>5 DEF Steady, Shaped, Now
<1> HIDE DEF m
<1>7. Steady(Now, UpdateIfRunning(m)) /\ UpdateIfRunning(m).v = m.v
  <2>1. Shaped(m)
    BY <1>6 DEF Steady
  <2> QED BY <1>6, <2>1, UpdateSteady, UpdateIfEffect, SteadyTransitive
<1> QED
  BY <1>1, <1>2, <1>3, <1>6, <1>7, LifeMoves

LEMMA FreeGoesOn ==
    ASSUME IInv, IInv', JInv, NEW x \in Vaps, FreeVap(x)
    PROVE  JInv'
<1> DEFINE m == [Now EXCEPT !.v[x] = Blank]
<1>1. v[x].life = "dying" /\ Become(m) /\ UNCHANGED <<plan, tq>>
  BY DEF FreeVap
<1>2. Shaped(Now) /\ v[x].state = "INIT"
  BY <1>1, NowShaped DEF IInv, LivesSound, LifeSound
<1>3. Steady(Now, m) /\ \A y \in Vaps : y # x => m.v[y] = v[y]
  BY <1>2 DEF Steady, Shaped, Blank, VFields, Now
<1> HIDE DEF m
<1> QED
  BY <1>1, <1>3, NotUpOutside, LifeMoves

LEMMA AdhocGoesOn ==
    ASSUME IInv, IInv', JInv, NEW x \in Vaps, rtwn_tsf_sync_adhoc(x)
    PROVE  JInv'
<1> DEFINE task == v[x].task \/ v[x].curr # "NOLINK"
           m == [Now EXCEPT !.v[x].callout = FALSE, !.v[x].task = task]
<1>1. Become(m) /\ UNCHANGED <<plan, tq>>
  BY DEF rtwn_tsf_sync_adhoc, Now
<1>2. Shaped(Now)
  BY NowShaped DEF IInv
<1>3. task <=> v[x].task \/ v[x].curr # "NOLINK"
  OBVIOUS
<1> HIDE DEF task
<1>4. Steady(Now, m) /\ (\A y \in Vaps : y # x => m.v[y] = v[y]) /\ m.v[x].task = task /\ m.v[x].life = v[x].life
      /\ \A y \in Vaps : m.v[y].life = v[y].life /\ m.v[y].state = v[y].state
  BY <1>2 DEF Steady, Shaped, VFields, Now
<1> HIDE DEF m
<1>5. v' = m.v
  BY <1>1 DEF Become
<1>6. \A y \in Vaps : State(y)' = State(y)
  BY <1>1, <1>4, <1>5 DEF State
<1>7. ASSUME NEW y \in Linking, Awaits(y), Unharmed({"lost", "failed", "raced"})
      PROVE  Awaits(y)'
  <2>1. y \in Vaps /\ y \in Ported
    BY LinkingIs DEF IInv, Linking
  <2>2. v[y].curr # "NOLINK"
    BY <1>7, <2>1 DEF IInv, LinksSound, Unharmed
  <2>3. CASE y = x
    BY <1>3, <1>4, <1>5, <2>2, <2>3 DEF Awaits
  <2>4. CASE y # x
    BY <1>1, <1>4, <1>5, <1>7, <2>1, <2>4 DEF Awaits
  <2> QED BY <2>3, <2>4
<1>8. tq'.what = "state" => v'[tq'.vap].life = "up"
  BY <1>1, <1>4, <1>5 DEF IInv, TypeOK, JInv, SyncSound
<1> QED
  BY <1>1, <1>4, <1>6, <1>7, <1>8, SteadyTurns

LEMMA TsfTaskGoesOn ==
    ASSUME IInv, IInv', JInv, NEW x \in Vaps, rtwn_tsf_sync_adhoc_task(x)
    PROVE  JInv'
<1> DEFINE o == rtwn_set_rx_bssid_all(Now, FALSE)
           m == TsfTask(Now, x)
<1>1. Become(m) /\ plan' = plan /\ tq = Idle /\ tq' = [what |-> "tsf", vap |-> x, to |-> "INIT"]
  BY DEF rtwn_tsf_sync_adhoc_task
<1>2. Shaped(Now)
  BY NowShaped DEF IInv
<1>3. Steady(Now, o) /\ SteadyVaps(Now, o)
  BY <1>2, BssidAllSteady
<1>4. m = [o EXCEPT !.v[x].task = FALSE, !.d.locked = TRUE, !.hw.udt = @ \cup {v[x].id}]
  BY DEF TsfTask, Now
<1> HIDE DEF o, m
<1>5. Steady(Now, m) /\ \A y \in Vaps :
        /\ m.v[y].callout = v[y].callout /\ m.v[y].state = v[y].state
        /\ y # x => m.v[y].task = v[y].task
  <2>1. Shaped(o)
    BY <1>3 DEF Steady
  <2>2. Steady(o, m) /\ \A y \in Vaps :
          /\ m.v[y].callout = o.v[y].callout
          /\ y # x => m.v[y].task = o.v[y].task
    <3>1. /\ DOMAIN m = {"v", "d", "hw"} /\ m.v = [o.v EXCEPT ![x].task = FALSE]
          /\ m.d = [o.d EXCEPT !.locked = TRUE] /\ m.hw = [o.hw EXCEPT !.udt = @ \cup {v[x].id}]
      BY <1>4, <2>1 DEF Shaped, DFields, HFields
    <3>2. Shaped(m)
      BY <2>1, <3>1 DEF Shaped, VFields, DFields, HFields
    <3>3. \A y \in Vaps : /\ m.v[y].callout = o.v[y].callout /\ m.v[y].state = o.v[y].state
                          /\ y # x => m.v[y].task = o.v[y].task
      <4>1. DOMAIN o.v = Vaps /\ DOMAIN o.v[x] = VFields
        BY <2>1 DEF Shaped
      <4>2. m.v[x] = [o.v[x] EXCEPT !.task = FALSE] /\ \A y \in Vaps : y # x => m.v[y] = o.v[y]
        BY <3>1, <4>1
      <4>3. m.v[x].callout = o.v[x].callout /\ m.v[x].state = o.v[x].state
        BY <4>1, <4>2 DEF VFields
      <4> QED BY <4>2, <4>3
    <3>4. /\ m.d.running = o.d.running /\ m.d.scanning = o.d.scanning /\ m.d.mr = o.d.mr
          /\ m.d.calto = o.d.calto /\ m.d.calcmd = o.d.calcmd
          /\ m.d.radar = o.d.radar /\ m.d.chk = o.d.chk /\ m.d.check = o.d.check /\ m.d.past = o.d.past
          /\ m.hw.radar = o.hw.radar /\ m.hw.pause = o.hw.pause
      BY <2>1, <3>1 DEF Shaped, DFields, HFields
    <3> QED BY <3>2, <3>3, <3>4 DEF Steady
  <2>3. Steady(Now, m)
    BY <1>3, <2>2, SteadyTransitive
  <2>4. \A y \in Vaps : o.v[y].callout = v[y].callout /\ o.v[y].task = v[y].task
    BY <1>3 DEF SteadyVaps, Now
  <2>5. \A y \in Vaps : m.v[y].state = v[y].state
    BY <2>3 DEF Steady, Now
  <2> QED BY <2>2, <2>3, <2>4, <2>5
<1>6. v' = m.v
  BY <1>1 DEF Become
<1>7. tq.what = "idle" /\ tq'.what = "tsf" /\ tq'.vap = x
  BY <1>1 DEF Idle
<1>8. \A y \in Vaps : State(y)' = State(y)
  BY <1>5, <1>6, <1>7 DEF State
<1>9. \A y \in Linking : Awaits(y) => Awaits(y)'
  <2>1. \A y \in Linking : y \in Vaps
    BY LinkingIs DEF IInv
  <2> QED BY <1>5, <1>6, <1>7, <2>1 DEF Awaits
<1> QED
  BY <1>1, <1>5, <1>7, <1>8, <1>9, SteadyTurns

LEMMA TsfDelayGoesOn ==
    ASSUME IInv, IInv', JInv, TsfDelayEnds
    PROVE  JInv'
<1> DEFINE x == tq.vap
           o == [Now EXCEPT !.d.locked = FALSE, !.hw.udt = @ \ {v[x].id}, !.v[x].callout = TRUE]
           m == TsfTaskEnd(Now, x)
<1>1. Become(m) /\ plan' = plan /\ tq.what = "tsf" /\ tq' = Idle /\ x \in Vaps
  BY DEF TsfDelayEnds, IInv, TypeOK
<1>2. Shaped(Now)
  BY NowShaped DEF IInv
<1> HIDE DEF x
<1>3. Steady(Now, o) /\ \A y \in Vaps :
        /\ o.v[y].callout = IF y = x THEN TRUE ELSE v[y].callout
        /\ o.v[y].task = v[y].task /\ o.v[y].state = v[y].state
  BY <1>1, <1>2 DEF Steady, Shaped, VFields, DFields, HFields, Now
<1>4. m = rtwn_set_rx_bssid_all(o, TRUE)
  BY DEF TsfTaskEnd, Now
<1> HIDE DEF o, m
<1>5. Steady(o, m) /\ SteadyVaps(o, m)
  <2>1. Shaped(o)
    BY <1>3 DEF Steady
  <2> QED BY <1>4, <2>1, BssidAllSteady
<1>6. Steady(Now, m)
  BY <1>3, <1>5, SteadyTransitive
<1>7. v' = m.v /\ tq'.what = "idle"
  BY <1>1 DEF Become, Idle
<1>8. \A y \in Vaps : State(y)' = State(y)
  BY <1>1, <1>3, <1>5, <1>7 DEF State, Steady
<1>9. \A y \in Linking : Awaits(y) => Awaits(y)'
  <2>1. \A y \in Linking : y \in Vaps
    BY LinkingIs DEF IInv
  <2> QED BY <1>3, <1>5, <1>7, <2>1 DEF Awaits, SteadyVaps, x
<1> QED
  BY <1>1, <1>6, <1>7, <1>8, <1>9, SteadyTurns

LEMMA SetStateGoesOn ==
    ASSUME IInv, IInv', JInv, SetState
    PROVE  JInv'
<1> DEFINE x == tq.vap
           m == [Now EXCEPT !.v[x].state = tq.to]
<1>1. tq.what = "state" /\ x \in Vaps /\ Become(m) /\ plan' = plan /\ tq' = Idle
  BY DEF SetState, IInv, TypeOK
<1>2. Shaped(Now) /\ tq'.what = "idle"
  BY <1>1, NowShaped DEF IInv, Idle
<1> HIDE DEF x
<1>3. m.d = d /\ m.hw = hw /\ \A y \in Vaps :
        /\ m.v[y].callout = v[y].callout /\ m.v[y].task = v[y].task
        /\ m.v[y].state = IF y = x THEN tq.to ELSE v[y].state
  BY <1>1, <1>2 DEF Shaped, VFields, Now
<1> HIDE DEF m
<1>4. v' = m.v /\ d' = d /\ hw' = hw
  BY <1>1, <1>3 DEF Become
<1>5. StandStill
  BY <1>1, <1>2, <1>3, <1>4 DEF StandStill, State, x
<1>6. \A y \in Linking : Awaits(y) => Awaits(y)'
  <2>1. \A y \in Linking : y \in Vaps
    BY LinkingIs DEF IInv
  <2> QED BY <1>1, <1>3, <1>4, <2>1 DEF Awaits
<1>7. LivesSound /\ LivesSound'
  BY DEF IInv
<1>8. RadarSound' /\ CalibSound' /\ MonitorsSound' /\ PauseSound'
  BY <1>4, <1>5, <1>7, RadarKept, CalibKept, MonitorsKept, PauseKept DEF JInv
<1>9. SyncSound'
  BY <1>2, <1>5, <1>6, <1>7, SyncKept DEF JInv
<1> QED
  BY <1>8, <1>9 DEF JInv

--------------------------------------------------------------------------
(* Radar checks, scans, calibration, the parent task and monitors.          *)

\* What is not about radar, calibration and pauses.
LEMMA RestGoesOn ==
    ASSUME IInv, IInv', JInv, UNCHANGED <<plan, tq>>, NEW n, Become(n), SteadyVaps(Now, n),
           \A y \in Vaps : n.v[y].state = v[y].state, d.past \subseteq n.d.past, n.d.mr = d.mr
    PROVE  StandStill /\ SyncSound' /\ MonitorsSound'
<1>1. v' = n.v /\ d' = n.d
  BY DEF Become
<1>2. StandStill
  BY <1>1 DEF StandStill, State
<1>3. LivesSound /\ LivesSound' /\ \A y \in Linking : y \in Vaps
  BY LinkingIs DEF IInv
<1>4. \A y \in Linking : Awaits(y)' = Awaits(y)
  BY <1>1, <1>3 DEF Awaits, SteadyVaps, Now
<1>5. tq'.what = "state" => v'[tq'.vap].life = "up"
  BY <1>1 DEF SteadyVaps, Now, JInv, SyncSound, IInv, TypeOK
<1>6. SyncSound'
  BY <1>2, <1>3, <1>4, <1>5, SyncKept DEF JInv
<1>7. MonitorsSound'
  BY <1>1, <1>2, <1>3, MonitorsKept DEF JInv
<1> QED
  BY <1>2, <1>6, <1>7

\* Steps that only concern the radar check.
LEMMA RadarTurns ==
    ASSUME IInv, IInv', JInv, UNCHANGED <<plan, tq>>, NEW n, Become(n), SteadyVaps(Now, n),
           \A y \in Vaps : n.v[y].state = v[y].state, d.past \subseteq n.d.past, n.d.mr = d.mr,
           n.d.running = d.running, n.d.radar = d.radar, n.d.scanning = d.scanning,
           n.d.calto = d.calto, n.d.calcmd = d.calcmd, n.hw.radar = hw.radar, n.hw.pause = hw.pause,
           d.chk \/ d.check # "none" => n.d.chk \/ n.d.check # "none" \/ ~hw.radar \/ ~d.radar,
           n.d.chk \/ n.d.check # "none" => d.chk \/ d.check # "none"
    PROVE  JInv'
<1>1. v' = n.v /\ d' = n.d /\ hw' = n.hw
  BY DEF Become
<1>2. StandStill /\ SyncSound' /\ MonitorsSound'
  BY RestGoesOn
<1>3. LivesSound /\ LivesSound'
  BY DEF IInv
<1>4. RadarSound'
  <2>1. Unharmed({"failed"})' => Unharmed({"failed"})
    BY <1>2 DEF StandStill, Unharmed
  <2>2. d'.radar => plan'.dfs /\ \E x \in Vaps : Mode(x)' # "MON" /\ ~Below(State(x)')
    <3>1. d.radar => plan.dfs /\ \E x \in Vaps : Mode(x) # "MON" /\ ~Below(State(x))
      BY DEF JInv, RadarSound
    <3> QED BY <1>1, <1>2, <3>1 DEF StandStill, Mode
  <2>3. d.running /\ d.radar /\ Unharmed({"failed"}) =>
          /\ ~d.scanning => hw.radar /\ (d.chk \/ d.check # "none")
          /\ d.chk \/ d.check # "none" => hw.radar
    BY DEF JInv, RadarSound
  <2> QED BY <1>1, <2>1, <2>2, <2>3 DEF RadarSound, Below
<1>5. CalibSound'
  BY <1>1, <1>2, <1>3, CalibKept DEF JInv
<1>6. PauseSound'
  BY <1>1, <1>2, <1>3, PauseKept DEF JInv
<1> QED
  BY <1>2, <1>4, <1>5, <1>6 DEF JInv

LEMMA CallCheckGoesOn ==
    ASSUME IInv, IInv', JInv, CallCheck
    PROVE  JInv'
<1> DEFINE n == [Now EXCEPT !.d.chk = FALSE, !.d.check = "called"]
<1>1. Become(n) /\ UNCHANGED <<plan, tq>> /\ d.chk
  BY DEF CallCheck
<1>2. /\ n.v = v /\ n.hw = hw /\ n.d.past = d.past /\ n.d.mr = d.mr /\ n.d.running = d.running
      /\ n.d.radar = d.radar /\ n.d.scanning = d.scanning /\ n.d.calto = d.calto /\ n.d.calcmd = d.calcmd
      /\ ~n.d.chk /\ n.d.check = "called"
  BY NowShaped DEF IInv, Shaped, DFields, Now
<1> HIDE DEF n
<1>3. SteadyVaps(Now, n) /\ d.past \subseteq n.d.past
  BY <1>2 DEF SteadyVaps, Now
<1>4. n.d.chk \/ n.d.check # "none"
  BY <1>2
<1> QED
  BY <1>1, <1>2, <1>3, <1>4, RadarTurns

LEMMA ReportedGoesOn ==
    ASSUME IInv, IInv', JInv, NEW n, n = [Now EXCEPT !.d.check = "none", !.d.chk = @ \/ d.radar],
           d.check # "none", Become(n), UNCHANGED <<plan, tq>>
    PROVE  JInv'
<1>2. /\ n.v = v /\ n.hw = hw /\ n.d.past = d.past /\ n.d.mr = d.mr /\ n.d.running = d.running
      /\ n.d.radar = d.radar /\ n.d.scanning = d.scanning /\ n.d.calto = d.calto /\ n.d.calcmd = d.calcmd
      /\ (n.d.chk <=> d.chk \/ d.radar) /\ n.d.check = "none"
  BY NowShaped DEF IInv, Shaped, DFields, Now
<1>3. SteadyVaps(Now, n)
  BY <1>2 DEF SteadyVaps, Now
<1> QED
  BY <1>2, <1>3, RadarTurns

LEMMA CheckGoesOn ==
    ASSUME IInv, IInv', JInv, r21au_chan_check
    PROVE  JInv'
<1> DEFINE over == [Now EXCEPT !.d.check = "none"]
           event == [Now EXCEPT !.d.check = "reporting"]
           again == [Now EXCEPT !.d.check = "none", !.d.chk = @ \/ d.radar]
<1>1. /\ UNCHANGED <<plan, tq>> /\ d.check = "called"
      /\ \/ Become(again)
         \/ Become(event)
         \/ ~hw.radar /\ (Become(over) \/ Become(CloseAll(over)))
  BY DEF r21au_chan_check
<1>2. CASE Become(again)
  BY <1>1, <1>2, ReportedGoesOn
<1> HIDE DEF again
<1>4. CASE Become(event)
  <2>1. /\ event.v = v /\ event.hw = hw /\ event.d.past = d.past /\ event.d.mr = d.mr
        /\ event.d.running = d.running /\ event.d.radar = d.radar /\ event.d.scanning = d.scanning
        /\ event.d.calto = d.calto /\ event.d.calcmd = d.calcmd
        /\ event.d.chk = d.chk /\ event.d.check = "reporting"
    BY NowShaped DEF IInv, Shaped, DFields, Now
  <2> HIDE DEF event
  <2>2. SteadyVaps(Now, event)
    BY <2>1 DEF SteadyVaps, Now
  <2> QED BY <1>1, <1>4, <2>1, <2>2, RadarTurns
<1> HIDE DEF event
<1>5. /\ over.v = v /\ over.hw = hw /\ over.d.past = d.past /\ over.d.mr = d.mr
      /\ over.d.running = d.running /\ over.d.radar = d.radar /\ over.d.scanning = d.scanning
      /\ over.d.calto = d.calto /\ over.d.calcmd = d.calcmd
      /\ over.d.chk = d.chk /\ over.d.check = "none" /\ Shaped(over)
  BY NowShaped DEF IInv, Shaped, DFields, Now
<1> HIDE DEF over
<1>6. CASE ~hw.radar /\ Become(over)
  <2>1. SteadyVaps(Now, over)
    BY <1>5 DEF SteadyVaps, Now
  <2> QED BY <1>1, <1>5, <1>6, <2>1, RadarTurns
<1>7. CASE ~hw.radar /\ Become(CloseAll(over))
  <2> DEFINE n == CloseAll(over)
  <2>1. Steady(over, n) /\ SteadyVaps(over, n)
    BY <1>5, CloseAllSteady
  <2> HIDE DEF n
  <2>2. /\ n.hw.radar = hw.radar /\ n.hw.pause = hw.pause /\ d.past \subseteq n.d.past /\ n.d.mr = d.mr
        /\ n.d.running = d.running /\ n.d.radar = d.radar /\ n.d.scanning = d.scanning
        /\ n.d.calto = d.calto /\ n.d.calcmd = d.calcmd
        /\ n.d.chk = d.chk /\ n.d.check = "none" /\ \A y \in Vaps : n.v[y].state = v[y].state
    BY <1>5, <2>1 DEF Steady
  <2>3. SteadyVaps(Now, n)
    BY <1>5, <2>1 DEF SteadyVaps, Now
  <2> QED BY <1>1, <1>7, <2>2, <2>3, RadarTurns DEF n
<1> QED
  BY <1>1, <1>2, <1>4, <1>6, <1>7

LEMMA CalibToGoesOn ==
    ASSUME IInv, IInv', JInv, rtwn_calib_to
    PROVE  JInv'
<1> DEFINE n == [Now EXCEPT !.d.calto = FALSE, !.d.calcmd = TRUE]
<1>1. Become(n) /\ UNCHANGED <<plan, tq>>
  BY DEF rtwn_calib_to
<1>2. /\ n.v = v /\ n.hw = hw /\ n.d.past = d.past /\ n.d.mr = d.mr /\ n.d.running = d.running
      /\ n.d.radar = d.radar /\ n.d.scanning = d.scanning /\ n.d.calcmd
      /\ n.d.chk = d.chk /\ n.d.check = d.check
  BY NowShaped DEF IInv, Shaped, DFields, Now
<1> HIDE DEF n
<1>3. v' = n.v /\ d' = n.d /\ hw' = n.hw
  BY <1>1 DEF Become
<1>4. StandStill /\ SyncSound' /\ MonitorsSound'
  <2>1. SteadyVaps(Now, n)
    BY <1>2 DEF SteadyVaps, Now
  <2> QED BY <1>1, <1>2, <2>1, RestGoesOn
<1>5. RadarSound' /\ PauseSound'
  BY <1>2, <1>3, <1>4, RadarKept, PauseKept DEF JInv, IInv
<1>6. CalibSound'
  BY <1>2, <1>3 DEF CalibSound
<1> QED
  BY <1>4, <1>5, <1>6 DEF JInv

LEMMA CalibCbGoesOn ==
    ASSUME IInv, IInv', JInv, rtwn_calib_cb
    PROVE  JInv'
<1> DEFINE again == d.calto \/ (d.running /\ d.vr > d.mr)
           done == [Now EXCEPT !.d.calcmd = FALSE, !.d.calto = again]
           free == [done EXCEPT !.hw.pause = {}]
<1>1. UNCHANGED <<plan, tq>> /\ (Become(done) \/ Become(free))
  BY DEF rtwn_calib_cb, Now
<1>2. again <=> d.calto \/ (d.running /\ d.vr > d.mr)
  OBVIOUS
<1> HIDE DEF again
<1>3. \A n \in {done, free} :
        /\ n.v = v /\ n.hw.pause \subseteq hw.pause /\ n.hw.radar = hw.radar
        /\ n.d.past = d.past /\ n.d.mr = d.mr /\ n.d.running = d.running
        /\ n.d.radar = d.radar /\ n.d.scanning = d.scanning /\ n.d.calto = again
        /\ n.d.chk = d.chk /\ n.d.check = d.check
  <2>1. /\ Shaped(done) /\ done.v = v /\ done.hw = hw
        /\ done.d.past = d.past /\ done.d.mr = d.mr /\ done.d.running = d.running
        /\ done.d.radar = d.radar /\ done.d.scanning = d.scanning /\ done.d.calto = again
        /\ done.d.chk = d.chk /\ done.d.check = d.check
    BY NowShaped DEF IInv, Shaped, DFields, Now
  <2> HIDE DEF done
  <2>2. free.v = done.v /\ free.d = done.d /\ free.hw.pause = {} /\ free.hw.radar = done.hw.radar
    BY <2>1 DEF Shaped, HFields
  <2> HIDE DEF free
  <2> QED BY <2>1, <2>2
<1> HIDE DEF done, free
<1>4. PICK n \in {done, free} : Become(n)
  BY <1>1
<1>5. /\ n.v = v /\ n.hw.pause \subseteq hw.pause /\ n.hw.radar = hw.radar
      /\ n.d.past = d.past /\ n.d.mr = d.mr /\ n.d.running = d.running
      /\ n.d.radar = d.radar /\ n.d.scanning = d.scanning /\ n.d.calto = again
      /\ n.d.chk = d.chk /\ n.d.check = d.check
  BY <1>3
<1>6. v' = n.v /\ d' = n.d /\ hw' = n.hw
  BY <1>4 DEF Become
<1>7. StandStill /\ SyncSound' /\ MonitorsSound'
  <2>1. SteadyVaps(Now, n)
    BY <1>5 DEF SteadyVaps, Now
  <2> QED BY <1>1, <1>4, <1>5, <2>1, RestGoesOn
<1>8. RadarSound' /\ PauseSound'
  BY <1>5, <1>6, <1>7, RadarKept, PauseKept DEF JInv, IInv
<1>9. CalibSound'
  <2>1. SUFFICES ASSUME Linking # {}, Unharmed({"lost"})
                 PROVE  again
    <3>1. Linking' = Linking
      BY <1>7, StillLinking DEF IInv
    <3> QED BY <1>5, <1>6, <3>1 DEF CalibSound, Unharmed
  <2>2. d.vr - d.mr = Cardinality(Linking) /\ d.vr \in Int /\ d.mr \in Int
    BY <2>1 DEF IInv, LinksSound, TypeOK
  <2>3. IsFiniteSet(Linking)
    <3>1. IsFiniteSet(Ported) /\ Linking \subseteq Ported
      BY CountedFinite DEF IInv, CountsSound, Linking
    <3> QED BY <3>1, FS_Subset
  <2>4. Cardinality(Linking) \in Nat /\ Cardinality(Linking) # 0
    BY <2>1, <2>3, FS_CardinalityType, FS_EmptySet
  <2>5. d.running
    <3>1. PICK y \in Vaps : State(y) \in {"RUN", "CSA"}
      BY <2>1, LinkingIs DEF IInv
    <3> QED BY <3>1 DEF State, IInv, LivesSound, LifeSound
  <2> QED BY <1>2, <2>2, <2>4, <2>5
<1> QED
  BY <1>7, <1>8, <1>9 DEF JInv

LEMMA ScanStartGoesOn ==
    ASSUME IInv, IInv', JInv, rtwn_scan_start
    PROVE  JInv'
<1> DEFINE off == [Now EXCEPT !.d.chk = FALSE, !.hw.radar = FALSE]
           quiet == IF d.radar THEN off ELSE Now
           paused == [quiet EXCEPT !.d.scanning = TRUE, !.hw.pause = @ \cup {"bcn"}]
           set == rtwn_set_rx_bssid_all(paused, TRUE)
           n == IF d.bcn = 0 THEN set ELSE paused
<1>1. UNCHANGED <<plan, tq>> /\ Become(n) /\ (d.radar => d.check = "none")
  BY DEF rtwn_scan_start
<1>2. Shaped(Now)
  BY NowShaped DEF IInv
<1>3. /\ Shaped(quiet) /\ quiet.v = v /\ quiet.d.past = d.past /\ quiet.d.mr = d.mr
      /\ quiet.d.running = d.running /\ quiet.d.radar = d.radar /\ quiet.d.calto = d.calto
      /\ quiet.d.calcmd = d.calcmd /\ quiet.d.check = d.check /\ quiet.hw.pause = hw.pause
      /\ d.radar => ~quiet.d.chk
  BY <1>2 DEF Shaped, DFields, HFields, Now
<1> HIDE DEF quiet
<1>4. /\ Shaped(paused) /\ paused.v = v /\ paused.d.past = d.past /\ paused.d.mr = d.mr
      /\ paused.d.running = d.running /\ paused.d.radar = d.radar /\ paused.d.calto = d.calto
      /\ paused.d.calcmd = d.calcmd /\ paused.d.check = d.check /\ paused.d.scanning
      /\ paused.hw.pause = hw.pause \cup {"bcn"}
      /\ d.radar => ~paused.d.chk
  BY <1>3 DEF Shaped, DFields, HFields
<1> HIDE DEF paused
<1>5. Steady(paused, n) /\ SteadyVaps(paused, n)
  BY <1>4, BssidAllSteady, SteadySelf
<1> HIDE DEF n, set
<1>6. v' = n.v /\ d' = n.d /\ hw' = n.hw
  BY <1>1 DEF Become
<1>7. /\ d.past \subseteq n.d.past /\ n.d.mr = d.mr /\ n.d.running = d.running /\ n.d.radar = d.radar
      /\ n.d.calto = d.calto /\ n.d.calcmd = d.calcmd /\ n.d.check = d.check
      /\ n.d.scanning /\ n.hw.pause = hw.pause \cup {"bcn"} /\ (d.radar => ~n.d.chk)
      /\ \A y \in Vaps : n.v[y].state = v[y].state
  BY <1>4, <1>5 DEF Steady
<1>8. SteadyVaps(Now, n)
  BY <1>4, <1>5 DEF SteadyVaps, Now
<1>9. StandStill /\ SyncSound' /\ MonitorsSound'
  BY <1>1, <1>7, <1>8, RestGoesOn
<1>10. RadarSound'
  <2>1. d'.radar => plan'.dfs /\ \E x \in Vaps : Mode(x)' # "MON" /\ ~Below(State(x)')
    <3>1. d.radar => plan.dfs /\ \E x \in Vaps : Mode(x) # "MON" /\ ~Below(State(x))
      BY DEF JInv, RadarSound
    <3> QED BY <1>6, <1>7, <1>9, <3>1 DEF StandStill, Mode
  <2> QED BY <1>1, <1>6, <1>7, <2>1 DEF RadarSound, Below
<1>11. CalibSound'
  BY <1>6, <1>7, <1>9, CalibKept DEF JInv, IInv
<1>12. PauseSound'
  <2>1. Linking' = Linking /\ \A y \in Linking : y \in Vaps
    BY <1>9, StillLinking, LinkingIs DEF IInv
  <2>2. Unharmed({"lost", "failed"})' => Unharmed({"lost", "failed"})
    BY <1>9 DEF StandStill, Unharmed
  <2> QED BY <1>6, <1>7, <1>9, <2>1, <2>2 DEF JInv, PauseSound, StandStill
<1> QED
  BY <1>9, <1>10, <1>11, <1>12 DEF JInv

LEMMA ScanEndGoesOn ==
    ASSUME IInv, IInv', JInv, rtwn_scan_end
    PROVE  JInv'
<1> DEFINE on == [Now EXCEPT !.d.chk = TRUE, !.hw.radar = TRUE]
           begun == IF d.radar THEN on ELSE Now
           failed == [Now EXCEPT !.d.scanning = FALSE, !.d.past = @ \cup {"failed"}]
           over == [begun EXCEPT !.d.scanning = FALSE, !.hw.pause = @ \ {"bcn"}]
           n == ScanEnd(begun)
           closed == CloseAll(failed)
<1>1. UNCHANGED <<plan, tq>> /\ (Become(n) \/ Become(closed))
  BY DEF rtwn_scan_end
<1>2. Shaped(Now)
  BY NowShaped DEF IInv
<1>3. CASE Become(n)
  <2>1. /\ Shaped(begun) /\ begun.v = v /\ begun.d.past = d.past /\ begun.d.mr = d.mr
        /\ begun.d.running = d.running /\ begun.d.radar = d.radar /\ begun.d.calto = d.calto
        /\ begun.d.calcmd = d.calcmd /\ begun.hw.pause = hw.pause
        /\ d.radar => begun.d.chk /\ begun.hw.radar
    BY <1>2 DEF Shaped, DFields, HFields, Now
  <2>2. n = over \/ n = rtwn_set_rx_bssid_all(over, FALSE)
    BY DEF ScanEnd
  <2> HIDE DEF begun, n
  <2>3. /\ Shaped(over) /\ over.v = v /\ over.d.past = d.past /\ over.d.mr = d.mr
        /\ over.d.running = d.running /\ over.d.radar = d.radar /\ over.d.calto = d.calto
        /\ over.d.calcmd = d.calcmd /\ over.hw.pause = hw.pause \ {"bcn"}
        /\ d.radar => over.d.chk /\ over.hw.radar
    BY <2>1 DEF Shaped, DFields, HFields
  <2> HIDE DEF over
  <2>4. Steady(over, n) /\ SteadyVaps(over, n)
    BY <2>2, <2>3, BssidAllSteady, SteadySelf
  <2>5. v' = n.v /\ d' = n.d /\ hw' = n.hw
    BY <1>3 DEF Become
  <2>6. /\ d.past \subseteq n.d.past /\ n.d.mr = d.mr /\ n.d.running = d.running /\ n.d.radar = d.radar
        /\ n.d.calto = d.calto /\ n.d.calcmd = d.calcmd
        /\ n.hw.pause = hw.pause \ {"bcn"} /\ (d.radar => n.d.chk /\ n.hw.radar)
        /\ \A y \in Vaps : n.v[y].state = v[y].state
    BY <2>3, <2>4 DEF Steady
  <2>7. SteadyVaps(Now, n)
    BY <2>3, <2>4 DEF SteadyVaps, Now
  <2>8. StandStill /\ SyncSound' /\ MonitorsSound'
    BY <1>1, <1>3, <2>6, <2>7, RestGoesOn
  <2>9. RadarSound'
    <3>1. d'.radar => plan'.dfs /\ \E x \in Vaps : Mode(x)' # "MON" /\ ~Below(State(x)')
      <4>1. d.radar => plan.dfs /\ \E x \in Vaps : Mode(x) # "MON" /\ ~Below(State(x))
        BY DEF JInv, RadarSound
      <4> QED BY <2>5, <2>6, <2>8, <4>1 DEF StandStill, Mode
    <3> QED BY <2>5, <2>6, <3>1 DEF RadarSound, Below
  <2>10. CalibSound'
    BY <2>5, <2>6, <2>8, CalibKept DEF JInv, IInv
  <2>11. PauseSound'
    <3>1. Linking' = Linking /\ \A y \in Linking : y \in Vaps
      BY <2>8, StillLinking, LinkingIs DEF IInv
    <3>2. Unharmed({"lost", "failed"})' => Unharmed({"lost", "failed"})
      BY <2>8 DEF StandStill, Unharmed
    <3> QED BY <2>5, <2>6, <2>8, <3>1, <3>2 DEF JInv, PauseSound, StandStill
  <2> QED BY <2>8, <2>9, <2>10, <2>11 DEF JInv
<1>4. CASE Become(closed)
  <2>1. /\ Shaped(failed) /\ failed.v = v /\ failed.d.past = d.past \cup {"failed"} /\ failed.d.mr = d.mr
        /\ failed.d.running = d.running /\ failed.d.radar = d.radar /\ failed.d.calto = d.calto
        /\ failed.d.calcmd = d.calcmd
    BY <1>2 DEF Shaped, DFields, Now
  <2> HIDE DEF failed
  <2>2. Steady(failed, closed) /\ SteadyVaps(failed, closed)
    BY <2>1, CloseAllSteady
  <2> HIDE DEF closed
  <2>3. v' = closed.v /\ d' = closed.d /\ hw' = closed.hw
    BY <1>4 DEF Become
  <2>4. /\ d.past \subseteq closed.d.past /\ "failed" \in closed.d.past
        /\ closed.d.mr = d.mr /\ closed.d.radar = d.radar
        /\ closed.d.calto = d.calto /\ closed.d.calcmd = d.calcmd
        /\ \A y \in Vaps : closed.v[y].state = v[y].state
    BY <2>1, <2>2 DEF Steady
  <2>5. SteadyVaps(Now, closed)
    BY <2>1, <2>2 DEF SteadyVaps, Now
  <2>6. StandStill /\ SyncSound' /\ MonitorsSound'
    BY <1>1, <1>4, <2>4, <2>5, RestGoesOn
  <2>7. ~Unharmed({"failed"})' /\ ~Unharmed({"lost", "failed"})'
    BY <2>3, <2>4 DEF Unharmed
  <2>8. RadarSound'
    <3>1. d'.radar => plan'.dfs /\ \E x \in Vaps : Mode(x)' # "MON" /\ ~Below(State(x)')
      <4>1. d.radar => plan.dfs /\ \E x \in Vaps : Mode(x) # "MON" /\ ~Below(State(x))
        BY DEF JInv, RadarSound
      <4> QED BY <2>3, <2>4, <2>6, <4>1 DEF StandStill, Mode
    <3> QED BY <2>7, <3>1 DEF RadarSound, Below
  <2>9. CalibSound'
    BY <2>3, <2>4, <2>6, CalibKept DEF JInv, IInv
  <2> QED BY <2>6, <2>7, <2>8, <2>9 DEF JInv, PauseSound
<1> QED
  BY <1>1, <1>3, <1>4

\* What rtwn_init() does to the fields that InitEffect leaves out.
LEMMA InitMore ==
    ASSUME NEW m, Shaped(m), NEW n, n = rtwn_init(m)
    PROVE  n.d.radar = m.d.radar /\ n.hw.pause = {}
<1> DEFINE off == [m EXCEPT !.hw = PoweredOn, !.d.past = @ \ {"failed", "hidden", "late", "undone"}]
           one == rtwn_set_mode(off, "NOLINK", 0)
           two == rtwn_set_mode(one, "NOLINK", 1)
           ready == [two EXCEPT !.hw.flt2 = FALSE, !.d.rcr = @ \cup {"apm"}]
           mgt == rtwn_rxfilter_update_mgt(ready)
           u == rtwn_set_promisc(mgt)
<1>1. n = [u EXCEPT !.d.running = TRUE]
  BY DEF rtwn_init, rtwn_rxfilter_init, rtwn_rxfilter_update
<1>2. Shaped(off) /\ off.hw.pause = {} /\ off.d.radar = m.d.radar
  BY DEF Shaped, DFields, PoweredOn, HFields
<1> HIDE DEF off
<1>3. Shaped(one) /\ one.d = off.d /\ one.hw = off.hw
  BY <1>2, SetModeEffect DEF Ports
<1> HIDE DEF one
<1>4. Shaped(two) /\ two.d = off.d /\ two.hw = off.hw
  BY <1>3, SetModeEffect DEF Ports
<1> HIDE DEF two
<1>5. Shaped(ready) /\ ready.hw.pause = {} /\ ready.d.radar = m.d.radar
  BY <1>2, <1>4 DEF Shaped, DFields, HFields
<1> HIDE DEF ready
<1>6. Shaped(mgt) /\ mgt.hw.pause = {} /\ mgt.d.radar = m.d.radar
  BY <1>5 DEF rtwn_rxfilter_update_mgt, Shaped, HFields
<1> HIDE DEF mgt
<1>7. Shaped(u) /\ u.hw.pause = {} /\ u.d.radar = m.d.radar
  BY <1>6, PromiscSteady DEF Steady
<1> HIDE DEF u
<1> QED
  BY <1>1, <1>7 DEF Shaped, DFields

LEMMA StartGoesOn ==
    ASSUME IInv, IInv', JInv, Become(rtwn_init(Now)), UNCHANGED <<plan, tq>>, tq = Idle, ~d.running
    PROVE  JInv'
<1> DEFINE n == rtwn_init(Now)
<1>1. Shaped(Now) /\ ~d.locked /\ tq.what = "idle" /\ tq'.what = "idle"
  BY NowShaped DEF IInv, RcrSound, Idle
<1>2. n.d.mr = d.mr /\ \A y \in Vaps : n.v[y].state = v[y].state
  <2>1. ~Now.d.locked /\ Now.v = v /\ Now.d = d
    BY <1>1 DEF Now
  <2> HIDE DEF n
  <2>2. n = rtwn_init(Now)
    BY DEF n
  <2> QED BY <1>1, <2>1, <2>2, InitEffect
<1>3. n.d.radar = d.radar /\ n.hw.pause = {}
  <2>1. Now.d = d
    BY DEF Now
  <2> HIDE DEF n
  <2>2. n = rtwn_init(Now)
    BY DEF n
  <2> QED BY <1>1, <2>1, <2>2, InitMore
<1>4. Become(n)
  OBVIOUS
<1> HIDE DEF n
<1>5. v' = n.v /\ d' = n.d /\ hw' = n.hw
  BY <1>4 DEF Become
<1>6. \A y \in Vaps : State(y) = "INIT" /\ State(y)' = "INIT"
  BY <1>1, <1>2, <1>5 DEF State, IInv, LivesSound, LifeSound
<1>7. Linking' = {}
  <2>1. \A y \in Ported' : y \in Vaps
    BY DEF Ported, Counted
  <2> QED BY <1>6, <2>1 DEF Linking
<1>8. Monitoring = {} /\ Monitoring' = {}
  BY <1>6 DEF Monitoring
<1>9. RadarSound'
  BY <1>3, <1>5, <1>6 DEF JInv, RadarSound, Below
<1>10. MonitorsSound'
  BY <1>2, <1>5, <1>6, <1>8 DEF JInv, MonitorsSound
<1>11. CalibSound' /\ SyncSound' /\ PauseSound'
  BY <1>1, <1>3, <1>5, <1>7 DEF CalibSound, SyncSound, PauseSound
<1> QED
  BY <1>9, <1>10, <1>11 DEF JInv

LEMMA StopGoesOn ==
    ASSUME IInv, IInv', JInv, Become(rtwn_stop(Now)), UNCHANGED <<plan, tq>>
    PROVE  JInv'
<1> DEFINE n == rtwn_stop(Now)
<1>1. /\ n.v = v /\ n.hw = hw /\ ~n.d.running /\ n.d.mr = d.mr /\ n.d.past = d.past
      /\ n.d.radar = d.radar /\ n.d.scanning = d.scanning /\ n.d.calto = d.calto /\ n.d.calcmd = d.calcmd
  BY NowShaped DEF IInv, rtwn_stop, Shaped, DFields, Now
<1>2. Become(n)
  OBVIOUS
<1> HIDE DEF n
<1>3. v' = n.v /\ d' = n.d /\ hw' = n.hw
  BY <1>2 DEF Become
<1>4. StandStill /\ SyncSound' /\ MonitorsSound'
  <2>1. SteadyVaps(Now, n) /\ d.past \subseteq n.d.past
    BY <1>1 DEF SteadyVaps, Now
  <2> QED BY <1>1, <1>2, <2>1, RestGoesOn
<1>5. RadarSound'
  <2>1. d'.radar => plan'.dfs /\ \E x \in Vaps : Mode(x)' # "MON" /\ ~Below(State(x)')
    <3>1. d.radar => plan.dfs /\ \E x \in Vaps : Mode(x) # "MON" /\ ~Below(State(x))
      BY DEF JInv, RadarSound
    <3> QED BY <1>1, <1>3, <1>4, <3>1 DEF StandStill, Mode
  <2> QED BY <1>1, <1>3, <2>1 DEF RadarSound, Below
<1>6. CalibSound' /\ PauseSound'
  BY <1>1, <1>3, <1>4, CalibKept, PauseKept DEF JInv, IInv
<1> QED
  BY <1>4, <1>5, <1>6 DEF JInv

LEMMA ParentGoesOn ==
    ASSUME IInv, IInv', JInv, rtwn_parent
    PROVE  JInv'
<1>1. UNCHANGED <<plan, tq>> /\ tq = Idle
  BY DEF rtwn_parent
<1>2. CASE ~d.running /\ Become(rtwn_init(Now))
  BY <1>1, <1>2, StartGoesOn
<1>3. CASE Become(CloseAll(Now))
  BY <1>1, <1>3, NowShaped, CloseAllSteady, SteadyVapsKeep DEF IInv
<1>4. CASE Become(rtwn_stop(Now))
  BY <1>1, <1>4, StopGoesOn
<1> QED
  BY <1>2, <1>3, <1>4 DEF rtwn_parent

LEMMA MonitorGoesOn ==
    ASSUME IInv, IInv', JInv, NEW x \in Vaps, NEW n \in States, rtwn_monitor_newstate(x, n)
    PROVE  JInv'
<1> DEFINE by == IF n = "RUN" THEN 1 ELSE -1
           m == [Now EXCEPT !.d.vr = @ + by, !.d.mr = @ + by]
<1>1. /\ tq = Idle /\ v[x].life = "up" /\ Mode(x) = "MON" /\ Become(m) /\ plan' = plan
      /\ tq' = [what |-> "state", vap |-> x, to |-> n]
      /\ <<v[x].state, n>> \in Moves(x) \/ (n = "INIT" /\ v[x].state # "INIT")
  BY DEF rtwn_monitor_newstate, Move
<1>2. tq.what = "idle" /\ tq'.what = "state" /\ tq'.vap = x /\ tq'.to = n /\ d.mr \in Int
  BY <1>1 DEF Idle, IInv, TypeOK
<1>3. n = "RUN" => by = 1
  OBVIOUS
<1>4. n # "RUN" => by = -1
  OBVIOUS
<1> HIDE DEF by
<1>5. /\ m.v = v /\ m.hw = hw /\ m.d.past = d.past /\ m.d.mr = d.mr + by /\ m.d.running = d.running
      /\ m.d.radar = d.radar /\ m.d.scanning = d.scanning /\ m.d.calto = d.calto /\ m.d.calcmd = d.calcmd
      /\ m.d.chk = d.chk /\ m.d.check = d.check
  BY NowShaped DEF IInv, Shaped, DFields, Now
<1> HIDE DEF m
<1>6. v' = v /\ d' = m.d /\ hw' = hw
  BY <1>1, <1>5 DEF Become
<1>7. /\ State(x) = v[x].state /\ State(x)' = n
      /\ \A y \in Vaps : y # x => State(y)' = State(y)
  BY <1>2, <1>6 DEF State
<1>8. \/ n = "RUN" /\ State(x) = "INIT"
      \/ n = "INIT" /\ State(x) = "RUN"
  <2>1. State(x) \in {"INIT", "RUN"}
    BY <1>1 DEF JInv, MonitorsSound
  <2>2. Moves(x) = {<<"INIT", "RUN">>}
    BY <1>1 DEF Moves
  <2> QED BY <1>1, <1>7, <2>1, <2>2
<1>9. \A y \in Vaps : Mode(y)' = Mode(y)
  BY <1>1 DEF Mode
<1>10. Linking' = Linking /\ \A y \in Linking : y \in Vaps /\ y # x
  <2>1. Ported' = Ported /\ Ported \subseteq Vaps /\ x \notin Ported
    BY <1>1, <1>6, SameSets DEF Ported, Counted
  <2> QED BY <1>7, <2>1 DEF Linking
<1>11. RadarSound'
  <2>1. d'.radar => plan'.dfs /\ \E y \in Vaps : Mode(y)' # "MON" /\ ~Below(State(y)')
    BY <1>1, <1>5, <1>6, <1>7, <1>9 DEF JInv, RadarSound
  <2> QED BY <1>5, <1>6, <2>1 DEF JInv, RadarSound, Below, Unharmed
<1>12. CalibSound'
  BY <1>5, <1>6, <1>10 DEF JInv, CalibSound, Unharmed
<1>13. SyncSound'
  <2>1. \A y \in Linking : Awaits(y) => Awaits(y)'
    BY <1>2, <1>6, <1>10 DEF Awaits
  <2> QED BY <1>1, <1>2, <1>5, <1>6, <1>9, <1>10, <2>1 DEF JInv, SyncSound, Unharmed
<1>14. PauseSound'
  BY <1>5, <1>6, <1>7, <1>10 DEF JInv, PauseSound, Unharmed
<1>15. MonitorsSound'
  <2>1. IsFiniteSet(Monitoring) /\ Cardinality(Monitoring) = d.mr
    BY DEF JInv, MonitorsSound
  <2>2. \A y \in Vaps : Mode(y)' = "MON" => State(y)' \in {"INIT", "RUN"}
    BY <1>7, <1>8, <1>9 DEF JInv, MonitorsSound
  <2>3. CASE n = "RUN" /\ State(x) = "INIT"
    <3>1. x \notin Monitoring /\ Monitoring' = Monitoring \cup {x}
      BY <1>1, <1>7, <1>9, <2>3 DEF Monitoring
    <3>2. Cardinality(Monitoring \cup {x}) = Cardinality(Monitoring) + 1 /\ IsFiniteSet(Monitoring \cup {x})
      BY <2>1, <3>1, FS_AddElement
    <3>3. d'.mr = d.mr + 1
      BY <1>3, <1>5, <1>6, <2>3
    <3> QED BY <2>1, <2>2, <3>1, <3>2, <3>3 DEF MonitorsSound
  <2>4. CASE n = "INIT" /\ State(x) = "RUN"
    <3>1. x \in Monitoring /\ Monitoring' = Monitoring \ {x}
      BY <1>1, <1>7, <1>9, <2>4 DEF Monitoring
    <3>2. Cardinality(Monitoring \ {x}) = Cardinality(Monitoring) - 1 /\ IsFiniteSet(Monitoring \ {x})
      BY <2>1, <3>1, FS_RemoveElement
    <3>3. d'.mr = d.mr - 1
      BY <1>2, <1>4, <1>5, <1>6, <2>4
    <3> QED BY <2>1, <2>2, <3>1, <3>2, <3>3 DEF MonitorsSound
  <2> QED BY <1>8, <2>3, <2>4
<1> QED
  BY <1>11, <1>12, <1>13, <1>14, <1>15 DEF JInv

--------------------------------------------------------------------------
(* State changes of vaps with a port.                                       *)

RestSame(m, n) ==
    /\ n.d.radar = m.d.radar /\ n.d.chk = m.d.chk /\ n.d.check = m.d.check /\ n.d.scanning = m.d.scanning
    /\ n.d.calcmd = m.d.calcmd /\ n.hw.radar = m.hw.radar
Alike(m, n) ==
    /\ RestSame(m, n) /\ n.d.calto = m.d.calto /\ n.hw.pause = m.hw.pause
    /\ \A y \in Vaps : n.v[y].callout = m.v[y].callout /\ n.v[y].task = m.v[y].task
\* What rtwn_run() may change of it.
Going(m, n) ==
    /\ RestSame(m, n) /\ (m.d.calto => n.d.calto) /\ n.hw.pause \subseteq m.hw.pause
    /\ \A y \in Vaps : n.v[y].callout = m.v[y].callout /\ (m.v[y].task => n.v[y].task)

LEMMA AlikeGoing ==
    ASSUME NEW m, NEW n, Alike(m, n) PROVE Going(m, n)
BY DEF Alike, Going

LEMMA GoingTransitive ==
    ASSUME NEW m, NEW n, NEW o, Going(m, n), Going(n, o) PROVE Going(m, o)
BY DEF Going, RestSame

LEMMA AlikeTransitive ==
    ASSUME NEW m, NEW n, NEW o, Alike(m, n), Alike(n, o) PROVE Alike(m, o)
BY DEF Alike, RestSame

LEMMA SteadyAlike ==
    ASSUME NEW m, NEW n, Steady(m, n), SteadyVaps(m, n) PROVE Alike(m, n)
BY DEF Steady, SteadyVaps, Alike, RestSame

LEMMA SetModeAlike ==
    ASSUME NEW m, Shaped(m), NEW id \in Ports, NEW mode, NEW n, n = rtwn_set_mode(m, mode, id)
    PROVE  Alike(m, n)
BY SetModeEffect DEF Alike, RestSame

LEMMA TxBeaconAlike ==
    ASSUME NEW m, Shaped(m), NEW x, NEW frame PROVE Alike(m, rtwn_tx_beacon(m, x, frame))
BY DEF rtwn_tx_beacon, Alike, RestSame, Shaped, HFields

LEMMA BeaconEnableAlike ==
    ASSUME NEW m, Shaped(m), NEW id, NEW e PROVE Alike(m, rtwn_beacon_enable(m, id, e))
BY DEF rtwn_beacon_enable, Alike, RestSame, Shaped, HFields

LEMMA PastAlike ==
    ASSUME NEW m, Shaped(m), NEW s PROVE Alike(m, [m EXCEPT !.d.past = @ \cup s])
BY DEF Alike, RestSame, Shaped, DFields

LEMMA PushAlike ==
    ASSUME NEW m, Shaped(m), NEW x, NEW sent, NEW restored
    PROVE  Alike(m, rtwn_push_nulldata(m, x, sent, restored).m)
<1> DEFINE other == m.d.slot[1 - m.v[x].id]
           restore == m.d.bcn > 0 /\ other # NoVap /\ (other # NoVap => m.v[other].curr # "NOLINK")
           page == rtwn_tx_beacon(m, x, NullPage)
           pushed == [page EXCEPT !.hw.null = sent]
           back == rtwn_tx_beacon(pushed, other, IF restored THEN other ELSE NoVap)
           s == (IF sent THEN {} ELSE {"hidden"})
           t == (IF restored THEN {} ELSE {"failed"})
           n == rtwn_push_nulldata(m, x, sent, restored).m
           last == [back EXCEPT !.d.past = (@ \cup s) \cup t]
<1>1. n = IF ~restore THEN pushed ELSE last
  BY DEF rtwn_push_nulldata
<1>2. Alike(m, page) /\ Shaped(page)
  BY TxBeaconAlike, TxBeaconFrame DEF Framed
<1> HIDE DEF other, page, s, t, restore
<1>3. Alike(page, pushed) /\ Shaped(pushed)
  BY <1>2 DEF Alike, RestSame, Shaped, HFields
<1> HIDE DEF pushed
<1>4. Alike(pushed, back) /\ Shaped(back)
  BY <1>3, TxBeaconAlike, TxBeaconFrame DEF Framed
<1> HIDE DEF back
<1>5. Alike(back, last)
  BY <1>4 DEF Alike, RestSame, Shaped, DFields
<1> HIDE DEF last
<1>6. Alike(m, pushed)
  BY <1>2, <1>3, AlikeTransitive
<1>7. Alike(m, back)
  BY <1>4, <1>6, AlikeTransitive
<1>8. Alike(m, last)
  BY <1>5, <1>7, AlikeTransitive
<1> QED
  BY <1>1, <1>6, <1>8

LEMMA SyncGoing ==
    ASSUME NEW m, Shaped(m), NEW x \in Vaps, Mode(x) \in {"STA", "AP", "IBSS"},
           NEW n, n = rtwn_tsf_sync_enable(m, x)
    PROVE  Going(m, n) /\ (Mode(x) = "IBSS" => n.v[x].task)
<1>1. CASE Mode(x) = "STA"
  <2>1. n = [m EXCEPT !.hw.udt = @ \cup {m.v[x].id}]
    BY <1>1 DEF rtwn_tsf_sync_enable
  <2> QED BY <1>1, <2>1 DEF Going, RestSame, Shaped, HFields
<1>2. CASE Mode(x) = "IBSS"
  <2> DEFINE o == [m EXCEPT !.v[x].task = TRUE]
  <2>1. n = rtwn_beacon_enable(o, m.v[x].id, TRUE)
    BY <1>2 DEF rtwn_tsf_sync_enable
  <2>2. Going(m, o) /\ Shaped(o) /\ o.v[x].task
    BY DEF Going, RestSame, Shaped, VFields
  <2> HIDE DEF o
  <2>3. Alike(o, n)
    BY <2>1, <2>2, BeaconEnableAlike
  <2>4. Going(m, n)
    BY <2>2, <2>3, AlikeGoing, GoingTransitive
  <2> QED BY <2>2, <2>3, <2>4 DEF Alike
<1>3. CASE Mode(x) = "AP"
  <2>1. n = rtwn_beacon_enable(m, m.v[x].id, TRUE)
    BY <1>3 DEF rtwn_tsf_sync_enable
  <2> QED BY Zenon, <1>3, <2>1, BeaconEnableAlike, AlikeGoing
<1> QED
  BY <1>1, <1>2, <1>3

LeftMore(m, x, n) ==
    /\ RestSame(m, n) /\ n.hw.pause = m.hw.pause
    /\ m.d.vr - 1 # m.d.mr => n.d.calto = m.d.calto
    /\ \A y \in Vaps : n.v[y].task = m.v[y].task /\ (y # x => n.v[y].callout = m.v[y].callout)
LEMMA LeaveMore ==
    ASSUME NEW m, Shaped(m), NEW x \in Vaps, m.v[x].id \in Ports, m.d.vr \in Int, m.d.mr \in Int,
           NEW n, n = Leave(m, x)
    PROVE  LeftMore(m, x, n)
<1> DEFINE id == m.v[x].id
           mode == rtwn_set_mode(m, "NOLINK", id)
           quiet == rtwn_beacon_enable(mode, id, FALSE)
           left == [quiet EXCEPT !.d.vr = @ - 1, !.v[x].callout = FALSE, !.hw.udt = @ \ {id}]
           calm == [left EXCEPT !.d.pwrto = FALSE]
           power == set_pwrmode(calm, x, FALSE)
           awake == IF Saves(x, m) THEN power ELSE left
           last == [awake EXCEPT !.d.calto = FALSE, !.hw.flt2 = FALSE]
<1>1. n = IF awake.d.vr # awake.d.mr THEN awake ELSE last
  BY Zenon DEF Leave
<1>2. Alike(m, mode) /\ Shaped(mode) /\ mode.d.vr = m.d.vr /\ mode.d.mr = m.d.mr
  BY SetModeAlike, SetModeEffect
<1> HIDE DEF id, mode
<1>3. Alike(mode, quiet) /\ Shaped(quiet) /\ quiet.d.vr = m.d.vr /\ quiet.d.mr = m.d.mr
  <2>1. Framed(mode, quiet) /\ Alike(mode, quiet)
    BY <1>2, BeaconEnableAlike, BeaconEnableFrame
  <2> HIDE DEF quiet
  <2> QED BY <1>2, <2>1 DEF Framed, FrameD
<1>4. Alike(m, quiet)
  BY <1>2, <1>3, AlikeTransitive
<1> HIDE DEF quiet
<1>5. /\ Shaped(left) /\ RestSame(quiet, left) /\ left.d.calto = quiet.d.calto /\ left.hw.pause = quiet.hw.pause
      /\ left.d.vr = m.d.vr - 1 /\ left.d.mr = m.d.mr
      /\ \A y \in Vaps : left.v[y].task = quiet.v[y].task /\ (y # x => left.v[y].callout = quiet.v[y].callout)
  <2>1. left.hw.radar = quiet.hw.radar /\ left.hw.pause = quiet.hw.pause /\ Shaped(left)
    BY <1>3 DEF Shaped, VFields, DFields, HFields
  <2>2. \A y \in Vaps : left.v[y].task = quiet.v[y].task /\ (y # x => left.v[y].callout = quiet.v[y].callout)
    BY <1>3 DEF Shaped, VFields
  <2>3. /\ left.d.vr = m.d.vr - 1 /\ left.d.mr = m.d.mr /\ left.d.calto = quiet.d.calto
        /\ left.d.radar = quiet.d.radar /\ left.d.chk = quiet.d.chk /\ left.d.check = quiet.d.check
        /\ left.d.scanning = quiet.d.scanning /\ left.d.calcmd = quiet.d.calcmd
    BY <1>3 DEF Shaped, DFields
  <2> HIDE DEF left
  <2> QED BY <2>1, <2>2, <2>3 DEF RestSame
<1> HIDE DEF left
<1>6. Alike(left, awake) /\ Shaped(awake) /\ awake.d.vr = left.d.vr /\ awake.d.mr = left.d.mr
  <2>1. Alike(left, left)
    BY DEF Alike, RestSame
  <2>2. Alike(left, calm) /\ Shaped(calm) /\ calm.d.vr = left.d.vr /\ calm.d.mr = left.d.mr
    BY <1>5 DEF Alike, RestSame, Shaped, DFields
  <2> HIDE DEF calm
  <2>3. Alike(calm, power) /\ Shaped(power) /\ power.d.vr = calm.d.vr /\ power.d.mr = calm.d.mr
    BY <2>2, PwrmodeSteady, PwrmodeFrame, SteadyAlike DEF Framed, FrameD
  <2> HIDE DEF power
  <2>4. Alike(left, power)
    BY <2>2, <2>3, AlikeTransitive
  <2> QED BY <1>5, <2>1, <2>2, <2>3, <2>4
<1> HIDE DEF awake
<1>7. LeftMore(m, x, awake)
  BY <1>4, <1>5, <1>6 DEF Alike, RestSame, LeftMore
<1>8. /\ RestSame(awake, last) /\ last.hw.pause = awake.hw.pause /\ last.v = awake.v
  BY <1>6 DEF RestSame, Shaped, DFields, HFields
<1> HIDE DEF last
<1>9. CASE awake.d.vr # awake.d.mr
  BY <1>1, <1>7, <1>9
<1>10. CASE awake.d.vr = awake.d.mr
  BY <1>1, <1>5, <1>6, <1>7, <1>8, <1>10 DEF LeftMore, RestSame
<1> QED
  BY <1>9, <1>10

RunsMore(m, x, r) ==
    /\ Going(m, r.m)
    /\ ~r.error /\ m.d.vr = m.d.mr => r.m.d.calto /\ r.m.hw.pause = {}
    /\ ~r.error /\ Mode(x) = "IBSS" => r.m.v[x].task
LEMMA RunMore ==
    ASSUME NEW m, Shaped(m), NEW x \in Vaps, m.v[x].id \in Ports, Mode(x) \in {"STA", "AP", "IBSS"},
           NEW how, NEW restored \in BOOLEAN,
           NEW r, r = rtwn_run(m, x, how, restored)
    PROVE  RunsMore(m, x, r)
<1> DEFINE first == m.d.vr = m.d.mr
           linked == rtwn_set_mode(m, CurrMode(x), m.v[x].id)
           open == [linked EXCEPT !.hw.flt2 = TRUE, !.hw.pause = {}]
           opened == IF first THEN open ELSE linked
           nulls == Saves(x, m) /\ Mode(x) = "STA"
           push == rtwn_push_nulldata(opened, x, how # "null", restored)
           timed == [push.m EXCEPT !.d.pwrto = TRUE]
           saved == IF nulls THEN timed ELSE opened
           synced == rtwn_tsf_sync_enable(saved, x)
           setup == rtwn_setup_beacon(synced, x, how # "beacon")
           beaconing == IF Beacons(x) THEN setup ELSE synced
           stopped == [push.m EXCEPT !.d.past = @ \cup {"failed"}]
           spoilt == [beaconing EXCEPT !.d.past = @ \cup {"failed"}]
           done == [beaconing EXCEPT !.d.calto = TRUE]
<1>1. \/ r = [error |-> TRUE, m |-> m]
      \/ r = [error |-> TRUE, m |-> stopped]
      \/ r = [error |-> TRUE, m |-> spoilt]
      \/ r = [error |-> FALSE, m |-> IF first THEN done ELSE beaconing]
  <2>1. r = CASE how = "channel" -> [error |-> TRUE, m |-> m]
              [] how # "channel" /\ nulls /\ push.error -> [error |-> TRUE, m |-> stopped]
              [] how = "beacon" /\ Beacons(x) -> [error |-> TRUE, m |-> spoilt]
              [] OTHER -> [error |-> FALSE, m |-> IF first THEN done ELSE beaconing]
    BY Zenon DEF rtwn_run
  <2> HIDE DEF nulls, push, stopped, spoilt, first, done, beaconing
  <2> QED BY <2>1
<1>2. Going(m, m)
  BY DEF Going, RestSame
<1>3. Alike(m, linked) /\ Shaped(linked)
  <2> DEFINE id == m.v[x].id
             mode == CurrMode(x)
  <2>1. linked = rtwn_set_mode(m, mode, id) /\ id \in Ports
    OBVIOUS
  <2> HIDE DEF linked, id, mode
  <2> QED BY <2>1, SetModeAlike, SetModeEffect
<1> HIDE DEF linked, first
<1>4. Going(m, opened) /\ Shaped(opened) /\ (first => opened.hw.pause = {})
  <2>1. Going(linked, open) /\ Shaped(open) /\ open.hw.pause = {}
    BY <1>3 DEF Going, RestSame, Shaped, HFields
  <2> HIDE DEF open
  <2>2. Going(m, linked) /\ Going(m, open)
    BY <1>3, <2>1, AlikeGoing, GoingTransitive
  <2> QED BY <1>3, <2>1, <2>2
<1> HIDE DEF opened
<1>5. Alike(opened, push.m) /\ Shaped(push.m)
  BY <1>4, PushAlike, PushFrame DEF Framed
<1> HIDE DEF push
<1>6. Alike(push.m, stopped)
  BY <1>5, PastAlike
<1>7. Alike(push.m, timed) /\ Shaped(timed)
  BY <1>5 DEF Alike, RestSame, Shaped, DFields
<1> HIDE DEF stopped, timed
<1>8. Going(opened, push.m) /\ Going(push.m, stopped) /\ Going(push.m, timed) /\ Going(opened, opened)
  BY <1>5, <1>6, <1>7, AlikeGoing DEF Going, RestSame
<1>9. Going(m, stopped)
  BY <1>4, <1>8, GoingTransitive
<1>10. Going(opened, saved) /\ Shaped(saved)
  BY <1>4, <1>7, <1>8, GoingTransitive
<1> HIDE DEF saved
<1>11. Going(saved, synced) /\ Shaped(synced) /\ (Mode(x) = "IBSS" => synced.v[x].task)
  BY <1>10, SyncGoing, SyncEffect DEF FrameL
<1> HIDE DEF synced
<1>12. Alike(synced, beaconing) /\ Shaped(beaconing)
  <2>1. Alike(synced, setup) /\ Shaped(setup)
    BY <1>11, TxBeaconAlike, TxBeaconFrame DEF rtwn_setup_beacon, Framed
  <2> HIDE DEF setup
  <2> QED BY <1>11, <2>1 DEF Alike, RestSame
<1> HIDE DEF beaconing
<1>13. Going(opened, beaconing) /\ (Mode(x) = "IBSS" => beaconing.v[x].task)
  <2>1. Going(synced, beaconing)
    BY <1>12, AlikeGoing
  <2>2. Going(opened, synced)
    BY <1>10, <1>11, GoingTransitive
  <2> QED BY <1>11, <2>1, <2>2, <1>12, GoingTransitive DEF Alike
<1>14. Going(beaconing, done) /\ done.d.calto /\ done.v = beaconing.v
  BY <1>12 DEF Going, RestSame, Shaped, DFields
<1>15. Going(m, spoilt)
  <2>1. Going(beaconing, spoilt)
    BY <1>12, PastAlike, AlikeGoing
  <2> HIDE DEF spoilt
  <2> QED BY <1>4, <1>13, <2>1, GoingTransitive
<1> HIDE DEF done, spoilt
<1>16. Going(opened, done) /\ Going(m, beaconing) /\ Going(m, done)
  BY <1>4, <1>13, <1>14, GoingTransitive
<1>17. first => done.hw.pause = {}
  BY <1>4, <1>16 DEF Going
<1>18. CASE r = [error |-> FALSE, m |-> IF first THEN done ELSE beaconing]
  BY <1>13, <1>14, <1>16, <1>17, <1>18 DEF RunsMore, first
<1>19. ASSUME NEW n, Going(m, n), r = [error |-> TRUE, m |-> n]
       PROVE  RunsMore(m, x, r)
  <2>1. r.error = TRUE /\ r.m = n
    BY <1>19
  <2> QED BY <1>19, <2>1 DEF RunsMore
<1> QED
  BY <1>1, <1>2, <1>9, <1>15, <1>18, <1>19

MovedMore(m, x, n, leaving, before, ran, r) ==
    /\ RestSame(m, r.m)
    /\ m.d.calto /\ (leaving => before # m.d.mr) => r.m.d.calto
    /\ ran /\ before = m.d.mr => r.m.d.calto /\ r.m.hw.pause = {}
    /\ \A y \in Vaps : /\ y # x \/ ~leaving => r.m.v[y].callout = m.v[y].callout
                       /\ m.v[y].task => r.m.v[y].task
    /\ ran /\ Mode(x) = "IBSS" => r.m.v[x].task
    /\ "bcn" \in r.m.hw.pause => "bcn" \in m.hw.pause
    /\ n # "CSA" /\ (n = "SCAN" => before # 0) =>
         r.m.hw.pause \subseteq IF m.v[x].state = "CSA" THEN {} ELSE m.hw.pause
LEMMA NewstateMore ==
    ASSUME NEW m, Shaped(m), NEW x \in Vaps, m.v[x].id \in Ports, Mode(x) \in {"STA", "AP", "IBSS"},
           m.d.vr \in Int, m.d.mr \in Int,
           NEW n, NEW how, NEW restored \in BOOLEAN,
           NEW leaving \in BOOLEAN, leaving <=> Leaving(m.v[x].state, n),
           NEW before \in Int, before = m.d.vr + NoneOr(leaving, -1),
           NEW r, r = rtwn_newstate(m, x, n, how, restored),
           NEW ran \in BOOLEAN, ran <=> (n = "RUN" /\ ~r.error)
    PROVE  MovedMore(m, x, n, leaving, before, ran, r)
<1> DEFINE o == m.v[x].state
           cancel == [m EXCEPT !.v[x].csa = FALSE, !.hw.pause = {}]
           cancelled == IF o = "CSA" THEN cancel ELSE m
           away == Leave(cancelled, x)
           left == IF Leaving(o, n) THEN away ELSE cancelled
           run == rtwn_run(left, x, how, restored)
           paused == [left EXCEPT !.hw.pause = @ \cup AC]
           scan == IF left.d.vr # 0 THEN left ELSE paused
           csa == [left EXCEPT !.hw.pause = @ \cup AC \cup {"mgt", "high"}]
           up == [run.m EXCEPT !.d.vr = @ + 1]
           lost == [run.m EXCEPT !.d.past = @ \cup {"lost"}]
           held == IF o = "CSA" THEN {} ELSE m.hw.pause
<1>1. /\ n = "SCAN" => r = [error |-> FALSE, m |-> scan]
      /\ n = "CSA" => r = [error |-> FALSE, m |-> csa]
      /\ n = "RUN" /\ ~run.error => r = [error |-> FALSE, m |-> up]
      /\ n = "RUN" /\ run.error => r = [error |-> TRUE, m |-> IF leaving THEN lost ELSE run.m]
      /\ n \notin {"SCAN", "CSA", "RUN"} => r = [error |-> FALSE, m |-> left]
  <2>1. r = CASE n = "SCAN" -> [error |-> FALSE, m |-> scan]
              [] n = "RUN" /\ ~run.error -> [error |-> FALSE, m |-> up]
              [] n = "RUN" /\ run.error ->
                    [error |-> TRUE, m |-> IF Leaving(m.v[x].state, n) THEN lost ELSE run.m]
              [] n = "CSA" -> [error |-> FALSE, m |-> csa]
              [] OTHER -> [error |-> FALSE, m |-> left]
    BY Zenon DEF rtwn_newstate, Leaving
  <2> HIDE DEF scan, csa, up, lost, run, left
  <2> QED BY <2>1
<1>2. /\ Shaped(cancelled) /\ cancelled.d = m.d /\ cancelled.hw.radar = m.hw.radar /\ cancelled.hw.pause = held
      /\ \A y \in Vaps : cancelled.v[y].callout = m.v[y].callout /\ cancelled.v[y].task = m.v[y].task
      /\ cancelled.v[x].id = m.v[x].id
  <2>1. /\ Shaped(cancel) /\ cancel.d = m.d /\ cancel.hw.radar = m.hw.radar /\ cancel.hw.pause = {}
        /\ \A y \in Vaps : cancel.v[y].callout = m.v[y].callout /\ cancel.v[y].task = m.v[y].task
        /\ cancel.v[x].id = m.v[x].id
    BY DEF Shaped, VFields, HFields
  <2> HIDE DEF cancel
  <2> QED BY <2>1
<1>3. held = {} \/ held = m.hw.pause
  OBVIOUS
<1> HIDE DEF cancelled, held
<1>4. /\ Shaped(left) /\ RestSame(m, left) /\ left.hw.pause = held
      /\ m.d.calto /\ (leaving => before # m.d.mr) => left.d.calto
      /\ \A y \in Vaps : /\ y # x \/ ~leaving => left.v[y].callout = m.v[y].callout
                         /\ left.v[y].task = m.v[y].task
      /\ left.d.vr = before /\ left.d.mr = m.d.mr /\ left.v[x].id \in Ports
  <2>1. CASE leaving
    <3>1. left = away
      BY <2>1
    <3>2. before = m.d.vr - 1
      BY <2>1 DEF NoneOr
    <3>3. cancelled.v[x].id \in Ports /\ cancelled.d.vr \in Int /\ cancelled.d.mr \in Int
      BY <1>2
    <3> HIDE DEF left, away
    <3>4. away = Leave(cancelled, x)
      BY DEF away
    <3>5. LeftMore(cancelled, x, away)
      BY <1>2, <3>3, <3>4, LeaveMore
    <3>6. FrameL(cancelled, away, x) /\ away.d.vr = cancelled.d.vr - 1
      BY <1>2, <3>3, <3>4, LeaveEffect
    <3>7. /\ Shaped(away) /\ away.v[x].id \in Ports /\ away.d.mr = m.d.mr
      BY <1>2, <3>6 DEF FrameL
    <3> QED BY <1>2, <2>1, <3>1, <3>2, <3>5, <3>6, <3>7 DEF LeftMore, RestSame
  <2>2. CASE ~leaving
    <3>1. left = cancelled
      BY <2>2
    <3>2. before = m.d.vr
      BY <2>2 DEF NoneOr
    <3> HIDE DEF left
    <3> QED BY <1>2, <2>2, <3>1, <3>2 DEF RestSame
  <2> QED BY <2>1, <2>2
<1> HIDE DEF left
\* What is left when nothing is run.
<1>5. ASSUME ~ran, RestSame(left, r.m), r.m.d.calto = left.d.calto, r.m.v = left.v,
             "bcn" \in r.m.hw.pause => "bcn" \in held,
             n # "CSA" /\ (n = "SCAN" => before # 0) => r.m.hw.pause \subseteq held
      PROVE  MovedMore(m, x, n, leaving, before, ran, r)
  BY <1>3, <1>4, <1>5 DEF MovedMore, RestSame, held
<1>6. CASE n = "SCAN"
  <2>1. r.m = scan /\ ~ran
    <3> HIDE DEF scan, csa, up, lost, run
    <3> QED BY <1>1, <1>6
  <2>2. /\ RestSame(left, paused) /\ paused.d.calto = left.d.calto /\ paused.v = left.v
        /\ paused.hw.pause = left.hw.pause \cup AC
    BY <1>4 DEF RestSame, Shaped, HFields
  <2> HIDE DEF paused
  <2>3. scan = IF before # 0 THEN left ELSE paused
    BY <1>4
  <2> HIDE DEF scan
  <2>4. CASE before # 0
    <3>1. r.m = left
      BY <2>1, <2>3, <2>4
    <3> QED BY <1>4, <1>5, <2>1, <3>1 DEF RestSame
  <2>5. CASE before = 0
    <3>1. r.m = paused
      BY <2>1, <2>3, <2>5
    <3>2. "bcn" \in r.m.hw.pause => "bcn" \in held
      BY <1>4, <2>2, <3>1 DEF AC
    <3> QED BY <1>5, <1>6, <2>1, <2>2, <2>5, <3>1, <3>2
  <2> QED BY <2>4, <2>5
<1>7. CASE n = "CSA"
  <2>1. r.m = csa /\ ~ran
    <3> HIDE DEF scan, csa, up, lost, run
    <3> QED BY <1>1, <1>7
  <2>2. /\ RestSame(left, csa) /\ csa.d.calto = left.d.calto /\ csa.v = left.v
        /\ csa.hw.pause = left.hw.pause \cup AC \cup {"mgt", "high"}
    BY <1>4 DEF RestSame, Shaped, HFields
  <2> HIDE DEF csa
  <2>3. "bcn" \in r.m.hw.pause => "bcn" \in held
    BY <1>4, <2>1, <2>2 DEF AC
  <2> QED BY <1>5, <1>7, <2>1, <2>2, <2>3
<1>8. CASE n \notin {"SCAN", "CSA", "RUN"}
  <2>1. r.m = left /\ ~ran
    BY <1>1, <1>8
  <2> QED BY <1>4, <1>5, <2>1 DEF RestSame
<1>9. CASE n = "RUN"
  <2>1. run = rtwn_run(left, x, how, restored)
    OBVIOUS
  <2> HIDE DEF run
  <2>2. RunsMore(left, x, run) /\ FrameL(left, run.m, x)
    <3>1. RunsMore(left, x, run)
      BY <1>4, <2>1, RunMore
    <3>2. RunsTo(left, x, run)
      BY <1>4, <2>1, RunEffect
    <3> QED BY <3>1, <3>2 DEF RunsTo
  <2>3. Shaped(run.m)
    BY <2>2 DEF FrameL
  <2>4. Alike(run.m, up) /\ Alike(run.m, lost) /\ Alike(run.m, run.m)
    BY <2>3 DEF Alike, RestSame, Shaped, DFields
  <2> HIDE DEF up, lost
  <2>5. /\ Alike(run.m, r.m)
        /\ ran <=> ~run.error
    <3>1. CASE ~run.error
      BY <1>1, <1>9, <2>4, <3>1
    <3>2. CASE run.error
      <4>1. r = [error |-> TRUE, m |-> IF leaving THEN lost ELSE run.m]
        BY <1>1, <1>9, <3>2
      <4>2. r.error = TRUE /\ (r.m = lost \/ r.m = run.m)
        BY <4>1
      <4> QED BY <2>4, <3>2, <4>2
    <3> QED BY <3>1, <3>2
  <2>6. Going(left, r.m)
    BY <2>2, <2>5, AlikeGoing, GoingTransitive DEF RunsMore
  <2>7. ran /\ before = m.d.mr => r.m.d.calto /\ r.m.hw.pause = {}
    BY <1>4, <2>2, <2>5 DEF RunsMore, Alike
  <2>8. ran /\ Mode(x) = "IBSS" => r.m.v[x].task
    BY <2>2, <2>5 DEF RunsMore, Alike
  <2>9. r.m.hw.pause \subseteq held /\ ("bcn" \in r.m.hw.pause => "bcn" \in m.hw.pause)
    BY <1>3, <1>4, <2>6 DEF Going
  <2>10. RestSame(m, r.m) /\ (m.d.calto /\ (leaving => before # m.d.mr) => r.m.d.calto)
    BY <1>4, <2>6 DEF Going, RestSame
  <2>11. \A y \in Vaps : /\ y # x \/ ~leaving => r.m.v[y].callout = m.v[y].callout
                         /\ m.v[y].task => r.m.v[y].task
    BY <1>4, <2>6 DEF Going
  <2> QED BY <2>7, <2>8, <2>9, <2>10, <2>11 DEF MovedMore, held
<1> QED
  BY <1>6, <1>7, <1>8, <1>9

LEMMA OnlyRunSwitches ==
    ASSUME NEW x, Mode(x) \in {"STA", "AP", "IBSS"}, NEW o, <<o, "CSA">> \in Moves(x)
    PROVE  o = "RUN"
<1>1. CASE Mode(x) = "STA"
  BY <1>1 DEF Moves
<1>2. CASE Mode(x) = "AP"
  BY <1>2 DEF Moves
<1>3. CASE Mode(x) = "IBSS"
  BY <1>3 DEF Moves
<1> QED
  BY <1>1, <1>2, <1>3

\* r21au_newstate() turns the radar on for a CAC, and off when no vap needs it.
Needed(m, x) ==
    /\ m.d.slot[1 - m.v[x].id] # NoVap
    /\ ~Below(m.v[m.d.slot[1 - m.v[x].id]].state)
DfsMore(m, x, n, o) ==
    /\ o.v = m.v /\ o.hw.pause = m.hw.pause /\ o.d.calto = m.d.calto /\ o.d.calcmd = m.d.calcmd
    /\ o.d.check = m.d.check /\ o.d.scanning = m.d.scanning
    /\ \/ n = "CAC" /\ plan.dfs /\ o.d.radar /\ o.d.chk /\ o.hw.radar
       \/ Below(n) /\ ~o.d.radar
       \/ /\ o.d.radar = m.d.radar /\ o.d.chk = m.d.chk /\ o.hw.radar = m.hw.radar
          /\ Below(n) /\ m.d.radar /\ plan.dfs => Needed(m, x)
LEMMA DfsMoves ==
    ASSUME NEW m, Shaped(m), NEW x, NEW n,
           NEW o, o = IF plan.dfs THEN r21au_newstate(m, x, n) ELSE m
    PROVE  DfsMore(m, x, n, o)
<1> DEFINE on == [m EXCEPT !.d.radar = TRUE, !.hw.radar = TRUE, !.d.chk = TRUE]
           off == [m EXCEPT !.d.radar = FALSE, !.hw.radar = FALSE, !.d.chk = FALSE]
<1>1. /\ on.v = m.v /\ on.hw.pause = m.hw.pause /\ on.d.calto = m.d.calto /\ on.d.calcmd = m.d.calcmd
      /\ on.d.check = m.d.check /\ on.d.scanning = m.d.scanning
      /\ on.d.radar = TRUE /\ on.d.chk = TRUE /\ on.hw.radar = TRUE
  BY DEF Shaped, DFields, HFields
<1>2. /\ off.v = m.v /\ off.hw.pause = m.hw.pause /\ off.d.calto = m.d.calto /\ off.d.calcmd = m.d.calcmd
      /\ off.d.check = m.d.check /\ off.d.scanning = m.d.scanning /\ off.d.radar = FALSE
  BY DEF Shaped, DFields, HFields
<1>3. plan.dfs => \/ o = on /\ n = "CAC"
                  \/ o = off /\ Below(n)
                  \/ o = m /\ (Below(n) /\ m.d.radar => Needed(m, x))
  <2> DEFINE other == m.d.slot[1 - m.v[x].id]
             unused == IF other = NoVap THEN TRUE ELSE Below(m.v[other].state)
  <2>1. plan.dfs => o = CASE n = "CAC" /\ ~m.d.radar -> on
                          [] Below(n) /\ m.d.radar /\ unused -> off
                          [] OTHER -> m
    BY DEF r21au_newstate
  <2>2. ~unused => Needed(m, x)
    BY DEF Needed
  <2>3. n = "CAC" => ~Below(n)
    BY DEF Below
  <2> HIDE DEF on, off, unused
  <2> QED BY <2>1, <2>2, <2>3
<1>4. ~plan.dfs => o = m
  OBVIOUS
<1> HIDE DEF on, off
<1>5. CASE plan.dfs /\ o = on /\ n = "CAC"
  BY <1>1, <1>5 DEF DfsMore
<1>6. CASE o = off /\ Below(n)
  BY <1>2, <1>6 DEF DfsMore
<1>7. CASE o = m /\ (Below(n) /\ m.d.radar /\ plan.dfs => Needed(m, x))
  BY <1>7 DEF DfsMore
<1> QED
  BY <1>3, <1>4, <1>5, <1>6, <1>7

--------------------------------------------------------------------------
(* Beacons, their pages, and power save: each part rests on IInv.            *)

\* Only a STA may save power, only a vap that is up and beacons has its beacon
\* updated, and only an AP announces a channel switch.
FlagsSound ==
    \A x \in Vaps :
       /\ v[x].pm => plan.pmgt /\ Mode(x) = "STA"
       /\ v[x].updating => v[x].life = "up" /\ Beacons(x)
       /\ v[x].csa => Mode(x) = "AP"
\* Where the ports share a page, one vap at most beacons.
PagesSound ==
    /\ DOMAIN hw.page = Ports
    /\ ~plan.bcnq1 => \A x, y \in Ported : Beacons(x) /\ Beacons(y) => x = y
Whole == d.running /\ Unharmed({"raced", "lost", "failed"})
EnabledSound ==
    /\ \A p \in hw.en : \E x \in Beaconing : v[x].id = p
    /\ \A x \in Beaconing :
         /\ v[x].id \in hw.en \/ (plan.bus = "PCI" /\ v[x].updating)
         /\ hw.page[Page(v[x].id)] = x
\* Power save is for a linked STA of port 0, whose null data frames were sent
\* when it was linked.
Saver(x) == x \in Linking /\ v[x].id = 0 /\ Mode(x) = "STA"
SaveSound ==
    /\ hw.ps /\ Unharmed({"late"}) => plan.pmgt /\ \E x \in Vaps : Saver(x)
    /\ \A x \in Vaps : Saver(x) /\ plan.pmgt /\ Unharmed({"hidden"}) => hw.null
BInv == FlagsSound /\ PagesSound /\ (Whole => EnabledSound /\ SaveSound)

AirSame(m, n) ==
    n.hw.en = m.hw.en /\ n.hw.page = m.hw.page /\ n.hw.null = m.hw.null /\ n.hw.ps = m.hw.ps
FlagsSame(m, n) ==
    \A y \in Vaps : n.v[y].updating = m.v[y].updating /\ n.v[y].csa = m.v[y].csa /\ n.v[y].pm = m.v[y].pm
VapsSame(m, n) ==
    \A y \in Vaps : n.v[y].life = m.v[y].life /\ n.v[y].id = m.v[y].id /\ n.v[y].state = m.v[y].state
\* Nothing of all this, nor of the vaps.
Calm(m, n) ==
    /\ Shaped(n) /\ AirSame(m, n) /\ FlagsSame(m, n) /\ VapsSame(m, n)
    /\ n.d.running = m.d.running /\ m.d.past \subseteq n.d.past

LEMMA CalmTransitive ==
    ASSUME NEW m, NEW n, NEW o, Calm(m, n), Calm(n, o) PROVE Calm(m, o)
BY DEF Calm, AirSame, FlagsSame, VapsSame

LEMMA CalmSelf == ASSUME NEW m, Shaped(m) PROVE Calm(m, m)
BY DEF Calm, AirSame, FlagsSame, VapsSame

LEMMA StillSound ==
    ASSUME BInv, plan' = plan, Linking' = Linking, d'.running = d.running, d.past \subseteq d'.past,
           hw'.en = hw.en, hw'.page = hw.page, hw'.null = hw.null, hw'.ps = hw.ps,
           \A y \in Linking : v'[y].id = v[y].id /\ v'[y].updating = v[y].updating,
           FlagsSound', PagesSound'
    PROVE  BInv'
<1>1. /\ \A y : Mode(y)' = Mode(y) /\ Beacons(y)' = Beacons(y)
      /\ \A p : Page(p)' = Page(p)
      /\ \A f : Unharmed(f)' => Unharmed(f)
  BY DEF Mode, Beacons, Page, Unharmed
<1>2. Whole' => Whole
  BY <1>1 DEF Whole
<1>3. Beaconing' = Beaconing /\ Beaconing \subseteq Linking
  BY <1>1 DEF Beaconing
<1>4. \A y \in Vaps : Saver(y)' = Saver(y)
  BY <1>1 DEF Saver
<1>5. EnabledSound => EnabledSound'
  BY <1>1, <1>3 DEF EnabledSound
<1>6. SaveSound => SaveSound'
  BY <1>1, <1>4 DEF SaveSound
<1> QED
  BY <1>2, <1>5, <1>6 DEF BInv

LEMMA PagesKept ==
    ASSUME BInv, plan' = plan, hw'.page = hw.page, Ported' \subseteq Ported
    PROVE  PagesSound'
BY DEF BInv, PagesSound, Mode, Beacons

LEMMA CalmSound ==
    ASSUME IInv, BInv, plan' = plan, Linking' = Linking, NEW n, Become(n), Calm(Now, n)
    PROVE  BInv'
<1>1. v' = n.v /\ d' = n.d /\ hw' = n.hw /\ Linking \subseteq Vaps
  BY LinkingIs DEF Become, IInv
<1>2. /\ \A y \in Vaps : /\ v'[y].life = v[y].life /\ v'[y].id = v[y].id /\ v'[y].updating = v[y].updating
                         /\ v'[y].csa = v[y].csa /\ v'[y].pm = v[y].pm
      /\ hw'.en = hw.en /\ hw'.page = hw.page /\ hw'.null = hw.null /\ hw'.ps = hw.ps
      /\ d'.running = d.running /\ d.past \subseteq d'.past
  BY <1>1 DEF Calm, AirSame, FlagsSame, VapsSame, Now
<1>3. FlagsSound'
  BY <1>2 DEF BInv, FlagsSound, Mode, Beacons
<1>4. Ported' = Ported
  BY <1>2, SameSets
<1>5. PagesSound'
  BY <1>2, <1>4, PagesKept
<1> QED
  BY <1>1, <1>2, <1>3, <1>5, StillSound

CalmStep == UNCHANGED <<plan, tq>> /\ \E n : Become(n) /\ Calm(Now, n)
LEMMA CalmStepSound ==
    ASSUME IInv, IInv', BInv, CalmStep
    PROVE  BInv'
<1>1. PICK n : Become(n) /\ Calm(Now, n)
  BY DEF CalmStep
<1>2. StandStill
  BY <1>1 DEF StandStill, CalmStep, Become, Calm, VapsSame, State, Now
<1>3. Linking' = Linking
  BY <1>2, StillLinking DEF IInv
<1> QED
  BY <1>1, <1>3, CalmSound DEF CalmStep

LEMMA OpenCalm ==
    ASSUME NEW m, Shaped(m), NEW x \in Vaps, NEW b
    PROVE  Calm(m, [m EXCEPT !.v[x].open = b])
BY DEF Calm, AirSame, FlagsSame, VapsSame, Shaped, VFields

LEMMA CloseAllCalm ==
    ASSUME NEW m, Shaped(m)
    PROVE  Calm(m, CloseAll(m))
BY DEF CloseAll, Calm, AirSame, FlagsSame, VapsSame, Shaped, VFields

LEMMA FilterCalm ==
    ASSUME NEW m, Shaped(m)
    PROVE  Calm(m, rtwn_rxfilter_set(m))
BY DEF rtwn_rxfilter_set, Calm, AirSame, FlagsSame, VapsSame, Shaped, HFields

LEMMA WithRcrCalm ==
    ASSUME NEW m, Shaped(m), NEW r
    PROVE  Calm(m, rtwn_rxfilter_set(WithRcr(m, r)))
<1>1. Calm(m, WithRcr(m, r))
  BY DEF WithRcr, Calm, AirSame, FlagsSame, VapsSame, Shaped, DFields
<1> HIDE DEF WithRcr
<1> QED
  BY <1>1, FilterCalm, CalmTransitive DEF Calm

LEMMA BssidAllCalm ==
    ASSUME NEW m, Shaped(m), NEW e
    PROVE  Calm(m, rtwn_set_rx_bssid_all(m, e))
<1> DEFINE r == IF e THEN m.d.rcr \ {"bcn"} ELSE m.d.rcr \cup {"bcn"}
<1>1. rtwn_set_rx_bssid_all(m, e) = rtwn_rxfilter_set(WithRcr(m, r))
  BY DEF rtwn_set_rx_bssid_all, WithRcr
<1> HIDE DEF r
<1> QED
  BY <1>1, WithRcrCalm

LEMMA PromiscCalm ==
    ASSUME NEW m, Shaped(m)
    PROVE  Calm(m, rtwn_set_promisc(m))
<1> DEFINE min == {"apm"} \cup (IF m.d.bcn = 0 THEN {"bcn"} ELSE {}) \cup (IF m.d.ap = 0 THEN {"data"} ELSE {})
           r == IF ~m.d.promisc /\ m.d.mon = 0
                THEN (m.d.rcr \ {"all", "bcn", "data"}) \cup min ELSE (m.d.rcr \ min) \cup {"all"}
<1>1. rtwn_set_promisc(m) = rtwn_rxfilter_set(WithRcr(m, r))
  BY DEF rtwn_set_promisc, WithRcr
<1> HIDE DEF r
<1> QED
  BY <1>1, WithRcrCalm

LEMMA UpdateCalm ==
    ASSUME NEW m, Shaped(m)
    PROVE  Calm(m, UpdateIfRunning(m))
<1> DEFINE u == rtwn_rxfilter_update_mgt(m)
<1>1. Calm(m, u)
  BY DEF rtwn_rxfilter_update_mgt, Calm, AirSame, FlagsSame, VapsSame, Shaped, HFields
<1>2. UpdateIfRunning(m) = IF m.d.running THEN rtwn_set_promisc(u) ELSE m
  BY DEF UpdateIfRunning, rtwn_rxfilter_update
<1> HIDE DEF u
<1>3. Calm(m, rtwn_set_promisc(u))
  BY <1>1, PromiscCalm, CalmTransitive DEF Calm
<1> QED
  BY <1>2, <1>3, CalmSelf

LEMMA QuietSteps ==
    ASSUME IInv, IInv', BInv,
           \/ \E x \in Vaps : Open(x) \/ Close(x) \/ rtwn_tsf_sync_adhoc(x)
           \/ ChannelSwitched \/ rtwn_calib_to \/ rtwn_calib_cb \/ rtwn_pwrmode_init
           \/ SetPromisc \/ rtwn_update_promisc \/ r12a_ioctl_net
           \/ CallCheck \/ r21au_chan_check \/ RadarReported
    PROVE  BInv'
<1> DEFINE F(n) == Calm(Now, n)
<1>1. Shaped(Now) /\ F(Now)
  BY NowShaped, CalmSelf DEF IInv
<1>2. ASSUME NEW m, F(m), NEW n, Calm(m, n)
      PROVE  F(n)
  BY <1>2, CalmTransitive
<1>3. ASSUME NEW x \in Vaps, Open(x) \/ Close(x)
      PROVE  CalmStep
  BY <1>1, <1>3, OpenCalm DEF Open, Close, CalmStep
<1>4. ASSUME NEW x \in Vaps, rtwn_tsf_sync_adhoc(x)
      PROVE  CalmStep
  <2> DEFINE task == v[x].task \/ v[x].curr # "NOLINK"
             m == [Now EXCEPT !.v[x].callout = FALSE, !.v[x].task = task]
  <2>1. Become(m) /\ UNCHANGED <<plan, tq>>
    BY <1>4 DEF rtwn_tsf_sync_adhoc, Now
  <2> HIDE DEF task
  <2>2. F(m)
    BY <1>1 DEF Calm, AirSame, FlagsSame, VapsSame, Shaped, VFields
  <2> QED BY <2>1, <2>2 DEF CalmStep
<1>5. ASSUME ChannelSwitched
      PROVE  CalmStep
  <2>1. F([Now EXCEPT !.d.csapending = FALSE])
    BY <1>1 DEF Calm, AirSame, FlagsSame, VapsSame, Shaped, DFields
  <2> QED BY <1>5, <2>1 DEF ChannelSwitched, CalmStep
<1>6. ASSUME rtwn_calib_to
      PROVE  CalmStep
  <2>1. F([Now EXCEPT !.d.calto = FALSE, !.d.calcmd = TRUE])
    BY <1>1 DEF Calm, AirSame, FlagsSame, VapsSame, Shaped, DFields
  <2> QED BY <1>6, <2>1 DEF rtwn_calib_to, CalmStep
<1>7. ASSUME rtwn_calib_cb
      PROVE  CalmStep
  <2> DEFINE done == [Now EXCEPT !.d.calcmd = FALSE, !.d.calto = @ \/ (d.running /\ d.vr > d.mr)]
  <2>1. F(done)
    BY <1>1 DEF Calm, AirSame, FlagsSame, VapsSame, Shaped, DFields
  <2>2. F([done EXCEPT !.hw.pause = {}])
    BY <2>1 DEF Calm, AirSame, FlagsSame, VapsSame, Shaped, HFields
  <2> QED BY <1>7, <2>1, <2>2 DEF rtwn_calib_cb, CalmStep
<1>8. ASSUME rtwn_pwrmode_init
      PROVE  CalmStep
  <2>1. F([Now EXCEPT !.d.pwrto = FALSE, !.d.pwrcmd = TRUE])
    BY <1>1 DEF Calm, AirSame, FlagsSame, VapsSame, Shaped, DFields
  <2> QED BY <1>8, <2>1 DEF rtwn_pwrmode_init, CalmStep
<1>9. ASSUME SetPromisc
      PROVE  CalmStep
  <2>1. F([Now EXCEPT !.d.promisc = ~@, !.d.ptask = TRUE])
    BY <1>1 DEF Calm, AirSame, FlagsSame, VapsSame, Shaped, DFields
  <2> QED BY <1>9, <2>1 DEF SetPromisc, CalmStep
<1>10. ASSUME rtwn_update_promisc
       PROVE  CalmStep
  <2> DEFINE done == [Now EXCEPT !.d.ptask = FALSE]
  <2>1. F(done) /\ Shaped(done)
    BY <1>1 DEF Calm, AirSame, FlagsSame, VapsSame, Shaped, DFields
  <2>2. F(rtwn_set_promisc(done))
    BY <1>2, <2>1, PromiscCalm
  <2> QED BY <1>10, <2>1, <2>2 DEF rtwn_update_promisc, CalmStep
<1>11. ASSUME r12a_ioctl_net
       PROVE  CalmStep
  <2> DEFINE set == [Now EXCEPT !.d.rcr = IF "offload" \in @ THEN @ \ {"offload"} ELSE @ \cup {"offload"}]
  <2>1. F(set) /\ Shaped(set)
    BY <1>1 DEF Calm, AirSame, FlagsSame, VapsSame, Shaped, DFields
  <2>2. F(rtwn_rxfilter_set(set))
    BY <1>2, <2>1, FilterCalm
  <2> QED BY <1>11, <2>1, <2>2 DEF r12a_ioctl_net, CalmStep
<1>12. ASSUME CallCheck
       PROVE  CalmStep
  <2>1. F([Now EXCEPT !.d.chk = FALSE, !.d.check = "called"])
    BY <1>1 DEF Calm, AirSame, FlagsSame, VapsSame, Shaped, DFields
  <2> QED BY <1>12, <2>1 DEF CallCheck, CalmStep
<1>13. ASSUME r21au_chan_check
       PROVE  CalmStep
  <2> DEFINE over == [Now EXCEPT !.d.check = "none"]
  <2>1. F(over) /\ Shaped(over)
    BY <1>1 DEF Calm, AirSame, FlagsSame, VapsSame, Shaped, DFields
  <2>2. F(CloseAll(over))
    BY <1>2, <2>1, CloseAllCalm
  <2>3. F([Now EXCEPT !.d.check = "none", !.d.chk = @ \/ d.radar]) /\ F([Now EXCEPT !.d.check = "reporting"])
    BY <1>1 DEF Calm, AirSame, FlagsSame, VapsSame, Shaped, DFields
  <2> QED BY <1>13, <2>1, <2>2, <2>3 DEF r21au_chan_check, CalmStep
<1>14. ASSUME RadarReported
       PROVE  CalmStep
  <2>1. F([Now EXCEPT !.d.check = "none", !.d.chk = @ \/ d.radar])
    BY <1>1 DEF Calm, AirSame, FlagsSame, VapsSame, Shaped, DFields
  <2> QED BY <1>14, <2>1 DEF RadarReported, CalmStep
<1>15. CalmStep
  BY <1>3, <1>4, <1>5, <1>6, <1>7, <1>8, <1>9, <1>10, <1>11, <1>12, <1>13, <1>14
<1> QED
  BY <1>15, CalmStepSound

LEMMA TurnsSound ==
    ASSUME IInv, IInv', BInv, plan' = plan, NEW n, Become(n), Calm(Now, n), \A y \in Vaps : State(y)' = State(y)
    PROVE  BInv'
<1>1. StandStill
  BY DEF StandStill, Become, Calm, Now
<1>2. Linking' = Linking
  BY <1>1, StillLinking DEF IInv
<1> QED
  BY <1>2, CalmSound

LEMMA TsfTaskSound ==
    ASSUME IInv, IInv', BInv, NEW x \in Vaps, rtwn_tsf_sync_adhoc_task(x)
    PROVE  BInv'
<1> DEFINE o == rtwn_set_rx_bssid_all(Now, FALSE)
           m == TsfTask(Now, x)
<1>1. Become(m) /\ plan' = plan /\ tq.what = "idle" /\ tq'.what = "tsf"
  BY DEF rtwn_tsf_sync_adhoc_task, Idle
<1>2. Calm(Now, o)
  BY NowShaped, BssidAllCalm DEF IInv
<1>3. m = [o EXCEPT !.v[x].task = FALSE, !.d.locked = TRUE, !.hw.udt = @ \cup {v[x].id}]
  BY DEF TsfTask, Now
<1> HIDE DEF o, m
<1>4. Shaped(o)
  BY <1>2 DEF Calm
<1>5. /\ DOMAIN m = {"v", "d", "hw"} /\ m.v = [o.v EXCEPT ![x].task = FALSE]
      /\ m.d = [o.d EXCEPT !.locked = TRUE] /\ m.hw = [o.hw EXCEPT !.udt = @ \cup {v[x].id}]
  BY <1>3, <1>4 DEF Shaped, DFields, HFields
<1>6. Calm(o, m)
  <2>1. Shaped(m)
    BY <1>4, <1>5 DEF Shaped, VFields, DFields, HFields
  <2>2. DOMAIN o.v = Vaps /\ DOMAIN o.v[x] = VFields
    BY <1>4 DEF Shaped
  <2>3. m.v[x] = [o.v[x] EXCEPT !.task = FALSE] /\ \A y \in Vaps : y # x => m.v[y] = o.v[y]
    BY <1>5, <2>2
  <2>4. /\ m.v[x].life = o.v[x].life /\ m.v[x].id = o.v[x].id /\ m.v[x].state = o.v[x].state
        /\ m.v[x].updating = o.v[x].updating /\ m.v[x].csa = o.v[x].csa /\ m.v[x].pm = o.v[x].pm
    BY <2>2, <2>3 DEF VFields
  <2>5. FlagsSame(o, m) /\ VapsSame(o, m)
    BY <2>3, <2>4 DEF FlagsSame, VapsSame
  <2>6. AirSame(o, m) /\ m.d.running = o.d.running /\ m.d.past = o.d.past
    BY <1>4, <1>5 DEF AirSame, Shaped, DFields, HFields
  <2> QED BY <2>1, <2>5, <2>6 DEF Calm
<1>7. Calm(Now, m)
  BY <1>2, <1>6, CalmTransitive
<1>8. \A y \in Vaps : State(y)' = State(y)
  BY <1>1, <1>7 DEF State, Become, Calm, VapsSame, Now
<1> QED
  BY <1>1, <1>7, <1>8, TurnsSound

LEMMA TsfDelaySound ==
    ASSUME IInv, IInv', BInv, TsfDelayEnds
    PROVE  BInv'
<1> DEFINE x == tq.vap
           o == [Now EXCEPT !.d.locked = FALSE, !.hw.udt = @ \ {v[x].id}, !.v[x].callout = TRUE]
           m == TsfTaskEnd(Now, x)
<1>1. Become(m) /\ plan' = plan /\ tq.what = "tsf" /\ tq'.what = "idle" /\ x \in Vaps
  BY DEF TsfDelayEnds, IInv, TypeOK, Idle
<1>2. Shaped(Now)
  BY NowShaped DEF IInv
<1> HIDE DEF x
<1>3. Calm(Now, o)
  BY <1>1, <1>2 DEF Calm, AirSame, FlagsSame, VapsSame, Shaped, VFields, DFields, HFields, Now
<1>4. m = rtwn_set_rx_bssid_all(o, TRUE)
  BY DEF TsfTaskEnd, Now
<1> HIDE DEF o, m
<1>5. Calm(Now, m)
  <2>1. Shaped(o)
    BY <1>3 DEF Calm
  <2> QED BY <1>3, <1>4, <2>1, BssidAllCalm, CalmTransitive
<1>6. \A y \in Vaps : State(y)' = State(y)
  BY <1>1, <1>5 DEF State, Become, Calm, VapsSame, Now
<1> QED
  BY <1>1, <1>5, <1>6, TurnsSound

LEMMA SetStateSound ==
    ASSUME IInv, IInv', BInv, SetState
    PROVE  BInv'
<1> DEFINE x == tq.vap
           m == [Now EXCEPT !.v[x].state = tq.to]
<1>1. tq.what = "state" /\ x \in Vaps /\ Become(m) /\ plan' = plan /\ tq' = Idle
  BY DEF SetState, IInv, TypeOK
<1>2. Shaped(Now) /\ tq'.what = "idle"
  BY <1>1, NowShaped DEF IInv, Idle
<1> HIDE DEF x
<1>3. m.d = d /\ m.hw = hw /\ \A y \in Vaps :
        /\ m.v[y].life = v[y].life /\ m.v[y].id = v[y].id
        /\ m.v[y].updating = v[y].updating /\ m.v[y].csa = v[y].csa /\ m.v[y].pm = v[y].pm
        /\ m.v[y].state = IF y = x THEN tq.to ELSE v[y].state
  BY <1>1, <1>2 DEF Shaped, VFields, Now
<1> HIDE DEF m
<1>4. v' = m.v /\ d' = d /\ hw' = hw
  BY <1>1, <1>3 DEF Become
<1>5. StandStill
  BY <1>1, <1>2, <1>3, <1>4 DEF StandStill, State, x
<1>6. Linking' = Linking /\ \A y \in Linking : y \in Vaps
  BY <1>5, StillLinking, LinkingIs DEF IInv
<1>7. FlagsSound'
  BY <1>1, <1>3, <1>4 DEF BInv, FlagsSound, Mode, Beacons
<1>8. Ported' = Ported
  BY <1>1, <1>3, <1>4, SameSets
<1>9. PagesSound'
  BY <1>1, <1>4, <1>8, PagesKept
<1> QED
  BY <1>1, <1>3, <1>4, <1>6, <1>7, <1>9, StillSound

LEMMA ScanStartSound ==
    ASSUME IInv, IInv', BInv, rtwn_scan_start
    PROVE  BInv'
<1> DEFINE off == [Now EXCEPT !.d.chk = FALSE, !.hw.radar = FALSE]
           quiet == IF d.radar THEN off ELSE Now
           paused == [quiet EXCEPT !.d.scanning = TRUE, !.hw.pause = @ \cup {"bcn"}]
           n == IF d.bcn = 0 THEN rtwn_set_rx_bssid_all(paused, TRUE) ELSE paused
<1>1. UNCHANGED <<plan, tq>> /\ Become(n)
  BY DEF rtwn_scan_start
<1>2. Shaped(Now)
  BY NowShaped DEF IInv
<1>3. Calm(Now, off)
  BY <1>2 DEF Calm, AirSame, FlagsSame, VapsSame, Shaped, DFields, HFields
<1> HIDE DEF off
<1>4. Calm(Now, quiet) /\ Shaped(quiet)
  BY <1>2, <1>3, CalmSelf DEF Calm
<1> HIDE DEF quiet
<1>5. Calm(quiet, paused) /\ Shaped(paused)
  BY <1>4 DEF Calm, AirSame, FlagsSame, VapsSame, Shaped, DFields, HFields
<1> HIDE DEF paused
<1>6. Calm(Now, n)
  BY <1>4, <1>5, BssidAllCalm, CalmTransitive
<1> QED
  BY <1>1, <1>6, CalmStepSound DEF CalmStep

LEMMA ScanEndSound ==
    ASSUME IInv, IInv', BInv, rtwn_scan_end
    PROVE  BInv'
<1> DEFINE on == [Now EXCEPT !.d.chk = TRUE, !.hw.radar = TRUE]
           begun == IF d.radar THEN on ELSE Now
           failed == [Now EXCEPT !.d.scanning = FALSE, !.d.past = @ \cup {"failed"}]
           over == [begun EXCEPT !.d.scanning = FALSE, !.hw.pause = @ \ {"bcn"}]
           n == ScanEnd(begun)
<1>1. UNCHANGED <<plan, tq>> /\ (Become(n) \/ Become(CloseAll(failed)))
  BY DEF rtwn_scan_end
<1>2. Shaped(Now)
  BY NowShaped DEF IInv
<1>3. Calm(Now, on) /\ Calm(Now, failed) /\ Shaped(failed)
  BY <1>2 DEF Calm, AirSame, FlagsSame, VapsSame, Shaped, DFields, HFields
<1> HIDE DEF on, failed
<1>4. Calm(Now, begun) /\ Shaped(begun)
  BY <1>2, <1>3, CalmSelf DEF Calm
<1>5. n = over \/ n = rtwn_set_rx_bssid_all(over, FALSE)
  BY DEF ScanEnd
<1> HIDE DEF begun, n
<1>6. Calm(begun, over) /\ Shaped(over)
  BY <1>4 DEF Calm, AirSame, FlagsSame, VapsSame, Shaped, DFields, HFields
<1> HIDE DEF over
<1>7. Calm(Now, n)
  BY <1>4, <1>5, <1>6, BssidAllCalm, CalmTransitive
<1>8. Calm(Now, CloseAll(failed))
  BY <1>3, CloseAllCalm, CalmTransitive
<1> QED
  BY <1>1, <1>7, <1>8, CalmStepSound DEF CalmStep

LEMMA MonitorSound ==
    ASSUME IInv, IInv', BInv, NEW x \in Vaps, NEW n \in States, rtwn_monitor_newstate(x, n)
    PROVE  BInv'
<1> DEFINE by == IF n = "RUN" THEN 1 ELSE -1
           m == [Now EXCEPT !.d.vr = @ + by, !.d.mr = @ + by]
<1>1. /\ tq = Idle /\ v[x].life = "up" /\ Mode(x) = "MON" /\ Become(m) /\ plan' = plan
      /\ tq' = [what |-> "state", vap |-> x, to |-> n]
  BY DEF rtwn_monitor_newstate, Move
<1>2. tq.what = "idle" /\ tq'.what = "state" /\ tq'.vap = x /\ tq'.to = n
  BY <1>1 DEF Idle
<1> HIDE DEF by
<1>3. Calm(Now, m) /\ m.v = v
  BY NowShaped DEF IInv, Calm, AirSame, FlagsSame, VapsSame, Shaped, DFields, Now
<1> HIDE DEF m
<1>4. v' = v
  BY <1>1, <1>3 DEF Become
<1>5. \A y \in Vaps : y # x => State(y)' = State(y)
  BY <1>2, <1>4 DEF State
<1>6. Linking' = Linking
  <2>1. Ported' = Ported /\ Ported \subseteq Vaps /\ x \notin Ported
    BY <1>1, <1>4, SameSets DEF Ported, Counted
  <2> QED BY <1>5, <2>1 DEF Linking
<1> QED
  BY <1>1, <1>3, <1>6, CalmSound

LEMMA StopSound ==
    ASSUME IInv, BInv, Become(rtwn_stop(Now)), UNCHANGED <<plan, tq>>
    PROVE  BInv'
<1> DEFINE n == rtwn_stop(Now)
<1>1. n.v = v /\ n.hw = hw /\ ~n.d.running /\ Become(n)
  BY NowShaped DEF IInv, rtwn_stop, Shaped, DFields, Now
<1> HIDE DEF n
<1>2. v' = v /\ hw' = hw /\ ~d'.running
  BY <1>1 DEF Become
<1>3. Ported' = Ported
  BY <1>2, SameSets
<1> QED
  BY <1>2, <1>3 DEF BInv, FlagsSound, PagesSound, Whole, Mode, Beacons

--------------------------------------------------------------------------
(* A vap that is not linked comes or goes.                                  *)

LEMMA OneVapSound ==
    ASSUME IInv, IInv', BInv, NEW x \in Vaps, NEW n, Become(n), UNCHANGED <<plan, tq>>, AirSame(Now, n),
           n.d.running = d.running, d.past \subseteq n.d.past,
           x \notin Linking, n.v[x].state = v[x].state, \A y \in Vaps : y # x => n.v[y] = v[y],
           ~n.v[x].updating, n.v[x].csa => v[x].csa, n.v[x].pm => v[x].pm, PagesSound'
    PROVE  BInv'
<1>1. v' = n.v /\ d' = n.d /\ hw' = n.hw /\ \A y \in Linking : y \in Vaps /\ y # x
  BY LinkingIs DEF Become, IInv
<1>2. StandStill
  BY <1>1 DEF StandStill, State
<1>3. Linking' = Linking
  BY <1>2, StillLinking DEF IInv
<1>4. FlagsSound'
  BY <1>1 DEF BInv, FlagsSound, Mode, Beacons
<1> QED
  BY <1>1, <1>3, <1>4, StillSound DEF AirSame, Now

LEMMA PortedLess ==
    ASSUME plan' = plan, NEW x \in Vaps, \A y \in Vaps : y # x => v'[y] = v[y],
           x \in Ported \/ v'[x].life \notin {"id", "set", "up"}
    PROVE  Ported' \subseteq Ported
BY DEF Ported, Counted, Mode

LEMMA CountAir ==
    ASSUME NEW m, Shaped(m), NEW x, NEW k
    PROVE  /\ Shaped(Count(m, x, k)) /\ Count(m, x, k).v = m.v /\ Count(m, x, k).hw = m.hw
           /\ Count(m, x, k).d.running = m.d.running /\ Count(m, x, k).d.past = m.d.past
BY DEF Count, Shaped, DFields

LEMMA OneBeacons ==
    ASSUME IInv, BInv, NEW x \in Vaps, plan' = plan, \A y \in Vaps : y # x => v'[y] = v[y],
           hw'.page = hw.page, Beacons(x) => d.bcn = 0 \/ (d.bcn = 1 /\ plan.bcnq1)
    PROVE  PagesSound'
<1>1. \A y : Mode(y)' = Mode(y) /\ Beacons(y)' = Beacons(y)
  BY DEF Mode, Beacons
<1>2. \A y \in Ported' : y = x \/ y \in Ported
  BY <1>1 DEF Ported, Counted
<1>3. Beacons(x) /\ ~plan.bcnq1 => \A y \in Ported : ~Beacons(y)
  <2>1. SUFFICES ASSUME d.bcn = 0 PROVE \A y \in Ported : ~Beacons(y)
    OBVIOUS
  <2>2. /\ IsFiniteSet({y \in Ported : Beacons(y)}) /\ Cardinality({y \in Ported : Beacons(y)}) = 0
    BY <2>1, CountedFinite DEF IInv, CountsSound
  <2>3. {y \in Ported : Beacons(y)} = {}
    BY <2>2, FS_EmptySet
  <2> QED BY <2>3
<1> QED
  BY <1>1, <1>2, <1>3 DEF BInv, PagesSound

LEMMA ChooseSound ==
    ASSUME IInv, IInv', BInv, NEW x \in Vaps, ChoosePort(x)
    PROVE  BInv'
<1> DEFINE id == IF Mode(x) = "MON" THEN INVALID ELSE FreePort(d.nv, d.slot)
           m == [Now EXCEPT !.v[x].life = "id", !.v[x].id = id]
           n == Count(m, x, 1)
<1>1. /\ v[x].life = "none" /\ ~v[x].csa /\ Become(n) /\ UNCHANGED <<plan, tq>>
      /\ Beacons(x) => d.bcn = 0 \/ (d.bcn = 1 /\ plan.bcnq1)
  BY DEF ChoosePort, Beacons
<1>2. Shaped(Now) /\ ~v[x].updating
  BY <1>1, NowShaped DEF IInv, BInv, FlagsSound
<1> HIDE DEF id
<1>3. /\ Shaped(m) /\ m.d = d /\ m.hw = hw /\ \A y \in Vaps : y # x => m.v[y] = v[y]
      /\ m.v[x].state = v[x].state /\ m.v[x].updating = v[x].updating
      /\ m.v[x].csa = v[x].csa /\ m.v[x].pm = v[x].pm
  BY <1>2 DEF Shaped, VFields, Now
<1> HIDE DEF m
<1>4. n.v = m.v /\ n.hw = hw /\ n.d.running = d.running /\ n.d.past = d.past
  BY <1>3, CountAir
<1> HIDE DEF n
<1>5. v' = n.v /\ hw' = hw
  BY <1>1, <1>4 DEF Become
<1>6. PagesSound'
  BY <1>1, <1>3, <1>4, <1>5, OneBeacons
<1>7. AirSame(Now, n) /\ x \notin Linking
  BY <1>1, <1>4, NotUpOutside DEF AirSame, Now
<1> QED
  BY <1>1, <1>2, <1>3, <1>4, <1>6, <1>7, OneVapSound

LEMMA StoreSound ==
    ASSUME IInv, IInv', BInv, NEW x \in Vaps, StoreVap(x)
    PROVE  BInv'
<1> DEFINE slots == IF v[x].id = INVALID THEN d.slot ELSE [d.slot EXCEPT ![v[x].id] = x]
           m == [Now EXCEPT !.v[x].life = "set", !.d.slot = slots]
<1>1. v[x].life = "id" /\ Become(m) /\ UNCHANGED <<plan, tq>>
  BY DEF StoreVap, Now
<1>2. Shaped(Now) /\ ~v[x].updating
  BY <1>1, NowShaped DEF IInv, BInv, FlagsSound
<1> HIDE DEF slots
<1>3. /\ m.d.running = d.running /\ m.d.past = d.past /\ m.hw = hw /\ \A y \in Vaps : y # x => m.v[y] = v[y]
      /\ m.v[x].state = v[x].state /\ m.v[x].updating = v[x].updating /\ m.v[x].life = "set"
      /\ m.v[x].csa = v[x].csa /\ m.v[x].pm = v[x].pm
  BY <1>2 DEF Shaped, VFields, DFields, Now
<1> HIDE DEF m
<1>4. v' = m.v /\ hw' = hw
  BY <1>1, <1>3 DEF Become
<1>5. Ported' = Ported
  BY <1>1, <1>3, <1>4 DEF Ported, Counted, Mode
<1>6. PagesSound'
  BY <1>1, <1>4, <1>5, PagesKept
<1>7. AirSame(Now, m) /\ x \notin Linking
  BY <1>1, <1>3, NotUpOutside DEF AirSame, Now
<1> QED
  BY <1>1, <1>2, <1>3, <1>6, <1>7, OneVapSound

LEMMA AttachSound ==
    ASSUME IInv, IInv', BInv, NEW x \in Vaps, AttachVap(x)
    PROVE  BInv'
<1> DEFINE up == [Now EXCEPT !.v[x].life = "up"]
           less == rtwn_vap_decrement_counters(Now, x)
           s == IF Mode(x) = "MON" THEN {"undone"} ELSE {}
           gone == [less EXCEPT !.v[x] = Blank, !.d.past = @ \cup s]
           n == UpdateIfRunning(up)
<1>1. v[x].life = "set" /\ UNCHANGED <<plan, tq>> /\ (Become(n) \/ Become(gone))
  BY DEF AttachVap
<1>2. Shaped(Now) /\ ~v[x].updating /\ x \in Counted /\ v[x].state = "INIT" /\ x \notin Linking
  BY <1>1, NowShaped, NotUpOutside DEF IInv, BInv, FlagsSound, Counted, LivesSound, LifeSound
<1>3. /\ Shaped(up) /\ up.d = d /\ up.hw = hw /\ \A y \in Vaps : y # x => up.v[y] = v[y]
      /\ up.v[x].state = v[x].state /\ up.v[x].updating = v[x].updating /\ up.v[x].life = "up"
      /\ up.v[x].csa = v[x].csa /\ up.v[x].pm = v[x].pm
  BY <1>2 DEF Shaped, VFields, Now
<1> HIDE DEF up, s
<1>4. n.v = up.v /\ n.d.running = d.running /\ n.d.past = d.past /\ AirSame(up, n)
  BY <1>3, UpdateIfEffect, UpdateCalm DEF Calm, FrameD
<1>5. /\ Shaped(less) /\ less.v = v /\ less.hw = hw /\ less.d.running = d.running /\ d.past \subseteq less.d.past
  <2> HIDE DEF less
  <2>1. less = rtwn_vap_decrement_counters(Now, x)
    BY DEF less
  <2> QED BY <1>2, <2>1, DecrementEffect
<1> HIDE DEF less, n
<1>6. /\ gone.hw = hw /\ gone.v = [v EXCEPT ![x] = Blank] /\ gone.d.running = d.running /\ d.past \subseteq gone.d.past
  BY <1>5 DEF Shaped, DFields
<1>7. /\ \A y \in Vaps : y # x => gone.v[y] = v[y]
      /\ gone.v[x] = Blank
  BY <1>2, <1>6 DEF Shaped, Now
<1> HIDE DEF gone
<1>8. CASE Become(n)
  <2>1. v' = n.v /\ hw'.page = hw.page /\ AirSame(Now, n)
    BY <1>3, <1>4, <1>8 DEF Become, AirSame, Now
  <2>2. Ported' = Ported
    BY <1>1, <1>3, <1>4, <2>1 DEF Ported, Counted, Mode
  <2>3. PagesSound'
    BY <1>1, <2>1, <2>2, PagesKept
  <2> QED BY <1>1, <1>2, <1>3, <1>4, <1>8, <2>1, <2>3, OneVapSound
<1>9. CASE Become(gone)
  <2>1. v' = gone.v /\ hw' = hw /\ AirSame(Now, gone)
    BY <1>6, <1>9 DEF Become, AirSame, Now
  <2>2. Ported' \subseteq Ported
    BY <1>1, <1>7, <2>1, PortedLess DEF Blank
  <2>3. PagesSound'
    BY <1>1, <2>1, <2>2, PagesKept
  <2>4. gone.v[x].state = v[x].state /\ ~gone.v[x].updating /\ ~gone.v[x].csa /\ ~gone.v[x].pm
    BY <1>2, <1>7 DEF Blank
  <2> QED BY <1>1, <1>2, <1>6, <1>7, <1>9, <2>1, <2>3, <2>4, OneVapSound
<1> QED
  BY <1>1, <1>8, <1>9

LEMMA DeleteSound ==
    ASSUME IInv, IInv', BInv, NEW x \in Vaps, rtwn_vap_delete(x)
    PROVE  BInv'
<1> DEFINE gone == IF Mode(x) = "IBSS" THEN [v[x] EXCEPT !.life = "dying"] ELSE [Blank EXCEPT !.csa = v[x].csa]
           less == rtwn_vap_decrement_counters(Now, x)
           m == [less EXCEPT !.v[x] = gone]
           n == UpdateIfRunning(m)
<1>1. /\ v[x].life = "up" /\ v[x].state = "INIT" /\ ~v[x].updating /\ UNCHANGED <<plan, tq>> /\ Become(n)
      /\ tq # [what |-> "state", vap |-> x, to |-> tq.to]
  BY DEF rtwn_vap_delete
<1>2. ~(tq.what = "state" /\ tq.vap = x)
  BY <1>1 DEF IInv, TypeOK
<1>3. Shaped(Now) /\ x \in Counted /\ x \notin Linking
  <2>1. State(x) = "INIT"
    BY <1>1, <1>2 DEF State
  <2> QED BY <1>1, <2>1, NowShaped, NotUpOutside DEF IInv, Counted
<1>4. /\ Shaped(less) /\ less.v = v /\ less.hw = hw /\ less.d.running = d.running /\ d.past \subseteq less.d.past
  <2> HIDE DEF less
  <2>1. less = rtwn_vap_decrement_counters(Now, x)
    BY DEF less
  <2> QED BY <1>3, <2>1, DecrementEffect
<1>5. /\ DOMAIN gone = VFields /\ gone.state = v[x].state /\ gone.life \notin {"id", "set", "up"}
      /\ ~gone.updating /\ gone.csa = v[x].csa /\ (gone.pm => v[x].pm)
  BY <1>1, <1>3 DEF Shaped, Blank, VFields, Now
<1> HIDE DEF less, gone
<1>6. /\ Shaped(m) /\ m.d = less.d /\ m.hw = hw /\ m.v = [v EXCEPT ![x] = gone]
  BY <1>4, <1>5 DEF Shaped
<1>7. m.v[x] = gone /\ \A y \in Vaps : y # x => m.v[y] = v[y]
  BY <1>3, <1>6 DEF Shaped, Now
<1> HIDE DEF m
<1>8. n.v = m.v /\ n.d.running = d.running /\ n.d.past = less.d.past /\ AirSame(m, n)
  BY <1>4, <1>6, UpdateIfEffect, UpdateCalm DEF Calm, FrameD
<1> HIDE DEF n
<1>9. v' = n.v /\ hw'.page = hw.page /\ AirSame(Now, n)
  BY <1>1, <1>6, <1>8 DEF Become, AirSame, Now
<1>10. PagesSound'
  BY <1>1, <1>5, <1>7, <1>8, <1>9, PortedLess, PagesKept
<1> QED
  BY <1>1, <1>3, <1>4, <1>5, <1>7, <1>8, <1>9, <1>10, OneVapSound

LEMMA FreeSound ==
    ASSUME IInv, IInv', BInv, NEW x \in Vaps, FreeVap(x)
    PROVE  BInv'
<1> DEFINE m == [Now EXCEPT !.v[x] = Blank]
<1>1. v[x].life = "dying" /\ Become(m) /\ UNCHANGED <<plan, tq>>
  BY DEF FreeVap
<1>2. Shaped(Now) /\ v[x].state = "INIT" /\ x \notin Linking
  BY <1>1, NowShaped, NotUpOutside DEF IInv, LivesSound, LifeSound
<1>3. m.d = d /\ m.hw = hw /\ m.v[x] = Blank /\ \A y \in Vaps : y # x => m.v[y] = v[y]
  BY <1>2 DEF Shaped, Now
<1> HIDE DEF m
<1>4. v' = m.v /\ hw' = hw /\ AirSame(Now, m)
  BY <1>1, <1>3 DEF Become, AirSame, Now
<1>5. PagesSound'
  BY <1>1, <1>3, <1>4, PortedLess, PagesKept DEF Blank
<1> QED
  BY <1>1, <1>2, <1>3, <1>4, <1>5, OneVapSound DEF Blank

--------------------------------------------------------------------------
(* Beacon updates, power save and rtwn_init().                               *)

LEMMA SameVaps ==
    ASSUME IInv, IInv', NEW n, Become(n), UNCHANGED <<plan, tq>>, VapsSame(Now, n),
           n.d.running = d.running, d.past \subseteq n.d.past
    PROVE  /\ \A y : Mode(y)' = Mode(y) /\ Beacons(y)' = Beacons(y)
           /\ Ported' = Ported /\ Linking' = Linking /\ Beaconing' = Beaconing
           /\ Beaconing \subseteq Linking /\ Linking \subseteq Ported /\ Ported \subseteq Vaps
           /\ \A y \in Vaps : v'[y].id = v[y].id /\ (Saver(y)' <=> Saver(y))
           /\ \A f : Unharmed(f)' => Unharmed(f)
           /\ Whole' => Whole
<1>1. v' = n.v /\ d' = n.d
  BY DEF Become
<1>2. \A y \in Vaps : v'[y].life = v[y].life /\ v'[y].id = v[y].id /\ v'[y].state = v[y].state
  BY <1>1 DEF VapsSame, Now
<1>3. \A y : Mode(y)' = Mode(y) /\ Beacons(y)' = Beacons(y)
  BY DEF Mode, Beacons
<1>4. StandStill
  BY <1>1, <1>2 DEF StandStill, State
<1>5. Ported' = Ported /\ Linking' = Linking
  BY <1>2, <1>4, SameSets, StillLinking DEF IInv
<1>6. Beaconing' = Beaconing
  BY <1>3, <1>5 DEF Beaconing
<1>7. Beaconing \subseteq Linking /\ Linking \subseteq Ported /\ Ported \subseteq Vaps
  BY DEF Beaconing, Linking, Ported, Counted
<1>8. \A y \in Vaps : Saver(y)' <=> Saver(y)
  BY <1>2, <1>3, <1>5 DEF Saver
<1>9. \A f : Unharmed(f)' => Unharmed(f)
  BY <1>1 DEF Unharmed
<1>10. Whole' => Whole
  BY <1>1, <1>9 DEF Whole
<1> QED
  BY <1>2, <1>3, <1>5, <1>6, <1>7, <1>8, <1>9, <1>10

\* On a whole device the ports of two vaps differ, and so do the pages of two
\* that beacon.
LEMMA PortsApart ==
    ASSUME IInv, BInv, Unharmed({"raced"}), NEW x \in Ported, NEW y \in Ported, x # y
    PROVE  v[x].id # v[y].id /\ (Beacons(x) /\ Beacons(y) => Page(v[x].id) # Page(v[y].id))
BY DEF IInv, BInv, SlotsSound, PagesSound, Page

LEMMA PageIsPort ==
    ASSUME NEW p \in Ports
    PROVE  Page(p) \in Ports
BY DEF Page, Ports

\* An update of the beacon of x began.
Begun(x, n) ==
    /\ n.d.running = d.running /\ d.past \subseteq n.d.past
    /\ n.v[x].updating /\ (n.v[x].csa => Mode(x) = "AP")
    /\ \A y \in Vaps :
         /\ n.v[y].life = v[y].life /\ n.v[y].id = v[y].id /\ n.v[y].state = v[y].state
         /\ n.v[y].pm = v[y].pm
         /\ y # x => n.v[y].updating = v[y].updating /\ n.v[y].csa = v[y].csa
    /\ n.hw.page = hw.page /\ n.hw.null = hw.null /\ n.hw.ps = hw.ps
    /\ n.hw.en = IF plan.bus = "PCI" THEN hw.en \ {v[x].id} ELSE hw.en

LEMMA BeginSound ==
    ASSUME IInv, IInv', BInv, NEW x \in Vaps, v[x].life = "up", Beacons(x),
           NEW n, Become(n), UNCHANGED <<plan, tq>>, Begun(x, n)
    PROVE  BInv'
<1>1. v' = n.v /\ d' = n.d /\ hw' = n.hw
  BY DEF Become
<1>0. VapsSame(Now, n) /\ n.d.running = d.running /\ d.past \subseteq n.d.past
  BY DEF Begun, VapsSame, Now
<1>2. /\ \A y : Mode(y)' = Mode(y) /\ Beacons(y)' = Beacons(y)
      /\ Ported' = Ported /\ Linking' = Linking /\ Beaconing' = Beaconing
      /\ Beaconing \subseteq Linking /\ Linking \subseteq Ported /\ Ported \subseteq Vaps
      /\ \A y \in Vaps : v'[y].id = v[y].id /\ (Saver(y)' <=> Saver(y))
      /\ \A f : Unharmed(f)' => Unharmed(f)
      /\ Whole' => Whole
  BY <1>0, SameVaps
<1>3. FlagsSound'
  BY <1>1, <1>2 DEF BInv, FlagsSound, Begun
<1>4. PagesSound'
  BY <1>1, <1>2, PagesKept DEF Begun
<1>5. x \in Ported
  BY DEF Ported, Counted, Beacons
<1>6. ASSUME Whole, EnabledSound
      PROVE  EnabledSound'
  <2>1. \A p \in hw'.en : \E y \in Beaconing' : v'[y].id = p
    BY <1>1, <1>2, <1>6 DEF EnabledSound, Begun
  <2>2. ASSUME NEW y \in Beaconing
        PROVE  v'[y].id \in hw'.en \/ (plan'.bus = "PCI" /\ v'[y].updating)
    <3>1. y # x => v[y].id # v[x].id
      BY <1>2, <1>5, <1>6, PortsApart DEF Whole, Unharmed
    <3> QED BY <1>1, <1>2, <1>6, <3>1 DEF EnabledSound, Begun
  <2>3. ASSUME NEW y \in Beaconing
        PROVE  (hw.page[Page(v[y].id)] = y)'
    BY <1>1, <1>2, <1>6 DEF EnabledSound, Page, Begun
  <2> QED BY <1>1, <1>2, <2>1, <2>2, <2>3 DEF EnabledSound
<1>7. SaveSound => SaveSound'
  BY <1>1, <1>2 DEF SaveSound, Begun
<1> QED
  BY <1>2, <1>3, <1>4, <1>6, <1>7 DEF BInv

Begins(m, x, n) ==
    /\ Shaped(n) /\ n.d = m.d /\ n.v[x].updating
    /\ \A y \in Vaps :
         /\ n.v[y].life = m.v[y].life /\ n.v[y].id = m.v[y].id /\ n.v[y].state = m.v[y].state
         /\ n.v[y].pm = m.v[y].pm /\ n.v[y].csa = m.v[y].csa
         /\ y # x => n.v[y].updating = m.v[y].updating
    /\ n.hw.page = m.hw.page /\ n.hw.null = m.hw.null /\ n.hw.ps = m.hw.ps
    /\ n.hw.en = IF plan.bus = "PCI" THEN m.hw.en \ {v[x].id} ELSE m.hw.en

LEMMA BeginEffect ==
    ASSUME NEW m, Shaped(m), NEW x \in Vaps, NEW n, n = BeginUpdate(m, x)
    PROVE  Begins(m, x, n)
<1> DEFINE begun == [m EXCEPT !.v[x].updating = TRUE]
           off == [begun EXCEPT !.hw.en = @ \ {v[x].id}]
<1>1. n = IF plan.bus = "PCI" THEN off ELSE begun
  BY DEF BeginUpdate, rtwn_beacon_enable
<1>2. /\ Shaped(begun) /\ begun.d = m.d /\ begun.hw = m.hw
      /\ \A y \in Vaps :
                /\ begun.v[y].life = m.v[y].life /\ begun.v[y].id = m.v[y].id /\ begun.v[y].state = m.v[y].state
                /\ begun.v[y].pm = m.v[y].pm /\ begun.v[y].csa = m.v[y].csa
                /\ y # x => begun.v[y].updating = m.v[y].updating
      /\ begun.v[x].updating
  BY DEF Shaped, VFields
<1> HIDE DEF begun
<1>3. /\ Shaped(off) /\ off.d = m.d /\ off.v = begun.v /\ off.hw.en = m.hw.en \ {v[x].id}
      /\ off.hw.page = m.hw.page /\ off.hw.null = m.hw.null /\ off.hw.ps = m.hw.ps
  BY <1>2 DEF Shaped, HFields
<1> HIDE DEF off
<1>4. CASE plan.bus = "PCI"
  <2>1. n = off
    BY <1>1, <1>4
  <2> QED BY <1>2, <1>3, <1>4, <2>1 DEF Begins
<1>5. CASE plan.bus # "PCI"
  <2>1. n = begun
    BY <1>1, <1>5
  <2> QED BY <1>2, <1>5, <2>1 DEF Begins
<1> QED
  BY <1>4, <1>5

LEMMA UpdateSound ==
    ASSUME IInv, IInv', BInv, NEW x \in Vaps, rtwn_update_beacon(x)
    PROVE  BInv'
<1> DEFINE b == BeginUpdate(Now, x)
           c == [b EXCEPT !.v[x].csa = TRUE, !.d.csapending = TRUE]
<1>1. /\ v[x].life = "up" /\ Beacons(x) /\ UNCHANGED <<plan, tq>>
      /\ Become(b) \/ (Mode(x) = "AP" /\ Become(c))
  BY DEF rtwn_update_beacon
<1>2. Now.v = v /\ Now.d = d /\ Now.hw = hw /\ Shaped(Now)
  BY NowShaped DEF IInv, Now
<1>3. b = BeginUpdate(Now, x)
  OBVIOUS
<1> HIDE DEF b
<1>4. Shaped(b) /\ Begun(x, b)
  <2>1. Begins(Now, x, b)
    BY <1>2, <1>3, BeginEffect
  <2> QED BY <1>2, <2>1 DEF Begins, Begun, BInv, FlagsSound
<1>5. CASE Become(b)
  BY <1>1, <1>4, <1>5, BeginSound
<1>6. CASE Mode(x) = "AP" /\ Become(c)
  <2>1. /\ c.hw = b.hw /\ c.d.running = b.d.running /\ c.d.past = b.d.past
        /\ \A y \in Vaps :
             /\ c.v[y].life = b.v[y].life /\ c.v[y].id = b.v[y].id /\ c.v[y].state = b.v[y].state
             /\ c.v[y].pm = b.v[y].pm /\ c.v[y].updating = b.v[y].updating
             /\ y # x => c.v[y].csa = b.v[y].csa
    BY ZenonT(30), <1>4 DEF Shaped, VFields, DFields
  <2> HIDE DEF c
  <2>2. Begun(x, c)
    BY <1>4, <1>6, <2>1 DEF Begun
  <2> QED BY <1>1, <1>6, <2>2, BeginSound
<1> QED
  BY <1>1, <1>5, <1>6

LEMMA CsaSound ==
    ASSUME IInv, IInv', BInv, NEW x \in Vaps, rtwn_tx_beacon_csa(x)
    PROVE  BInv'
<1> DEFINE fired == [Now EXCEPT !.v[x].csa = FALSE]
           b == BeginUpdate(fired, x)
           c(more) == [b EXCEPT !.v[x].csa = more]
<1>1. /\ v[x].life = "up" /\ v[x].csa /\ UNCHANGED <<plan, tq>>
      /\ Become(fired) \/ \E more \in BOOLEAN : Become(c(more))
  BY DEF rtwn_tx_beacon_csa
<1>2. Mode(x) = "AP" /\ Beacons(x)
  BY <1>1 DEF BInv, FlagsSound, Beacons
<1>3. /\ Shaped(fired) /\ fired.hw = hw /\ fired.d = d
      /\ \A y \in Vaps :
           /\ fired.v[y].life = v[y].life /\ fired.v[y].id = v[y].id /\ fired.v[y].state = v[y].state
           /\ fired.v[y].pm = v[y].pm /\ fired.v[y].updating = v[y].updating
           /\ y # x => fired.v[y].csa = v[y].csa
      /\ ~fired.v[x].csa
  BY NowShaped DEF IInv, Shaped, VFields, Now
<1> HIDE DEF fired
<1>4. Shaped(b) /\ Begun(x, b)
  <2> HIDE DEF b
  <2>1. b = BeginUpdate(fired, x)
    BY DEF b
  <2>2. Begins(fired, x, b)
    BY <1>3, <2>1, BeginEffect
  <2> QED BY <1>2, <1>3, <2>2 DEF Begins, Begun
<1> HIDE DEF b
<1>5. CASE Become(fired)
  <2>1. v' = fired.v /\ d' = d /\ hw' = hw /\ VapsSame(Now, fired)
    BY <1>3, <1>5 DEF Become, VapsSame, Now
  <2>2. /\ Ported' = Ported /\ Linking' = Linking /\ Linking \subseteq Ported /\ Ported \subseteq Vaps
    BY <1>1, <1>3, <1>5, <2>1, SameVaps
  <2>3. FlagsSound'
    BY <1>1, <1>2, <1>3, <2>1 DEF BInv, FlagsSound, Mode, Beacons
  <2>4. PagesSound'
    BY <1>1, <2>1, <2>2, PagesKept
  <2> QED BY <1>1, <1>3, <2>1, <2>2, <2>3, <2>4, StillSound
<1>6. ASSUME NEW more \in BOOLEAN, Become(c(more))
      PROVE  BInv'
  <2> DEFINE n == c(more)
  <2>1. /\ n.hw = b.hw /\ n.d = b.d
        /\ \A y \in Vaps :
             /\ n.v[y].life = b.v[y].life /\ n.v[y].id = b.v[y].id /\ n.v[y].state = b.v[y].state
             /\ n.v[y].pm = b.v[y].pm /\ n.v[y].updating = b.v[y].updating
             /\ y # x => n.v[y].csa = b.v[y].csa
    BY <1>4 DEF Shaped, VFields
  <2>2. Become(n)
    BY <1>6
  <2> HIDE DEF n
  <2>3. Begun(x, n)
    BY <1>2, <1>4, <2>1 DEF Begun
  <2> QED BY <1>1, <1>2, <2>2, <2>3, BeginSound
<1> QED
  BY <1>1, <1>5, <1>6

LEMMA EndSound ==
    ASSUME IInv, IInv', BInv, NEW x \in Vaps, rtwn_update_beacon_end(x)
    PROVE  BInv'
<1> DEFINE begun == [Now EXCEPT !.v[x].updating = FALSE]
           sent == rtwn_tx_beacon(begun, x, x)
           on == rtwn_beacon_enable(sent, v[x].id, TRUE)
           enables == plan.bus = "PCI" /\ v[x].curr # "NOLINK"
           n == UpdateEnd(Now, x)
<1>1. v[x].updating /\ UNCHANGED <<plan, tq>> /\ Become(n)
  BY DEF rtwn_update_beacon_end
<1>2. v[x].life = "up" /\ Beacons(x) /\ x \in Ported /\ v[x].id \in Ports
  BY <1>1 DEF BInv, FlagsSound, Beacons, Ported, Counted, IInv, LivesSound, LifeSound
<1>3. n = IF enables THEN on ELSE sent
  BY DEF UpdateEnd, Now
<1>4. /\ Shaped(begun) /\ begun.d = d /\ begun.hw = hw /\ ~begun.v[x].updating
      /\ \A y \in Vaps :
           /\ begun.v[y].life = v[y].life /\ begun.v[y].id = v[y].id /\ begun.v[y].state = v[y].state
           /\ begun.v[y].pm = v[y].pm /\ begun.v[y].csa = v[y].csa
           /\ y # x => begun.v[y].updating = v[y].updating
  BY NowShaped DEF IInv, Shaped, VFields, Now
<1> HIDE DEF begun, n, enables
<1>5. /\ Shaped(sent) /\ sent.d = d /\ sent.v = begun.v /\ sent.hw.en = hw.en
      /\ sent.hw.page = [hw.page EXCEPT ![Page(v[x].id)] = x] /\ sent.hw.null = hw.null /\ sent.hw.ps = hw.ps
  BY <1>4 DEF rtwn_tx_beacon, Shaped, HFields
<1> HIDE DEF sent
<1>6. /\ Shaped(on) /\ on.d = d /\ on.v = begun.v /\ on.hw.en = hw.en \cup {v[x].id}
      /\ on.hw.page = [hw.page EXCEPT ![Page(v[x].id)] = x] /\ on.hw.null = hw.null /\ on.hw.ps = hw.ps
  BY <1>5 DEF rtwn_beacon_enable, Shaped, HFields
<1> HIDE DEF on
<1>7. /\ n.d = d /\ n.v = begun.v
      /\ n.hw.page = [hw.page EXCEPT ![Page(v[x].id)] = x] /\ n.hw.null = hw.null /\ n.hw.ps = hw.ps
      /\ hw.en \subseteq n.hw.en
      /\ enables => v[x].id \in n.hw.en
      /\ \A p \in n.hw.en : p \in hw.en \/ (enables /\ p = v[x].id)
  BY <1>3, <1>5, <1>6
<1>8. v' = begun.v /\ d' = d /\ hw' = n.hw
  BY <1>1, <1>7 DEF Become
<1>9. /\ \A y : Mode(y)' = Mode(y) /\ Beacons(y)' = Beacons(y)
      /\ Ported' = Ported /\ Linking' = Linking /\ Beaconing' = Beaconing
      /\ Beaconing \subseteq Linking /\ Linking \subseteq Ported /\ Ported \subseteq Vaps
      /\ \A y \in Vaps : v'[y].id = v[y].id /\ (Saver(y)' <=> Saver(y))
      /\ \A f : Unharmed(f)' => Unharmed(f)
      /\ Whole' => Whole
  <2>1. VapsSame(Now, n) /\ n.d.running = d.running /\ d.past \subseteq n.d.past
    BY <1>4, <1>7 DEF VapsSame, Now
  <2> QED BY <1>1, <2>1, SameVaps
<1>10. FlagsSound'
  BY <1>1, <1>4, <1>8, <1>9 DEF BInv, FlagsSound
<1>11. PagesSound'
  BY <1>1, <1>7, <1>8, <1>9 DEF BInv, PagesSound
<1>12. ASSUME Whole, EnabledSound
       PROVE  EnabledSound'
  <2>1. enables => x \in Linking
    BY <1>2, <1>12 DEF enables, IInv, LinksSound, Whole
  <2>2. x \in Linking => v[x].curr # "NOLINK"
    BY <1>2, <1>12 DEF IInv, LinksSound, Whole
  <2>3. \A p \in hw'.en : \E y \in Beaconing' : v'[y].id = p
    <3>1. enables => x \in Beaconing
      BY <1>2, <2>1 DEF Beaconing
    <3> QED BY <1>7, <1>8, <1>9, <1>12, <3>1 DEF EnabledSound
  <2>4. ASSUME NEW y \in Beaconing
        PROVE  /\ v'[y].id \in hw'.en \/ (plan'.bus = "PCI" /\ v'[y].updating)
               /\ (hw.page[Page(v[y].id)] = y)'
    <3>1. DOMAIN hw.page = Ports /\ Page(v[x].id) \in Ports
      BY <1>2, PageIsPort DEF BInv, PagesSound
    <3>2. CASE y = x
      <4>1. plan.bus = "PCI" => enables
        BY <1>9, <2>2, <2>4, <3>2 DEF enables
      <4>2. plan.bus # "PCI" => v[x].id \in hw.en
        BY <1>12, <2>4, <3>2 DEF EnabledSound
      <4>3. v[x].id \in n.hw.en
        BY <1>7, <4>1, <4>2
      <4>4. n.hw.page[Page(v[x].id)] = x
        BY <1>7, <3>1
      <4> QED BY <1>1, <1>2, <1>8, <1>9, <3>2, <4>3, <4>4 DEF Page
    <3>3. CASE y # x
      <4>1. y \in Ported /\ Beacons(y) /\ y \in Vaps
        BY <1>9, <2>4 DEF Beaconing
      <4>2. Page(v[x].id) # Page(v[y].id)
        BY <1>2, <1>12, <3>3, <4>1, PortsApart DEF Whole, Unharmed
      <4>3. n.hw.page[Page(v[y].id)] = y
        <5>1. Page(v[y].id) \in Ports
          BY <4>1, PageIsPort DEF IInv, LivesSound, LifeSound
        <5>2. hw.page[Page(v[y].id)] = y
          BY <1>12, <2>4 DEF EnabledSound
        <5> QED BY <1>7, <3>1, <4>2, <5>1, <5>2
      <4>4. v[y].id \in hw.en \/ (plan.bus = "PCI" /\ v[y].updating)
        BY <1>12, <2>4 DEF EnabledSound
      <4>5. v'[y].id = v[y].id /\ v'[y].updating = v[y].updating
        BY <1>4, <1>8, <3>3, <4>1
      <4> QED BY <1>1, <1>7, <1>8, <4>3, <4>4, <4>5 DEF Page
    <3> QED BY <3>2, <3>3
  <2> QED BY <1>9, <2>3, <2>4 DEF EnabledSound
<1>13. SaveSound => SaveSound'
  BY <1>1, <1>7, <1>8, <1>9 DEF SaveSound
<1> QED
  BY <1>9, <1>10, <1>11, <1>12, <1>13 DEF BInv

\* What a step that sets power save has to respect.
LEMMA PwrmodeSound ==
    ASSUME IInv, IInv', BInv, NEW n, Become(n), UNCHANGED <<plan, tq>>, VapsSame(Now, n),
           n.d.running = d.running, d.past \subseteq n.d.past,
           n.hw.en = hw.en, n.hw.page = hw.page, n.hw.null = hw.null,
           \A y \in Vaps : /\ n.v[y].updating = v[y].updating /\ n.v[y].csa = v[y].csa
                           /\ n.v[y].pm => plan.pmgt /\ Mode(y) = "STA",
           Whole /\ n.hw.ps /\ "late" \notin n.d.past => plan.pmgt /\ \E y \in Vaps : Saver(y)
    PROVE  BInv'
<1>1. v' = n.v /\ d' = n.d /\ hw' = n.hw
  BY DEF Become
<1>2. /\ \A y : Mode(y)' = Mode(y) /\ Beacons(y)' = Beacons(y)
      /\ Ported' = Ported /\ Linking' = Linking /\ Beaconing' = Beaconing
      /\ Beaconing \subseteq Linking /\ Linking \subseteq Ported /\ Ported \subseteq Vaps
      /\ \A y \in Vaps : v'[y].id = v[y].id /\ (Saver(y)' <=> Saver(y))
      /\ \A f : Unharmed(f)' => Unharmed(f)
      /\ Whole' => Whole
  BY SameVaps
<1>3. FlagsSound'
  BY <1>1, <1>2 DEF BInv, FlagsSound, VapsSame, Now
<1>4. PagesSound'
  BY <1>1, <1>2, PagesKept
<1>5. EnabledSound => EnabledSound'
  BY <1>1, <1>2 DEF EnabledSound, Page
<1>6. Whole /\ SaveSound => SaveSound'
  <2>1. Unharmed({"late"})' => "late" \notin n.d.past
    BY <1>1 DEF Unharmed
  <2> QED BY <1>1, <1>2, <2>1 DEF SaveSound
<1> QED
  BY <1>2, <1>3, <1>4, <1>5, <1>6 DEF BInv

LEMMA ResetSound ==
    ASSUME IInv, IInv', BInv, NEW x \in Vaps, rtwn_ioctl_reset(x)
    PROVE  BInv'
<1> DEFINE pm == ~v[x].pm
           set == [Now EXCEPT !.v[x].pm = pm]
           save == TRUE /\ set.v[x].state = "RUN" /\ set.v[x].pm
           told == IF d.running THEN [set EXCEPT !.hw.ps = save] ELSE set
           late == IF told.hw.ps /\ v[x].curr = "NOLINK" THEN {"late"} ELSE {}
           n == [told EXCEPT !.d.past = @ \cup late]
<1>1. /\ plan.pmgt /\ v[x].life = "up" /\ Mode(x) = "STA" /\ v[x].id = 0 /\ UNCHANGED <<plan, tq>>
      /\ Become(n)
  BY DEF rtwn_ioctl_reset, set_pwrmode, Now
<1> HIDE DEF pm
<1>2. /\ Shaped(set) /\ set.d = d /\ set.hw = hw
      /\ \A y \in Vaps :
           /\ set.v[y].life = v[y].life /\ set.v[y].id = v[y].id /\ set.v[y].state = v[y].state
           /\ set.v[y].updating = v[y].updating /\ set.v[y].csa = v[y].csa
           /\ y # x => set.v[y].pm = v[y].pm
  BY NowShaped DEF IInv, Shaped, VFields, Now
<1> HIDE DEF set, save
<1>3. /\ Shaped(told) /\ told.d = d /\ told.v = set.v
      /\ told.hw.en = hw.en /\ told.hw.page = hw.page /\ told.hw.null = hw.null
  BY <1>2 DEF Shaped, HFields
<1> HIDE DEF told, late
<1>4. /\ n.d.running = d.running /\ n.d.past = d.past \cup late /\ n.v = set.v /\ n.hw = told.hw
  BY <1>3 DEF Shaped, DFields
<1> HIDE DEF n
<1>5. \A y \in Vaps : n.v[y].pm => plan.pmgt /\ Mode(y) = "STA"
  BY <1>1, <1>2, <1>4 DEF BInv, FlagsSound
<1>6. VapsSame(Now, n)
  BY <1>2, <1>4 DEF VapsSame, Now
<1>7. ASSUME Whole, n.hw.ps, "late" \notin n.d.past
      PROVE  Saver(x)
  <2>1. x \in Ported
    BY <1>1 DEF Ported, Counted
  <2>2. v[x].curr # "NOLINK"
    BY <1>4, <1>7 DEF late
  <2> QED BY <1>1, <1>7, <2>1, <2>2 DEF Saver, IInv, LinksSound, Whole
<1> QED
  BY <1>1, <1>2, <1>3, <1>4, <1>5, <1>6, <1>7, PwrmodeSound

LEMMA PwrmodeCbSound ==
    ASSUME IInv, IInv', BInv, rtwn_set_pwrmode_cb
    PROVE  BInv'
<1> DEFINE done == [Now EXCEPT !.d.pwrcmd = FALSE]
           x == d.slot[0]
           save == TRUE /\ done.v[x].state = "RUN" /\ done.v[x].pm
           told == [done EXCEPT !.hw.ps = save]
<1>1. /\ tq.what = "idle" /\ UNCHANGED <<plan, tq>>
      /\ Become(IF d.running /\ x # NoVap THEN told ELSE done)
  BY DEF rtwn_set_pwrmode_cb, set_pwrmode, Idle
<1>2. Shaped(done) /\ Calm(Now, done) /\ done.v = v /\ done.d.running = d.running /\ done.d.past = d.past
      /\ done.hw = hw
  BY NowShaped DEF IInv, Calm, AirSame, FlagsSame, VapsSame, Shaped, DFields, Now
<1>3. CASE d.running /\ x # NoVap
  <2>1. x \in Ported /\ x \in Vaps /\ v[x].id = 0
    BY <1>3 DEF IInv, SlotsSound, Ported, Counted, Ports
  <2>2. save => v[x].state = "RUN" /\ v[x].pm
    BY <1>2
  <2>3. save => plan.pmgt /\ Saver(x)
    BY <1>1, <2>1, <2>2 DEF BInv, FlagsSound, Saver, Linking, State
  <2> HIDE DEF done, x, save
  <2>4. /\ told.v = v /\ told.d.running = d.running /\ told.d.past = d.past /\ told.hw.ps = save
        /\ told.hw.en = hw.en /\ told.hw.page = hw.page /\ told.hw.null = hw.null
    BY <1>2 DEF Shaped, HFields
  <2>5. VapsSame(Now, told)
    BY <2>4 DEF VapsSame, Now
  <2>6. \A y \in Vaps : told.v[y].pm => plan.pmgt /\ Mode(y) = "STA"
    BY <2>4 DEF BInv, FlagsSound
  <2>7. Become(told)
    BY <1>1, <1>3
  <2> HIDE DEF told
  <2> QED BY <1>1, <2>1, <2>3, <2>4, <2>5, <2>6, <2>7, PwrmodeSound
<1>4. CASE ~(d.running /\ x # NoVap)
  BY <1>1, <1>2, <1>4, CalmStepSound DEF CalmStep
<1> QED
  BY <1>3, <1>4

LEMMA InitAir ==
    ASSUME NEW m, Shaped(m), NEW n, n = rtwn_init(m)
    PROVE  FlagsSame(m, n) /\ n.hw.en = {} /\ ~n.hw.ps /\ DOMAIN n.hw.page = Ports
<1> DEFINE off == [m EXCEPT !.hw = PoweredOn, !.d.past = @ \ {"failed", "hidden", "late", "undone"}]
           one == rtwn_set_mode(off, "NOLINK", 0)
           two == rtwn_set_mode(one, "NOLINK", 1)
           ready == [two EXCEPT !.hw.flt2 = FALSE, !.d.rcr = @ \cup {"apm"}]
           mgt == rtwn_rxfilter_update_mgt(ready)
           u == rtwn_set_promisc(mgt)
           Off(o) == o.hw.en = {} /\ ~o.hw.ps /\ DOMAIN o.hw.page = Ports
<1>1. n = [u EXCEPT !.d.running = TRUE]
  BY DEF rtwn_init, rtwn_rxfilter_init, rtwn_rxfilter_update
<1>2. Shaped(off) /\ off.v = m.v /\ Off(off)
  BY DEF Shaped, DFields, PoweredOn, HFields
<1> HIDE DEF off
<1>3. ASSUME NEW o, Shaped(o), NEW p, p = rtwn_set_mode(o, "NOLINK", 0) \/ p = rtwn_set_mode(o, "NOLINK", 1)
      PROVE  FlagsSame(o, p)
  BY <1>3 DEF rtwn_set_mode, FlagsSame, Shaped, VFields, Ports
<1>4. Shaped(one) /\ one.hw = off.hw /\ FlagsSame(off, one)
  BY <1>2, <1>3, SetModeEffect DEF Ports
<1> HIDE DEF one
<1>5. Shaped(two) /\ two.hw = off.hw /\ FlagsSame(one, two)
  BY <1>3, <1>4, SetModeEffect DEF Ports
<1> HIDE DEF two
<1>6. Shaped(ready) /\ Off(ready) /\ ready.v = two.v
  BY <1>2, <1>5 DEF Shaped, DFields, HFields
<1> HIDE DEF ready
<1>7. Shaped(mgt) /\ Off(mgt) /\ mgt.v = ready.v
  BY <1>6 DEF rtwn_rxfilter_update_mgt, Shaped, HFields
<1> HIDE DEF mgt
<1>8. Shaped(u) /\ Off(u) /\ FlagsSame(mgt, u)
  BY <1>7, PromiscCalm DEF Calm, AirSame
<1> HIDE DEF u
<1>9. n.v = u.v /\ n.hw = u.hw
  BY <1>1, <1>8 DEF Shaped, DFields
<1>10. FlagsSame(m, n)
  BY <1>2, <1>4, <1>5, <1>6, <1>7, <1>8, <1>9 DEF FlagsSame
<1> QED
  BY <1>8, <1>9, <1>10

LEMMA StartSound ==
    ASSUME IInv, IInv', BInv, Become(rtwn_init(Now)), UNCHANGED <<plan, tq>>, tq = Idle, ~d.running
    PROVE  BInv'
<1>1. Shaped(Now) /\ ~Now.d.locked /\ tq.what = "idle" /\ Now.v = v /\ Now.d = d
  BY NowShaped DEF IInv, RcrSound, Idle, Now
<1>2. PICK n : n = rtwn_init(Now)
  OBVIOUS
<1>3. /\ FlagsSame(Now, n) /\ n.hw.en = {} /\ ~n.hw.ps /\ DOMAIN n.hw.page = Ports
  BY <1>1, <1>2, InitAir
<1>4. \A y \in Vaps : n.v[y].life = v[y].life /\ n.v[y].state = v[y].state
  BY <1>1, <1>2, InitEffect
<1>5. v' = n.v /\ hw' = n.hw
  BY <1>2 DEF Become
<1>6. Ported' = Ported /\ Ported \subseteq Vaps
  BY <1>4, <1>5, SameSets DEF Ported, Counted
<1>7. \A y \in Vaps : State(y)' = "INIT"
  BY <1>1, <1>4, <1>5 DEF State, IInv, LivesSound, LifeSound
<1>8. Linking' = {} /\ Beaconing' = {}
  BY <1>6, <1>7 DEF Linking, Beaconing
<1>9. FlagsSound'
  BY <1>1, <1>3, <1>4, <1>5 DEF BInv, FlagsSound, FlagsSame, Mode, Beacons
<1>10. PagesSound'
  BY <1>3, <1>5, <1>6 DEF BInv, PagesSound, Mode, Beacons
<1>11. EnabledSound' /\ SaveSound'
  BY <1>3, <1>5, <1>8 DEF EnabledSound, SaveSound, Saver
<1> QED
  BY <1>9, <1>10, <1>11 DEF BInv

LEMMA ParentSound ==
    ASSUME IInv, IInv', BInv, rtwn_parent
    PROVE  BInv'
<1>1. UNCHANGED <<plan, tq>> /\ tq = Idle
  BY DEF rtwn_parent
<1>2. CASE ~d.running /\ Become(rtwn_init(Now))
  BY <1>1, <1>2, StartSound
<1>3. CASE Become(CloseAll(Now))
  BY <1>1, <1>3, NowShaped, CloseAllCalm, CalmStepSound DEF IInv, CalmStep
<1>4. CASE Become(rtwn_stop(Now))
  BY <1>1, <1>4, StopSound
<1> QED
  BY <1>2, <1>3, <1>4 DEF rtwn_parent

--------------------------------------------------------------------------
(* What a change of state does to beacons, pages and power save.             *)

\* A step of rtwn_newstate() sets neither "updating" nor "pm", announces no
\* channel switch, and loses no page.
Mild(m, n) ==
    /\ Shaped(n) /\ DOMAIN n.hw.page = DOMAIN m.hw.page
    /\ \A y \in Vaps : /\ n.v[y].updating = m.v[y].updating /\ n.v[y].pm = m.v[y].pm
                       /\ n.v[y].csa => m.v[y].csa
\* Nor is anything on the air changed.
Silent(m, n) == Mild(m, n) /\ AirSame(m, n)

LEMMA MildTransitive ==
    ASSUME NEW m, NEW n, NEW o, Mild(m, n), Mild(n, o)
    PROVE  Mild(m, o)
BY DEF Mild

LEMMA SilentTransitive ==
    ASSUME NEW m, NEW n, NEW o, Silent(m, n), Silent(n, o)
    PROVE  Silent(m, o)
BY MildTransitive DEF Silent, AirSame

LEMMA SetModeSilent ==
    ASSUME NEW m, Shaped(m), NEW id \in Ports, NEW mode, NEW n, n = rtwn_set_mode(m, mode, id)
    PROVE  Silent(m, n) /\ n.d = m.d
<1>1. Shaped(n) /\ n.d = m.d /\ n.hw = m.hw
  BY SetModeEffect
<1>2. \A y \in Vaps : n.v[y].updating = m.v[y].updating /\ n.v[y].pm = m.v[y].pm /\ n.v[y].csa = m.v[y].csa
  BY DEF rtwn_set_mode, Shaped, VFields, Ports
<1> QED
  BY <1>1, <1>2 DEF Silent, Mild, AirSame

Switched(m, n, en) ==
    /\ Mild(m, n) /\ n.d = m.d /\ n.v = m.v /\ n.hw.en = en
    /\ n.hw.page = m.hw.page /\ n.hw.null = m.hw.null /\ n.hw.ps = m.hw.ps
LEMMA EnableAir ==
    ASSUME NEW m, Shaped(m), NEW id
    PROVE  /\ Switched(m, rtwn_beacon_enable(m, id, TRUE), m.hw.en \cup {id})
           /\ Switched(m, rtwn_beacon_enable(m, id, FALSE), m.hw.en \ {id})
BY DEF rtwn_beacon_enable, Switched, Mild, Shaped, HFields

LEMMA TxAir ==
    ASSUME NEW m, Shaped(m), NEW x, NEW frame, NEW n, n = rtwn_tx_beacon(m, x, frame)
    PROVE  /\ Mild(m, n) /\ n.d = m.d /\ n.v = m.v
           /\ n.hw.page = [m.hw.page EXCEPT ![Page(m.v[x].id)] = frame]
           /\ n.hw.en = m.hw.en /\ n.hw.null = m.hw.null /\ n.hw.ps = m.hw.ps
BY DEF rtwn_tx_beacon, Mild, Shaped, HFields

LeftAir(m, x, n) ==
    /\ Mild(m, n)
    /\ n.hw.page = m.hw.page /\ n.hw.null = m.hw.null
    /\ n.hw.en = m.hw.en \ {m.v[x].id}
    /\ n.hw.ps <=> m.hw.ps /\ ~Saves(x, m)
LEMMA LeaveAir ==
    ASSUME NEW m, Shaped(m), NEW x \in Vaps, m.v[x].id \in Ports,
           NEW n, n = Leave(m, x)
    PROVE  LeftAir(m, x, n)
<1> DEFINE id == m.v[x].id
           mode == rtwn_set_mode(m, "NOLINK", id)
           quiet == rtwn_beacon_enable(mode, id, FALSE)
           left == [quiet EXCEPT !.d.vr = @ - 1, !.v[x].callout = FALSE, !.hw.udt = @ \ {id}]
           calm == [left EXCEPT !.d.pwrto = FALSE]
           power == set_pwrmode(calm, x, FALSE)
           awake == IF Saves(x, m) THEN power ELSE left
           last == [awake EXCEPT !.d.calto = FALSE, !.hw.flt2 = FALSE]
<1>1. n = IF awake.d.vr # awake.d.mr THEN awake ELSE last
  BY Zenon DEF Leave
<1>2. Silent(m, mode) /\ Shaped(mode)
  BY SetModeSilent DEF Silent, Mild
<1> HIDE DEF id, mode
<1>3. /\ Mild(m, quiet) /\ quiet.hw.en = m.hw.en \ {id} /\ quiet.hw.page = m.hw.page
      /\ quiet.hw.null = m.hw.null /\ quiet.hw.ps = m.hw.ps
  <2>1. Switched(mode, quiet, mode.hw.en \ {id})
    BY <1>2, EnableAir
  <2> HIDE DEF quiet
  <2> QED BY <1>2, <2>1, MildTransitive DEF Silent, AirSame, Switched
<1> HIDE DEF quiet
<1>4. /\ Silent(quiet, left) /\ Shaped(left)
  <2>1. Shaped(quiet)
    BY <1>3 DEF Mild
  <2> QED BY <2>1 DEF Silent, Mild, AirSame, Shaped, VFields, DFields, HFields
<1> HIDE DEF left
<1>5. /\ Silent(left, calm) /\ Shaped(calm)
  BY <1>4 DEF Silent, Mild, AirSame, Shaped, DFields
<1> HIDE DEF calm
<1>6. /\ Mild(calm, power) /\ power.hw.en = calm.hw.en /\ power.hw.page = calm.hw.page
      /\ power.hw.null = calm.hw.null /\ power.hw.ps = FALSE
  BY <1>5 DEF set_pwrmode, Mild, Shaped, HFields
<1> HIDE DEF power
<1>7. LeftAir(m, x, awake)
  <2>1. Mild(quiet, left) /\ Mild(left, calm) /\ AirSame(quiet, left) /\ AirSame(left, calm)
    BY <1>4, <1>5 DEF Silent
  <2>2. Mild(m, left) /\ Mild(m, power)
    BY <1>3, <1>6, <2>1, MildTransitive
  <2>3. CASE Saves(x, m)
    <3>1. awake = power
      BY <2>3
    <3> HIDE DEF awake
    <3> QED BY <1>3, <1>6, <2>1, <2>2, <2>3, <3>1 DEF LeftAir, AirSame, id
  <2>4. CASE ~Saves(x, m)
    <3>1. awake = left
      BY <2>4
    <3> HIDE DEF awake
    <3> QED BY <1>3, <2>1, <2>2, <2>4, <3>1 DEF LeftAir, AirSame, id
  <2> QED BY <2>3, <2>4
<1> HIDE DEF awake
<1>8. Silent(awake, last)
  <2>1. Shaped(awake)
    BY <1>7 DEF LeftAir, Mild
  <2> QED BY <2>1 DEF Silent, Mild, AirSame, Shaped, DFields, HFields
<1> HIDE DEF last
<1>9. LeftAir(m, x, last)
  <2>1. Mild(m, last)
    BY <1>7, <1>8, MildTransitive DEF LeftAir, Silent
  <2> QED BY <1>7, <1>8, <2>1 DEF LeftAir, Silent, AirSame
<1>10. n = awake \/ n = last
  BY <1>1
<1> QED
  BY Zenon, <1>7, <1>9, <1>10

\* The page of the other port's beacon, which an upload of null data frames
\* with no second page has overwritten and puts back.
Restores(m, other) == m.d.bcn > 0 /\ other # NoVap /\ (other # NoVap => m.v[other].curr # "NOLINK")
Written(m, x, other, p) ==
    IF Restores(m, other) /\ p = Page(m.v[other].id) THEN other
    ELSE IF p = Page(m.v[x].id) THEN NullPage ELSE m.hw.page[p]
PushAir(m, x, r) ==
    /\ Mild(m, r.m) /\ m.d.past \subseteq r.m.d.past
    /\ r.m.hw.en = m.hw.en /\ r.m.hw.ps = m.hw.ps
    /\ ~r.error => /\ r.m.hw.null \/ "hidden" \in r.m.d.past
                   /\ \A p \in DOMAIN m.hw.page :
                        r.m.hw.page[p] = Written(m, x, m.d.slot[1 - m.v[x].id], p)
LEMMA PushedAir ==
    ASSUME NEW m, Shaped(m), NEW x, NEW sent \in BOOLEAN, NEW restored \in BOOLEAN,
           NEW r, r = rtwn_push_nulldata(m, x, sent, restored)
    PROVE  PushAir(m, x, r)
<1> DEFINE other == m.d.slot[1 - m.v[x].id]
           restore == Restores(m, other)
           page == rtwn_tx_beacon(m, x, NullPage)
           pushed == [page EXCEPT !.hw.null = sent]
           frame == IF restored THEN other ELSE NoVap
           back == rtwn_tx_beacon(pushed, other, frame)
           s == IF sent THEN {} ELSE {"hidden"}
           t == IF restored THEN {} ELSE {"failed"}
           last == [back EXCEPT !.d.past = (@ \cup s) \cup t]
<1>1. /\ r.m = IF ~restore THEN pushed ELSE last
      /\ r.error = IF restore THEN ~restored ELSE ~sent
  BY Zenon DEF rtwn_push_nulldata, Restores
<1>s. /\ ~sent => "hidden" \in s
      /\ restored => frame = other
      /\ restore <=> Restores(m, other)
  OBVIOUS
<1> HIDE DEF s, t, frame, other, restore
<1>2. /\ Mild(m, page) /\ page.d = m.d /\ page.v = m.v
      /\ page.hw.page = [m.hw.page EXCEPT ![Page(m.v[x].id)] = NullPage]
      /\ page.hw.en = m.hw.en /\ page.hw.null = m.hw.null /\ page.hw.ps = m.hw.ps
  BY TxAir
<1> HIDE DEF page
<1>3. /\ Mild(page, pushed) /\ pushed.d = m.d /\ pushed.v = m.v /\ pushed.hw.page = page.hw.page
      /\ pushed.hw.en = m.hw.en /\ pushed.hw.null = sent /\ pushed.hw.ps = m.hw.ps
  BY <1>2 DEF Mild, Shaped, HFields
<1> HIDE DEF pushed
<1>4. /\ Mild(pushed, back) /\ back.d = m.d /\ back.v = m.v
      /\ back.hw.page = [pushed.hw.page EXCEPT ![Page(m.v[other].id)] = frame]
      /\ back.hw.en = m.hw.en /\ back.hw.null = sent /\ back.hw.ps = m.hw.ps
  <2>1. back = rtwn_tx_beacon(pushed, other, frame) /\ Shaped(pushed)
    BY <1>3 DEF Mild
  <2> HIDE DEF back
  <2> QED BY <1>3, <2>1, TxAir
<1> HIDE DEF back
<1>5. /\ Mild(back, last) /\ last.hw = back.hw /\ last.d.past = (m.d.past \cup s) \cup t
  BY <1>4 DEF Mild, Shaped, DFields
<1> HIDE DEF last
<1>6. Mild(m, pushed) /\ Mild(m, last)
  BY <1>2, <1>3, <1>4, <1>5, MildTransitive
<1>7. CASE restore
  <2>1. r.m = last /\ r.error = ~restored
    BY <1>1, <1>7
  <2>2. last.hw.null = sent /\ m.d.past \subseteq last.d.past /\ (~sent => "hidden" \in last.d.past)
    BY <1>4, <1>5, <1>s
  <2>3. ASSUME ~r.error, NEW p \in DOMAIN m.hw.page
        PROVE  last.hw.page[p] = Written(m, x, other, p)
    <3>1. frame = other
      BY <1>s, <2>1, <2>3
    <3>2. last.hw.page[p] = IF p = Page(m.v[other].id) THEN other
                            ELSE IF p = Page(m.v[x].id) THEN NullPage ELSE m.hw.page[p]
      BY <1>2, <1>3, <1>4, <1>5, <2>3, <3>1
    <3> QED BY <1>7, <1>s, <3>2 DEF Written
  <2>4. last.hw.en = m.hw.en /\ last.hw.ps = m.hw.ps
    BY <1>4, <1>5
  <2> QED BY <1>6, <2>1, <2>2, <2>3, <2>4 DEF PushAir, other
<1>8. CASE ~restore
  <2>1. r.m = pushed /\ r.error = ~sent
    BY <1>1, <1>8
  <2>2. ASSUME NEW p \in DOMAIN m.hw.page
        PROVE  pushed.hw.page[p] = Written(m, x, other, p)
    <3>1. pushed.hw.page[p] = IF p = Page(m.v[x].id) THEN NullPage ELSE m.hw.page[p]
      BY <1>2, <1>3, <2>2
    <3> QED BY <1>8, <1>s, <3>1 DEF Written
  <2> QED BY <1>3, <1>6, <2>1, <2>2 DEF PushAir, other
<1> QED
  BY <1>7, <1>8

LEMMA SyncAir ==
    ASSUME NEW m, Shaped(m), NEW x \in Vaps, Mode(x) \in {"STA", "AP", "IBSS"},
           NEW n, n = rtwn_tsf_sync_enable(m, x)
    PROVE  /\ Mild(m, n) /\ n.d = m.d
           /\ n.hw.en = IF Beacons(x) THEN m.hw.en \cup {m.v[x].id} ELSE m.hw.en
           /\ n.hw.page = m.hw.page /\ n.hw.null = m.hw.null /\ n.hw.ps = m.hw.ps
<1>1. CASE Mode(x) = "STA"
  <2>1. n = [m EXCEPT !.hw.udt = @ \cup {m.v[x].id}]
    BY <1>1 DEF rtwn_tsf_sync_enable
  <2> QED BY <1>1, <2>1 DEF Beacons, Mild, Shaped, HFields
<1>2. CASE Mode(x) = "IBSS"
  <2> DEFINE o == [m EXCEPT !.v[x].task = TRUE]
  <2>1. n = rtwn_beacon_enable(o, m.v[x].id, TRUE)
    BY <1>2 DEF rtwn_tsf_sync_enable
  <2>2. Mild(m, o) /\ Shaped(o) /\ o.hw = m.hw /\ o.d = m.d
    BY DEF Mild, Shaped, VFields
  <2> HIDE DEF o
  <2>3. Switched(o, n, o.hw.en \cup {m.v[x].id})
    BY <2>1, <2>2, EnableAir
  <2>4. Mild(m, n)
    BY <2>2, <2>3, MildTransitive DEF Switched
  <2> QED BY <1>2, <2>2, <2>3, <2>4 DEF Beacons, Switched
<1>3. CASE Mode(x) = "AP"
  <2>1. n = rtwn_beacon_enable(m, m.v[x].id, TRUE)
    BY <1>3 DEF rtwn_tsf_sync_enable
  <2>2. Switched(m, n, m.hw.en \cup {m.v[x].id})
    BY <2>1, EnableAir
  <2> QED BY <1>3, <2>2 DEF Beacons, Switched
<1> QED
  BY <1>1, <1>2, <1>3

\* What a vap does when it comes to RUN: it beacons from its page, or has null
\* data frames sent.
Nulls(m, x) == Saves(x, m) /\ Mode(x) = "STA"
RunPage(m, x, p) ==
    IF Beacons(x) THEN IF p = Page(m.v[x].id) THEN x ELSE m.hw.page[p]
    ELSE IF Nulls(m, x) THEN Written(m, x, m.d.slot[1 - m.v[x].id], p) ELSE m.hw.page[p]
RunAir(m, x, n) ==
    /\ n.hw.en = IF Beacons(x) THEN m.hw.en \cup {m.v[x].id} ELSE m.hw.en
    /\ IF Nulls(m, x) THEN n.hw.null \/ "hidden" \in n.d.past ELSE n.hw.null = m.hw.null
    /\ \A p \in DOMAIN m.hw.page : n.hw.page[p] = RunPage(m, x, p)

RanAir(m, x, r) ==
    /\ Mild(m, r.m) /\ r.m.hw.ps = m.hw.ps
    /\ r.error => "failed" \in r.m.d.past \/ AirSame(m, r.m)
    /\ ~r.error => RunAir(m, x, r.m)
LEMMA RunsAir ==
    ASSUME NEW m, Shaped(m), NEW x \in Vaps, m.v[x].id \in Ports, Mode(x) \in {"STA", "AP", "IBSS"},
           m.d.slot[1 - m.v[x].id] # NoVap => m.d.slot[1 - m.v[x].id] # m.d.slot[m.v[x].id],
           NEW how, NEW restored \in BOOLEAN,
           NEW r, r = rtwn_run(m, x, how, restored)
    PROVE  RanAir(m, x, r)
<1> DEFINE first == m.d.vr = m.d.mr
           linked == rtwn_set_mode(m, CurrMode(x), m.v[x].id)
           open == [linked EXCEPT !.hw.flt2 = TRUE, !.hw.pause = {}]
           opened == IF first THEN open ELSE linked
           nulls == Saves(x, m) /\ Mode(x) = "STA"
           sent == how # "null"
           push == rtwn_push_nulldata(opened, x, sent, restored)
           timed == [push.m EXCEPT !.d.pwrto = TRUE]
           saved == IF nulls THEN timed ELSE opened
           synced == rtwn_tsf_sync_enable(saved, x)
           frame == IF how # "beacon" THEN x ELSE NoVap
           setup == rtwn_tx_beacon(synced, x, frame)
           beaconing == IF Beacons(x) THEN setup ELSE synced
           stopped == [push.m EXCEPT !.d.past = @ \cup {"failed"}]
           spoilt == [beaconing EXCEPT !.d.past = @ \cup {"failed"}]
           done == [beaconing EXCEPT !.d.calto = TRUE]
           last == IF first THEN done ELSE beaconing
<1>1. \/ r = [error |-> TRUE, m |-> m]
      \/ r = [error |-> TRUE, m |-> stopped] /\ nulls
      \/ r = [error |-> TRUE, m |-> spoilt]
      \/ /\ r = [error |-> FALSE, m |-> last]
         /\ ~(nulls /\ push.error) /\ ~(how = "beacon" /\ Beacons(x))
  <2>1. r = CASE how = "channel" -> [error |-> TRUE, m |-> m]
              [] how # "channel" /\ nulls /\ push.error -> [error |-> TRUE, m |-> stopped]
              [] how = "beacon" /\ Beacons(x) -> [error |-> TRUE, m |-> spoilt]
              [] OTHER -> [error |-> FALSE, m |-> last]
    BY Zenon DEF rtwn_run, rtwn_setup_beacon
  <2>2. how = "channel" => ~(how = "beacon")
    OBVIOUS
  <2> HIDE DEF nulls, push, stopped, spoilt, last
  <2> QED BY <2>1, <2>2
<1>2. nulls <=> Nulls(m, x)
  BY DEF Nulls
<1>3. ~(Beacons(x) /\ nulls)
  BY DEF Beacons
<1> DEFINE id == m.v[x].id
           other == m.d.slot[1 - id]
<1>4. /\ Silent(m, linked) /\ Shaped(linked) /\ linked.d = m.d
      /\ \A y \in Vaps : linked.v[y].id = m.v[y].id /\ (y # m.d.slot[id] => linked.v[y].curr = m.v[y].curr)
  <2> DEFINE mode == CurrMode(x)
  <2>1. linked = rtwn_set_mode(m, mode, id) /\ id \in Ports
    OBVIOUS
  <2> HIDE DEF linked, mode, id
  <2>2. Silent(m, linked) /\ linked.d = m.d
    BY <2>1, SetModeSilent
  <2>3. \A y \in Vaps : linked.v[y].id = m.v[y].id /\ (y # m.d.slot[id] => linked.v[y].curr = m.v[y].curr)
    BY <2>1, SetModeEffect
  <2> QED BY <2>2, <2>3 DEF Silent, Mild
<1> HIDE DEF linked, first, nulls
<1>5. /\ Silent(m, opened) /\ Shaped(opened) /\ opened.d = m.d
      /\ \A y \in Vaps : opened.v[y].id = m.v[y].id /\ (y # m.d.slot[id] => opened.v[y].curr = m.v[y].curr)
  <2>1. Silent(linked, open) /\ Shaped(open) /\ open.d = linked.d /\ open.v = linked.v
    BY <1>4 DEF Silent, Mild, AirSame, Shaped, HFields
  <2> HIDE DEF open, id
  <2>2. Silent(m, open)
    BY <1>4, <2>1, SilentTransitive
  <2> QED BY <1>4, <2>1, <2>2
<1> HIDE DEF opened, sent
<1>6. PushAir(opened, x, push)
  BY <1>5, PushedAir DEF sent
<1> HIDE DEF push
<1>7. Shaped(push.m) /\ Mild(m, push.m) /\ push.m.hw.ps = m.hw.ps
  BY <1>5, <1>6, MildTransitive DEF PushAir, Silent, AirSame, Mild
<1>8. /\ Mild(m, stopped) /\ stopped.hw = push.m.hw /\ "failed" \in stopped.d.past
      /\ Shaped(timed) /\ Mild(m, timed) /\ timed.hw = push.m.hw /\ timed.d.past = push.m.d.past
  BY <1>7 DEF Mild, Shaped, DFields
<1>ids. \A y \in Vaps : timed.v[y].id = m.v[y].id
  <2>1. Framed(opened, push.m)
    BY <1>5, PushFrame DEF push
  <2>2. timed.v = push.m.v
    BY <1>7 DEF Shaped, DFields
  <2> HIDE DEF timed
  <2> QED BY <1>5, <2>1, <2>2 DEF Framed, FrameV, id
<1> HIDE DEF stopped, timed
\* The pages after the null data frames.
<1>9. ASSUME ~(nulls /\ push.error)
      PROVE  /\ Shaped(saved) /\ Mild(m, saved) /\ saved.hw.ps = m.hw.ps /\ saved.hw.en = m.hw.en
             /\ saved.v[x].id = id
             /\ IF nulls THEN saved.hw.null \/ "hidden" \in saved.d.past ELSE saved.hw.null = m.hw.null
             /\ \A p \in DOMAIN m.hw.page :
                  saved.hw.page[p] = IF nulls THEN Written(m, x, other, p) ELSE m.hw.page[p]
  <2>1. CASE ~nulls
    <3>1. saved = opened
      BY <2>1
    <3> HIDE DEF saved, other, id
    <3> QED BY <1>5, <2>1, <3>1 DEF Silent, AirSame, id
  <2>2. CASE nulls
    <3>1. saved = timed
      BY <2>2
    <3> HIDE DEF saved, id
    <3>2. ~push.error
      BY <1>9, <2>2
    <3>3. /\ timed.hw.en = m.hw.en /\ timed.hw.ps = m.hw.ps
          /\ timed.hw.null \/ "hidden" \in timed.d.past
      BY <1>5, <1>6, <1>8, <3>2 DEF PushAir, Silent, AirSame
    <3>4. ASSUME NEW p \in DOMAIN m.hw.page
          PROVE  timed.hw.page[p] = Written(m, x, other, p)
      <4>1. opened.hw.page = m.hw.page /\ opened.v[x].id = id /\ opened.d.slot[1 - id] = other /\ opened.d.bcn = m.d.bcn
        <5>1. opened.hw.page = m.hw.page /\ opened.d = m.d
          BY <1>5 DEF Silent, AirSame
        <5>2. opened.v[x].id = m.v[x].id
          BY <1>5
        <5> QED BY <5>1, <5>2 DEF id
      <4> HIDE DEF other
      <4>2. timed.hw.page[p] = Written(opened, x, other, p)
        BY <1>6, <1>8, <3>2, <3>4, <4>1 DEF PushAir
      <4>3. other # NoVap => /\ opened.v[other].curr = m.v[other].curr
                             /\ opened.v[other].id = m.v[other].id
        <5>1. other # NoVap => other \in Vaps /\ other # m.d.slot[id]
          <6>1. 1 - id \in Ports
            BY DEF Ports, id
          <6> QED BY <6>1 DEF Shaped, other, id
        <5> QED BY <1>5, <5>1
      <4>4. Restores(opened, other) <=> Restores(m, other)
        BY <4>1, <4>3 DEF Restores
      <4>5. Restores(m, other) => other # NoVap
        BY DEF Restores
      <4> QED BY <4>1, <4>2, <4>3, <4>4, <4>5 DEF Written, id
    <3> QED BY <1>8, <1>ids, <2>2, <3>1, <3>3, <3>4 DEF id
  <2> QED BY <2>1, <2>2
<1>10. Shaped(saved) /\ Mild(m, saved) /\ saved.hw.ps = m.hw.ps /\ saved.v[x].id = id
  <2>1. CASE ~nulls
    BY <1>9, <2>1
  <2>2. CASE nulls
    <3>1. saved = timed
      BY <2>2
    <3> HIDE DEF saved
    <3> QED BY <1>7, <1>8, <1>ids, <3>1
  <2> QED BY <2>1, <2>2
<1> HIDE DEF saved
<1>11. /\ Mild(saved, synced) /\ Shaped(synced) /\ synced.d = saved.d /\ synced.v[x].id = id
       /\ synced.hw.en = IF Beacons(x) THEN saved.hw.en \cup {id} ELSE saved.hw.en
       /\ synced.hw.page = saved.hw.page /\ synced.hw.null = saved.hw.null /\ synced.hw.ps = saved.hw.ps
  <2>1. synced = rtwn_tsf_sync_enable(saved, x)
    OBVIOUS
  <2> HIDE DEF synced, id
  <2>2. FrameL(saved, synced, x)
    BY <1>10, <2>1, SyncEffect
  <2>3. /\ Mild(saved, synced) /\ synced.d = saved.d
        /\ synced.hw.en = IF Beacons(x) THEN saved.hw.en \cup {saved.v[x].id} ELSE saved.hw.en
        /\ synced.hw.page = saved.hw.page /\ synced.hw.null = saved.hw.null /\ synced.hw.ps = saved.hw.ps
    BY <1>10, <2>1, SyncAir
  <2> QED BY <1>10, <2>2, <2>3 DEF FrameL
<1> HIDE DEF synced, id
<1>12. /\ Mild(synced, beaconing) /\ Shaped(beaconing) /\ beaconing.d = synced.d
       /\ beaconing.hw.page = IF Beacons(x) THEN [synced.hw.page EXCEPT ![Page(id)] = frame] ELSE synced.hw.page
       /\ beaconing.hw.en = synced.hw.en /\ beaconing.hw.null = synced.hw.null /\ beaconing.hw.ps = synced.hw.ps
  <2>1. setup = rtwn_tx_beacon(synced, x, frame)
    OBVIOUS
  <2> HIDE DEF setup, frame
  <2>2. /\ Mild(synced, setup) /\ setup.d = synced.d
        /\ setup.hw.page = [synced.hw.page EXCEPT ![Page(synced.v[x].id)] = frame]
        /\ setup.hw.en = synced.hw.en /\ setup.hw.null = synced.hw.null /\ setup.hw.ps = synced.hw.ps
    BY <1>11, <2>1, TxAir
  <2>3. Mild(synced, synced) /\ Shaped(setup)
    BY <1>11, <2>2 DEF Mild
  <2>4. CASE Beacons(x)
    <3>1. beaconing = setup
      BY <2>4
    <3> HIDE DEF beaconing
    <3> QED BY <1>11, <2>2, <2>3, <2>4, <3>1
  <2>5. CASE ~Beacons(x)
    <3>1. beaconing = synced
      BY <2>5
    <3> HIDE DEF beaconing
    <3> QED BY <1>11, <2>3, <2>5, <3>1
  <2> QED BY <2>4, <2>5
<1> HIDE DEF beaconing
<1>13. Mild(m, beaconing) /\ beaconing.hw.ps = m.hw.ps
  BY <1>10, <1>11, <1>12, MildTransitive
<1>14. /\ Mild(m, spoilt) /\ spoilt.hw = beaconing.hw /\ "failed" \in spoilt.d.past
       /\ Mild(m, done) /\ done.hw = beaconing.hw /\ done.d.past = beaconing.d.past
  BY <1>12, <1>13 DEF Mild, Shaped, DFields
<1> HIDE DEF done, spoilt
<1>15. Mild(m, last) /\ last.hw = beaconing.hw /\ last.d.past = beaconing.d.past
  BY <1>13, <1>14
<1> HIDE DEF last
<1>16. ASSUME ~(nulls /\ push.error), ~(how = "beacon" /\ Beacons(x))
       PROVE  RunAir(m, x, last)
  <2>1. last.hw.en = IF Beacons(x) THEN m.hw.en \cup {id} ELSE m.hw.en
    BY <1>9, <1>11, <1>12, <1>15, <1>16
  <2>2. IF nulls THEN last.hw.null \/ "hidden" \in last.d.past ELSE last.hw.null = m.hw.null
    <3>1. last.hw.null = saved.hw.null /\ last.d.past = saved.d.past
      BY <1>11, <1>12, <1>15
    <3> QED BY <1>9, <1>16, <3>1
  <2>3. ASSUME NEW p \in DOMAIN m.hw.page
        PROVE  last.hw.page[p] = RunPage(m, x, p)
    <3>1. saved.hw.page[p] = IF nulls THEN Written(m, x, other, p) ELSE m.hw.page[p]
      BY <1>9, <1>16, <2>3
    <3>2. CASE Beacons(x)
      <4>1. frame = x
        BY <1>16, <3>2
      <4>2. p \in DOMAIN synced.hw.page
        BY <1>10, <1>11, <2>3 DEF Mild
      <4> HIDE DEF frame, other
      <4>3. last.hw.page[p] = IF p = Page(id) THEN x ELSE saved.hw.page[p]
        BY <1>11, <1>12, <1>15, <3>2, <4>1, <4>2
      <4> QED BY <1>3, <3>1, <3>2, <4>3 DEF RunPage, id
    <3>3. CASE ~Beacons(x)
      <4>1. last.hw.page[p] = saved.hw.page[p]
        BY <1>11, <1>12, <1>15, <3>3
      <4> QED BY <1>2, <3>1, <3>3, <4>1 DEF RunPage, id
    <3> QED BY <3>2, <3>3
  <2> QED BY <1>2, <2>1, <2>2, <2>3 DEF RunAir, id
<1>17. CASE r = [error |-> TRUE, m |-> m]
  <2>1. r.error = TRUE /\ r.m = m
    BY <1>17
  <2> QED BY <2>1 DEF RanAir, Mild, AirSame
<1>18. CASE r = [error |-> TRUE, m |-> stopped] /\ nulls
  <2>1. r.error = TRUE /\ r.m = stopped
    BY <1>18
  <2> QED BY <1>7, <1>8, <2>1 DEF RanAir
<1>19. CASE r = [error |-> TRUE, m |-> spoilt]
  <2>1. r.error = TRUE /\ r.m = spoilt
    BY <1>19
  <2> QED BY <1>13, <1>14, <2>1 DEF RanAir
<1>20. CASE r = [error |-> FALSE, m |-> last] /\ ~(nulls /\ push.error) /\ ~(how = "beacon" /\ Beacons(x))
  <2>1. r.error = FALSE /\ r.m = last
    BY <1>20
  <2> QED BY <1>13, <1>15, <1>16, <1>20, <2>1 DEF RanAir
<1> QED
  BY <1>1, <1>17, <1>18, <1>19, <1>20

MovedAir(m, x, leaving, ran, r) ==
    /\ Mild(m, r.m)
    /\ "failed" \notin r.m.d.past =>
         /\ r.m.hw.ps <=> m.hw.ps /\ ~(leaving /\ Saves(x, m))
         /\ r.m.hw.en = (m.hw.en \ (IF leaving THEN {m.v[x].id} ELSE {}))
                        \cup (IF ran /\ Beacons(x) THEN {m.v[x].id} ELSE {})
         /\ IF ran /\ Nulls(m, x) THEN r.m.hw.null \/ "hidden" \in r.m.d.past ELSE r.m.hw.null = m.hw.null
         /\ \A p \in DOMAIN m.hw.page : r.m.hw.page[p] = IF ran THEN RunPage(m, x, p) ELSE m.hw.page[p]
LEMMA NewstateAir ==
    ASSUME NEW m, Shaped(m), NEW x \in Vaps, m.v[x].id \in Ports, Mode(x) \in {"STA", "AP", "IBSS"},
           m.d.vr \in Int, m.d.mr \in Int,
           m.d.slot[1 - m.v[x].id] # NoVap => m.d.slot[1 - m.v[x].id] # m.d.slot[m.v[x].id],
           NEW n, NEW how, NEW restored \in BOOLEAN,
           NEW leaving \in BOOLEAN, leaving <=> Leaving(m.v[x].state, n),
           NEW r, r = rtwn_newstate(m, x, n, how, restored),
           NEW ran \in BOOLEAN, ran <=> (n = "RUN" /\ ~r.error)
    PROVE  MovedAir(m, x, leaving, ran, r)
<1> DEFINE o == m.v[x].state
           cancel == [m EXCEPT !.v[x].csa = FALSE, !.hw.pause = {}]
           cancelled == IF o = "CSA" THEN cancel ELSE m
           away == Leave(cancelled, x)
           left == IF Leaving(o, n) THEN away ELSE cancelled
           run == rtwn_run(left, x, how, restored)
           paused == [left EXCEPT !.hw.pause = @ \cup AC]
           scan == IF left.d.vr # 0 THEN left ELSE paused
           csa == [left EXCEPT !.hw.pause = @ \cup AC \cup {"mgt", "high"}]
           up == [run.m EXCEPT !.d.vr = @ + 1]
           lost == [run.m EXCEPT !.d.past = @ \cup {"lost"}]
           id == m.v[x].id
           other == m.d.slot[1 - id]
<1>1. /\ n = "SCAN" => r = [error |-> FALSE, m |-> scan]
      /\ n = "CSA" => r = [error |-> FALSE, m |-> csa]
      /\ n = "RUN" /\ ~run.error => r = [error |-> FALSE, m |-> up]
      /\ n = "RUN" /\ run.error => r = [error |-> TRUE, m |-> IF leaving THEN lost ELSE run.m]
      /\ n \notin {"SCAN", "CSA", "RUN"} => r = [error |-> FALSE, m |-> left]
  <2>1. r = CASE n = "SCAN" -> [error |-> FALSE, m |-> scan]
              [] n = "RUN" /\ ~run.error -> [error |-> FALSE, m |-> up]
              [] n = "RUN" /\ run.error ->
                    [error |-> TRUE, m |-> IF Leaving(m.v[x].state, n) THEN lost ELSE run.m]
              [] n = "CSA" -> [error |-> FALSE, m |-> csa]
              [] OTHER -> [error |-> FALSE, m |-> left]
    BY Zenon DEF rtwn_newstate, Leaving
  <2> HIDE DEF scan, csa, up, lost, run, left
  <2> QED BY <2>1
<1> HIDE DEF id, other
<1>2. /\ Silent(m, cancelled) /\ Shaped(cancelled) /\ cancelled.d = m.d
      /\ \A y \in Vaps : cancelled.v[y].id = m.v[y].id /\ cancelled.v[y].curr = m.v[y].curr
  <2>1. /\ Silent(m, cancel) /\ Shaped(cancel) /\ cancel.d = m.d
        /\ \A y \in Vaps : cancel.v[y].id = m.v[y].id /\ cancel.v[y].curr = m.v[y].curr
    BY DEF Silent, Mild, AirSame, Shaped, VFields, HFields
  <2>2. Silent(m, m)
    BY DEF Silent, Mild, AirSame
  <2> HIDE DEF cancel
  <2> QED BY <2>1, <2>2
<1> HIDE DEF cancelled
<1> DEFINE en == m.hw.en \ (IF leaving THEN {id} ELSE {})
<1>3. /\ Shaped(left) /\ Mild(m, left) /\ left.hw.en = en
      /\ left.hw.page = m.hw.page /\ left.hw.null = m.hw.null
      /\ left.hw.ps <=> m.hw.ps /\ ~(leaving /\ Saves(x, m))
      /\ left.d.slot = m.d.slot /\ left.d.bcn = m.d.bcn
      /\ \A y \in Vaps : /\ left.v[y].id = m.v[y].id
                         /\ y # m.d.slot[id] => left.v[y].curr = m.v[y].curr
  <2>1. CASE leaving
    <3>1. left = away
      BY <2>1
    <3>2. cancelled.v[x].id = id /\ id \in Ports /\ cancelled.d.vr \in Int /\ cancelled.d.mr \in Int
      BY <1>2 DEF id
    <3>3. away = Leave(cancelled, x)
      OBVIOUS
    <3> HIDE DEF left, away
    <3>4. LeftAir(cancelled, x, away)
      BY <1>2, <3>2, <3>3, LeaveAir
    <3>5. FrameL(cancelled, away, x) /\ \A y \in Vaps : y # cancelled.d.slot[id] => away.v[y].curr = cancelled.v[y].curr
      BY <1>2, <3>2, <3>3, LeaveEffect
    <3>6. Saves(x, cancelled) <=> Saves(x, m)
      BY <1>2 DEF Saves
    <3>7. Mild(m, away)
      BY <1>2, <3>4, MildTransitive DEF Silent, LeftAir
    <3>8. /\ away.hw.en = en /\ away.hw.page = m.hw.page /\ away.hw.null = m.hw.null
          /\ away.hw.ps <=> m.hw.ps /\ ~(leaving /\ Saves(x, m))
      BY <1>2, <2>1, <3>2, <3>4, <3>6 DEF Silent, AirSame, LeftAir
    <3>9. /\ away.d.slot = m.d.slot /\ away.d.bcn = m.d.bcn
          /\ \A y \in Vaps : away.v[y].id = m.v[y].id /\ (y # m.d.slot[id] => away.v[y].curr = m.v[y].curr)
      BY <1>2, <3>5 DEF FrameL
    <3> HIDE DEF en
    <3> QED BY <3>1, <3>7, <3>8, <3>9 DEF Mild
  <2>2. CASE ~leaving
    <3>1. left = cancelled
      BY <2>2
    <3> HIDE DEF left
    <3> QED BY <1>2, <2>2, <3>1 DEF Silent, AirSame
  <2> QED BY <2>1, <2>2
<1> HIDE DEF left, en
\* What is left when nothing is run.
<1>4. ASSUME ~ran, NEW o2, Silent(left, o2), r.m = o2
      PROVE  MovedAir(m, x, leaving, ran, r)
  <2>1. Mild(m, r.m)
    BY <1>3, <1>4, MildTransitive DEF Silent
  <2> QED BY <1>3, <1>4, <2>1 DEF MovedAir, Silent, AirSame, en, id
<1>5. Silent(left, left)
  BY <1>3 DEF Silent, Mild, AirSame
<1>6. Silent(left, paused) /\ Silent(left, csa)
  BY <1>3 DEF Silent, Mild, AirSame, Shaped, HFields
<1>7. CASE n = "SCAN"
  <2>1. r.m = scan /\ ~ran
    <3> HIDE DEF scan, csa, up, lost, run
    <3> QED BY <1>1, <1>7
  <2> HIDE DEF paused
  <2>2. Silent(left, scan)
    BY <1>5, <1>6
  <2> HIDE DEF scan
  <2> QED BY <1>4, <2>1, <2>2
<1>8. CASE n = "CSA"
  <2>1. r.m = csa /\ ~ran
    <3> HIDE DEF scan, csa, up, lost, run
    <3> QED BY <1>1, <1>8
  <2> HIDE DEF csa
  <2> QED BY <1>4, <1>6, <2>1
<1>9. CASE n \notin {"SCAN", "CSA", "RUN"}
  <2>1. r.m = left /\ ~ran
    BY <1>1, <1>9
  <2> QED BY <1>4, <1>5, <2>1
<1>10. CASE n = "RUN"
  <2>1. run = rtwn_run(left, x, how, restored)
    OBVIOUS
  <2> HIDE DEF run
  <2>2. left.v[x].id = id /\ id \in Ports
    BY <1>3 DEF id
  <2>3. left.d.slot[1 - id] # NoVap => left.d.slot[1 - id] # left.d.slot[id]
    BY <1>3 DEF id
  <2>4. RanAir(left, x, run)
    BY <1>3, <2>1, <2>2, <2>3, RunsAir
  <2>5. Shaped(run.m) /\ Mild(m, run.m)
    BY <1>3, <2>4, MildTransitive DEF RanAir, Mild
  <2>6. /\ Mild(m, up) /\ up.hw = run.m.hw /\ up.d.past = run.m.d.past
        /\ Mild(m, lost) /\ lost.hw = run.m.hw /\ run.m.d.past \subseteq lost.d.past
    BY <2>5 DEF Mild, Shaped, DFields
  <2> HIDE DEF up, lost
  <2>7. CASE ~run.error
    <3>1. r.error = FALSE /\ r.m = up /\ ran
      BY <1>1, <1>10, <2>7
    <3>2. RunAir(left, x, run.m) /\ run.m.hw.ps = left.hw.ps
      BY <2>4, <2>7 DEF RanAir
    <3>3. Nulls(left, x) <=> Nulls(m, x)
      BY <2>2 DEF Nulls, Saves, id
    <3>4. ASSUME NEW p \in DOMAIN m.hw.page
          PROVE  RunPage(left, x, p) = RunPage(m, x, p)
      <4>1. left.d.slot[1 - id] = other
        BY <1>3 DEF other
      <4>2. other # NoVap => other \in Vaps /\ left.v[other].curr = m.v[other].curr /\ left.v[other].id = m.v[other].id
        <5>1. other # NoVap => other \in Vaps /\ other # m.d.slot[id]
          <6>1. 1 - id \in Ports
            BY <2>2 DEF Ports
          <6> QED BY <6>1 DEF Shaped, other, id
        <5> QED BY <1>3, <5>1
      <4>3. /\ Restores(left, other) <=> Restores(m, other)
            /\ Restores(m, other) => other # NoVap
        BY <1>3, <4>2 DEF Restores
      <4>4. Written(left, x, other, p) = Written(m, x, other, p)
        BY <1>3, <2>2, <4>2, <4>3 DEF Written, id
      <4> QED BY <1>3, <2>2, <3>3, <4>1, <4>4 DEF RunPage, other, id
    <3>5. \A p \in DOMAIN m.hw.page : r.m.hw.page[p] = RunPage(m, x, p)
      BY <1>3, <2>6, <3>1, <3>2, <3>4 DEF RunAir
    <3>6. r.m.hw.en = en \cup (IF Beacons(x) THEN {id} ELSE {})
      BY <1>3, <2>2, <2>6, <3>1, <3>2 DEF RunAir
    <3>7. IF Nulls(m, x) THEN r.m.hw.null \/ "hidden" \in r.m.d.past ELSE r.m.hw.null = m.hw.null
      BY <1>3, <2>6, <3>1, <3>2, <3>3 DEF RunAir
    <3>8. r.m.hw.ps <=> m.hw.ps /\ ~(leaving /\ Saves(x, m))
      BY <1>3, <2>6, <3>1, <3>2
    <3> QED BY <2>6, <3>1, <3>5, <3>6, <3>7, <3>8 DEF MovedAir, en, id
  <2>8. CASE run.error
    <3>1. r = [error |-> TRUE, m |-> IF leaving THEN lost ELSE run.m]
      BY <1>1, <1>10, <2>8
    <3>2. r.error = TRUE /\ (r.m = lost \/ r.m = run.m) /\ ~ran
      BY <3>1
    <3>3. Mild(m, r.m) /\ r.m.hw = run.m.hw /\ run.m.d.past \subseteq r.m.d.past
      BY <2>5, <2>6, <3>2
    <3>4. "failed" \notin r.m.d.past => AirSame(left, run.m)
      BY <2>4, <2>8, <3>3 DEF RanAir
    <3> QED BY <1>3, <3>2, <3>3, <3>4 DEF MovedAir, AirSame, en, id
  <2> QED BY <2>7, <2>8
<1> QED
  BY <1>7, <1>8, <1>9, <1>10

\* r21au_newstate() touches only the radar.
LEMMA DfsSilent ==
    ASSUME NEW m, Shaped(m), NEW x, NEW n,
           NEW o, o = IF plan.dfs THEN r21au_newstate(m, x, n) ELSE m
    PROVE  Silent(m, o)
<1> DEFINE on == [m EXCEPT !.d.radar = TRUE, !.hw.radar = TRUE, !.d.chk = TRUE]
           off == [m EXCEPT !.d.radar = FALSE, !.hw.radar = FALSE, !.d.chk = FALSE]
<1>1. Silent(m, on) /\ Silent(m, off) /\ Silent(m, m)
  BY Zenon DEF Silent, Mild, AirSame, Shaped, DFields, HFields
<1>2. o = on \/ o = off \/ o = m
  BY Zenon DEF r21au_newstate
<1> HIDE DEF on, off
<1> QED
  BY <1>1, <1>2

\* A change of state of x that reached its end: "from" is what rtwn_newstate()
\* worked on, "to" what it left.
MovedOnce(x, leaving, ran, from, r) ==
    /\ plan' = plan /\ Silent(Now, from)
    /\ from.d.slot = d.slot /\ from.d.bcn = d.bcn
    /\ \A y \in Vaps : from.v[y].id = v[y].id /\ from.v[y].curr = v[y].curr
    /\ MovedAir(from, x, leaving, ran, r)
    /\ hw' = r.m.hw /\ d'.running = d.running /\ d.past \subseteq d'.past /\ r.m.d.past \subseteq d'.past
    /\ \A y \in Vaps :
         /\ v'[y].life = v[y].life /\ v'[y].id = v[y].id
         /\ v'[y].updating = r.m.v[y].updating /\ v'[y].csa = r.m.v[y].csa /\ v'[y].pm = r.m.v[y].pm
Left(x, leaving) == IF leaving THEN Linking \ {x} ELSE Linking
LEMMA MovedSound ==
    ASSUME IInv, BInv, NEW x \in Ported, v[x].life = "up", v[x].id \in Ports,
           NEW leaving \in BOOLEAN, NEW ran \in BOOLEAN,
           NEW from, NEW r, MovedOnce(x, leaving, ran, from, r),
           "lost" \notin d'.past => Linking' = IF ran THEN Left(x, leaving) \cup {x} ELSE Left(x, leaving),
           ran => x \notin Left(x, leaving)
    PROVE  BInv'
<1> DEFINE id == v[x].id
           L == Left(x, leaving)
<1>1. /\ \A y : Mode(y)' = Mode(y) /\ Beacons(y)' = Beacons(y)
      /\ \A p : Page(p)' = Page(p)
      /\ \A f : Unharmed(f)' => Unharmed(f)
  BY DEF Mode, Beacons, Page, Unharmed, MovedOnce
<1>2. /\ \A y \in Vaps : /\ v'[y].updating = v[y].updating /\ v'[y].pm = v[y].pm /\ (v'[y].csa => v[y].csa)
                         /\ v'[y].life = v[y].life /\ v'[y].id = v[y].id
      /\ DOMAIN hw'.page = DOMAIN hw.page
  BY DEF MovedOnce, MovedAir, Silent, Mild, Now
<1>3. FlagsSound'
  BY <1>1, <1>2 DEF BInv, FlagsSound, MovedOnce
<1>4. Ported' = Ported /\ Ported \subseteq Vaps
  BY <1>2, SameSets DEF MovedOnce, Ported, Counted
<1>5. PagesSound'
  BY <1>1, <1>2, <1>4 DEF BInv, PagesSound, MovedOnce
<1>6. SUFFICES ASSUME Whole'
               PROVE  EnabledSound' /\ SaveSound'
  BY <1>3, <1>5 DEF BInv
<1>7. /\ Whole /\ Unharmed({"raced"}) /\ "lost" \notin d'.past /\ "failed" \notin r.m.d.past
      /\ EnabledSound /\ SaveSound
  BY <1>6 DEF Whole, Unharmed, MovedOnce, BInv
<1>8. Linking' = IF ran THEN L \cup {x} ELSE L
  BY <1>7
<1>9. ran => x \notin L
  OBVIOUS
<1>10. L \subseteq Linking /\ Linking \subseteq Ported /\ (leaving => x \notin L) /\ (~leaving => L = Linking)
  BY DEF Left, Linking
<1> HIDE DEF L
<1>11. /\ from.v[x].id = id /\ from.hw.page = hw.page /\ from.hw.en = hw.en /\ from.hw.null = hw.null
       /\ from.hw.ps = hw.ps /\ from.d.slot = d.slot /\ (Saves(x, from) <=> plan.pmgt /\ id = 0)
       /\ x \in Vaps
  <2>1. AirSame(Now, from)
    BY DEF MovedOnce, Silent
  <2>2. from.v[x].id = id /\ x \in Vaps /\ from.d.slot = d.slot
    BY <1>4 DEF MovedOnce
  <2> HIDE DEF id
  <2> QED BY <2>1, <2>2 DEF AirSame, Now, Saves
<1>12. /\ hw'.ps <=> hw.ps /\ ~(leaving /\ plan.pmgt /\ id = 0)
       /\ hw'.en = (hw.en \ (IF leaving THEN {id} ELSE {})) \cup (IF ran /\ Beacons(x) THEN {id} ELSE {})
       /\ IF ran /\ Nulls(from, x) THEN hw'.null \/ "hidden" \in d'.past ELSE hw'.null = hw.null
       /\ \A p \in DOMAIN hw.page : hw'.page[p] = IF ran THEN RunPage(from, x, p) ELSE hw.page[p]
  <2>1. /\ hw' = r.m.hw /\ r.m.d.past \subseteq d'.past /\ MovedAir(from, x, leaving, ran, r)
    BY DEF MovedOnce
  <2> HIDE DEF id
  <2> QED BY <1>7, <1>11, <2>1 DEF MovedAir
<1>13. Nulls(from, x) <=> plan.pmgt /\ id = 0 /\ Mode(x) = "STA"
  BY <1>11 DEF Nulls
\* The other vaps that beacon.
<1>14. ASSUME NEW y \in L, Beacons(y), y # x
       PROVE  /\ y \in Vaps /\ v[y].id # id /\ v[y].id \in Ports
              /\ v[y].id \in hw.en \/ (plan.bus = "PCI" /\ v[y].updating)
              /\ hw.page[Page(v[y].id)] = y /\ (hw.page[Page(v[y].id)] = y)'
  <2>1. y \in Linking /\ y \in Ported /\ y \in Vaps /\ y \in Beaconing
    BY <1>4, <1>10, <1>14 DEF Beaconing
  <2>2. v[y].id \in Ports
    BY <2>1 DEF IInv, LivesSound, LifeSound
  <2>3. v[y].id # id /\ (Beacons(x) => Page(v[y].id) # Page(id))
    BY <1>7, <1>14, <2>1, PortsApart
  <2>4. /\ v[y].id \in hw.en \/ (plan.bus = "PCI" /\ v[y].updating)
        /\ hw.page[Page(v[y].id)] = y
    BY <1>7, <2>1 DEF EnabledSound
  <2> DEFINE p == Page(v[y].id)
  <2>5. p \in DOMAIN hw.page
    BY <2>2, PageIsPort DEF BInv, PagesSound
  <2>6. d.slot[1 - id] = y /\ Restores(from, y) /\ from.v[y].id = v[y].id
    <3>1. v[y].id = 1 - id
      BY <2>2, <2>3 DEF Ports
    <3>2. v[y].life = "up"
      BY <2>1 DEF Linking, IInv, LivesSound, LifeSound
    <3>3. d.slot[1 - id] = y
      BY <1>7, <2>1, <3>1, <3>2 DEF IInv, SlotsSound
    <3>4. v[y].curr # "NOLINK"
      BY <1>7, <2>1 DEF IInv, LinksSound, Whole
    <3>5. d.bcn > 0
      <4>1. IsFiniteSet({z \in Ported : Beacons(z)}) /\ d.bcn = Cardinality({z \in Ported : Beacons(z)})
        BY CountedFinite DEF IInv, CountsSound
      <4>2. {z \in Ported : Beacons(z)} # {}
        BY <1>14, <2>1
      <4>3. d.bcn \in Nat /\ d.bcn # 0
        BY <4>1, <4>2, FS_EmptySet, FS_CardinalityType
      <4> QED BY <4>3
    <3>6. from.v[y].curr = v[y].curr /\ from.v[y].id = v[y].id /\ from.d.bcn = d.bcn
      BY <2>1 DEF MovedOnce
    <3>7. y # NoVap
      BY <2>1, VapsAssumption
    <3> HIDE DEF id
    <3> QED BY <3>3, <3>4, <3>5, <3>6, <3>7 DEF Restores
  <2>7. RunPage(from, x, p) = y
    <3>1. from.d.slot[1 - from.v[x].id] = y
      BY <1>11, <2>6
    <3>2. Written(from, x, y, p) = y
      BY <2>6 DEF Written
    <3> HIDE DEF id
    <3> QED BY <1>11, <2>3, <2>4, <3>1, <3>2 DEF RunPage, p
  <2>8. hw'.page[p] = y
    <3> HIDE DEF p
    <3>1. hw.page[p] = y
      BY <2>4 DEF p
    <3> QED BY <1>12, <2>5, <2>7, <3>1
  <2>9. (hw.page[Page(v[y].id)] = y)'
    BY <1>1, <1>2, <2>1, <2>8
  <2> QED BY <2>1, <2>2, <2>3, <2>4, <2>9
<1>15. EnabledSound'
  <2>1. ASSUME NEW p \in hw'.en
        PROVE  \E y \in Beaconing' : v'[y].id = p
    <3>1. CASE p = id /\ ran /\ Beacons(x)
      <4>1. x \in Beaconing'
        BY <1>1, <1>8, <3>1 DEF Beaconing
      <4> QED BY <1>2, <1>11, <3>1, <4>1
    <3>2. CASE p \in hw.en /\ (leaving => p # id)
      <4>1. PICK y \in Beaconing : v[y].id = p
        BY <1>7, <3>2 DEF EnabledSound
      <4>2. y \in L /\ y \in Vaps /\ Beacons(y)
        <5>1. y \in Linking /\ Beacons(y) /\ y \in Vaps
          BY <1>4, <1>10 DEF Beaconing
        <5> QED BY <3>2, <4>1, <5>1 DEF L, Left
      <4>3. y \in Beaconing'
        BY <1>1, <1>8, <4>2 DEF Beaconing
      <4> QED BY <1>2, <4>1, <4>2, <4>3
    <3> HIDE DEF id
    <3> QED BY <1>12, <2>1, <3>1, <3>2
  <2>2. ASSUME NEW y \in Beaconing'
        PROVE  (v[y].id \in hw.en \/ (plan.bus = "PCI" /\ v[y].updating))' /\ (hw.page[Page(v[y].id)] = y)'
    <3>1. y \in Linking' /\ Beacons(y)
      BY <1>1, <2>2 DEF Beaconing
    <3>2. CASE ran /\ y = x
      <4>1. id \in hw'.en
        BY <1>12, <3>1, <3>2
      <4>2. Page(id) \in DOMAIN hw.page
        BY PageIsPort DEF BInv, PagesSound
      <4>3. RunPage(from, x, Page(id)) = x
        <5> HIDE DEF id
        <5> QED BY <1>11, <3>1, <3>2 DEF RunPage
      <4>4. hw'.page[Page(id)] = x
        <5> HIDE DEF id
        <5> QED BY <1>12, <3>2, <4>2, <4>3
      <4> QED BY <1>1, <1>2, <1>11, <3>2, <4>1, <4>4
    <3>3. CASE y \in L /\ y # x
      <4>1. /\ y \in Vaps /\ v[y].id # id
            /\ v[y].id \in hw.en \/ (plan.bus = "PCI" /\ v[y].updating)
            /\ (hw.page[Page(v[y].id)] = y)'
        BY <1>14, <3>1, <3>3
      <4>2. v[y].id \in hw.en => v[y].id \in hw'.en
        <5> HIDE DEF id
        <5> QED BY <1>12, <4>1
      <4>3. plan' = plan
        BY DEF MovedOnce
      <4> QED BY <1>2, <4>1, <4>2, <4>3
    <3>4. CASE ~ran /\ y = x
      <4>1. x \in L /\ ~leaving
        BY <1>8, <1>10, <3>1, <3>4
      <4>2. x \in Beaconing
        BY <1>10, <3>1, <3>4, <4>1 DEF Beaconing
      <4>3. /\ v[x].id \in hw.en \/ (plan.bus = "PCI" /\ v[x].updating)
            /\ hw.page[Page(v[x].id)] = x
        BY <1>7, <4>2 DEF EnabledSound
      <4>4. id \in hw.en => id \in hw'.en
        <5> HIDE DEF id
        <5> QED BY <1>12, <4>1
      <4>5. hw'.page[Page(id)] = x
        <5>1. Page(id) \in DOMAIN hw.page
          BY PageIsPort DEF BInv, PagesSound
        <5> QED BY <1>12, <3>4, <4>3, <5>1
      <4>6. plan' = plan
        BY DEF MovedOnce
      <4> QED BY <1>1, <1>2, <1>11, <3>4, <4>3, <4>4, <4>5, <4>6
    <3> QED BY <1>8, <3>1, <3>2, <3>3, <3>4
  <2> QED BY <2>1, <2>2 DEF EnabledSound
<1>16. SaveSound'
  <2>1. ASSUME hw'.ps, Unharmed({"late"})'
        PROVE  plan'.pmgt /\ \E y \in Vaps : Saver(y)'
    <3>1. hw.ps /\ ~(leaving /\ plan.pmgt /\ id = 0)
      BY <1>12, <2>1
    <3>2. PICK z \in Vaps : plan.pmgt /\ Saver(z)
      BY <1>1, <1>7, <2>1, <3>1 DEF SaveSound
    <3>3. z \in L
      BY <3>1, <3>2 DEF Saver, L, Left
    <3>4. Saver(z)'
      BY <1>1, <1>2, <1>8, <3>2, <3>3 DEF Saver
    <3>5. plan' = plan
      BY DEF MovedOnce
    <3> QED BY <3>2, <3>4, <3>5
  <2>2. ASSUME NEW z \in Vaps, Saver(z)', plan'.pmgt, Unharmed({"hidden"})'
        PROVE  hw'.null
    <3>1. "hidden" \notin d'.past /\ plan.pmgt /\ Unharmed({"hidden"})
      BY <1>1, <2>2 DEF Unharmed, MovedOnce
    <3>2. z \in Linking' /\ v[z].id = 0 /\ Mode(z) = "STA"
      BY <1>1, <1>2, <2>2 DEF Saver
    <3>3. CASE ran /\ Nulls(from, x)
      BY <1>12, <3>1, <3>3
    <3>4. CASE ~(ran /\ Nulls(from, x))
      <4>1. z # x \/ ~ran
        BY <1>13, <3>1, <3>2, <3>4
      <4>2. z \in L
        BY <1>8, <3>2, <4>1
      <4>3. Saver(z)
        BY <1>10, <3>2, <4>2 DEF Saver
      <4>4. hw.null
        BY <1>7, <3>1, <4>3 DEF SaveSound
      <4> QED BY <1>12, <3>4, <4>4
    <3> QED BY <3>3, <3>4
  <2> QED BY <2>1, <2>2 DEF SaveSound
<1> QED
  BY <1>15, <1>16

LEMMA NewstateKeeps ==
    ASSUME IInv, NEW x \in Vaps, NEW n \in States, iv_newstate(x, n)
    PROVE  IInv' /\ (JInv => JInv') /\ (BInv => BInv')
<1> DEFINE o == v[x].state
           id == v[x].id
           m == IF plan.dfs THEN r21au_newstate(Now, x, n) ELSE Now
           early == o = "INIT" /\ n = "RUN"
           Result(how, restored) == rtwn_newstate(m, x, n, how, restored)
           Ends(how, restored) ==
             /\ Become(IF ~early THEN Result(how, restored).m
                       ELSE [Result(how, restored).m EXCEPT
                               !.v[x].state = "RUN",
                               !.d.past = @ \cup (IF Result(how, restored).error THEN {"lost"} ELSE {})])
             /\ tq' = IF Result(how, restored).error \/ early THEN Idle
                      ELSE [what |-> "state", vap |-> x, to |-> n]
<1>1. PICK how \in {"ok", "channel", "null", "beacon"}, restored \in BOOLEAN : Ends(how, restored)
  <2>1. \E how \in {"ok"} \cup (IF n = "RUN" /\ MayFail THEN {"channel", "null", "beacon"} ELSE {}),
           restored \in {TRUE} \cup (IF n = "RUN" /\ MayFail THEN {FALSE} ELSE {}) : Ends(how, restored)
    BY DEF iv_newstate
  <2> HIDE DEF Ends
  <2> QED BY <2>1
<1> DEFINE r == rtwn_newstate(m, x, n, how, restored)
           lost == IF r.error THEN {"lost"} ELSE {}
           set == [r.m EXCEPT !.v[x].state = "RUN", !.d.past = @ \cup lost]
           f == IF early THEN set ELSE r.m
<1>2. Become(f) /\ tq' = IF r.error \/ early THEN Idle ELSE [what |-> "state", vap |-> x, to |-> n]
  BY <1>1
<1>3. /\ tq = Idle /\ v[x].life = "up" /\ Mode(x) # "MON" /\ plan' = plan
      /\ n = "CSA" => o = "RUN"
  <2>1. /\ tq = Idle /\ v[x].life = "up" /\ Mode(x) # "MON" /\ plan' = plan
        /\ n = "INIT" \/ <<o, n>> \in Moves(x)
    BY DEF iv_newstate, Move
  <2>2. Mode(x) \in {"STA", "AP", "IBSS"}
    BY <2>1, ModeType DEF IInv
  <2> QED BY <2>1, <2>2, OnlyRunSwitches
<1>4. d.running
  BY DEF iv_newstate, Move, IInv, LivesSound, LifeSound
<1>5. /\ Shaped(Now) /\ Mode(x) \in {"STA", "AP", "IBSS"} /\ x \in Ported /\ id \in Ports
      /\ d.vr \in Int /\ d.mr \in Int
  BY <1>3, NowShaped, ModeType DEF IInv, TypeOK, LivesSound, LifeSound, Ported, Counted
<1>6. Framed(Now, m)
  <2>1. Framed(Now, Now)
    BY <1>5 DEF Framed, FrameV, FrameD, FrameR, FrameH
  <2> QED BY <1>5, <2>1, DfsFrame
<1>radar. DfsMore(Now, x, n, m)
  <2>1. m = IF plan.dfs THEN r21au_newstate(Now, x, n) ELSE Now
    OBVIOUS
  <2> HIDE DEF m
  <2> QED BY <1>5, <2>1, DfsMoves
<1>silent. Silent(Now, m)
  <2>1. m = IF plan.dfs THEN r21au_newstate(Now, x, n) ELSE Now
    OBVIOUS
  <2> HIDE DEF m
  <2> QED BY <1>5, <2>1, DfsSilent
<1> HIDE DEF m
<1>7. FrameL(Now, m, x) /\ SameRest(Now, m) /\ Shaped(m)
  BY <1>6, FramedIsL DEF FrameL
<1>8. /\ m.d.vr = d.vr /\ m.d.mr = d.mr /\ m.hw.flt2 = hw.flt2 /\ m.hw.udt = hw.udt /\ m.d.slot = d.slot
      /\ m.v[x].id = id /\ m.v[x].state = o /\ \A y \in Vaps : m.v[y].curr = v[y].curr
  BY <1>7 DEF FrameL, SameRest, SameCurr, Now
<1> DEFINE leaving == Leaving(o, n)
           before == d.vr + NoneOr(leaving, -1)
           ran == n = "RUN" /\ ~r.error
<1>9. leaving \in BOOLEAN /\ before \in Int /\ ran \in BOOLEAN
  BY <1>5 DEF Leaving, NoneOr
<1>10. /\ leaving => o \in {"RUN", "CSA"}
       /\ o \in {"RUN", "CSA"} /\ ~leaving => n = "CSA"
       /\ n = "CSA" => o = "RUN" /\ ~leaving
       /\ early => ~leaving
  BY <1>3 DEF Leaving
<1>11. Moved(m, x, n, leaving, before, ran, r) /\ MovedMore(m, x, n, leaving, before, ran, r)
  <2>1. leaving <=> Leaving(m.v[x].state, n)
    BY <1>8
  <2>2. before = m.d.vr + NoneOr(leaving, -1)
    BY <1>8
  <2>3. ran <=> (n = "RUN" /\ ~r.error)
    OBVIOUS
  <2>4. r = rtwn_newstate(m, x, n, how, restored)
    OBVIOUS
  <2> HIDE DEF leaving, before, ran, r, o, id
  <2>5. Moved(m, x, n, leaving, before, ran, r)
    BY <1>5, <1>7, <1>8, <1>9, <2>1, <2>2, <2>3, <2>4, NewstateEffect
  <2>6. MovedMore(m, x, n, leaving, before, ran, r)
    BY <1>5, <1>7, <1>8, <1>9, <2>1, <2>2, <2>3, <2>4, NewstateMore
  <2> QED BY <2>5, <2>6
<1>air. MovedAir(m, x, leaving, ran, r)
  <2>1. leaving <=> Leaving(m.v[x].state, n)
    BY <1>8
  <2>2. ran <=> (n = "RUN" /\ ~r.error)
    OBVIOUS
  <2>3. r = rtwn_newstate(m, x, n, how, restored)
    OBVIOUS
  <2> HIDE DEF leaving, before, ran, r, o, id
  <2>4. m.d.slot[1 - m.v[x].id] # NoVap => m.d.slot[1 - m.v[x].id] # m.d.slot[m.v[x].id]
    <3>1. 1 - v[x].id \in Ports /\ 1 - v[x].id # v[x].id
      BY <1>5 DEF Ports, id
    <3>2. d.slot[1 - v[x].id] # NoVap => d.slot[1 - v[x].id] # d.slot[v[x].id]
      BY <1>5, <3>1 DEF IInv, SlotsSound, id
    <3> QED BY <1>8, <3>2 DEF id
  <2> QED
    BY <1>5, <1>7, <1>8, <1>9, <2>1, <2>2, <2>3, <2>4, NewstateAir
<1>12. ran <=> (n = "RUN" /\ ~r.error)
  OBVIOUS
<1>13. before = d.vr + NoneOr(leaving, -1)
  OBVIOUS
<1> HIDE DEF leaving, before, ran, r
<1>14. /\ r.error \in BOOLEAN /\ FrameL(Now, r.m, x) /\ Shaped(r.m) /\ r.m.d.vr = before + NoneOr(ran, 1)
       /\ \A y \in Vaps : y # d.slot[id] => r.m.v[y].curr = v[y].curr
       /\ r.error => n = "RUN"
       /\ r.error /\ leaving => "lost" \in r.m.d.past
       /\ hw.flt2 /\ (leaving => before # d.mr) => r.m.hw.flt2
       /\ ran /\ before = d.mr => r.m.hw.flt2
  <2>1. FrameL(m, r.m, x)
    BY <1>11 DEF Moved
  <2>2. FrameL(Now, r.m, x)
    BY <1>7, <2>1, FrameLTransitive
  <2>3. /\ r.error \in BOOLEAN /\ Shaped(r.m) /\ r.m.d.vr = before + NoneOr(ran, 1)
        /\ r.error => n = "RUN"
        /\ r.error /\ leaving => "lost" \in r.m.d.past
    BY <1>11 DEF Moved, FrameL
  <2>4. \A y \in Vaps : y # d.slot[id] => r.m.v[y].curr = v[y].curr
    BY <1>8, <1>11 DEF Moved, SameElsewhere
  <2>5. hw.flt2 /\ (leaving => before # d.mr) => r.m.hw.flt2
    BY <1>8, <1>11 DEF Moved
  <2>6. ran /\ before = d.mr => r.m.hw.flt2
    BY <1>8, <1>11 DEF Moved
  <2> QED BY <2>2, <2>3, <2>4, <2>5, <2>6
<1>15. /\ r.m.hw.udt \subseteq (hw.udt \ (IF leaving THEN {id} ELSE {}))
                               \cup (IF ran /\ Mode(x) = "STA" THEN {id} ELSE {})
       /\ ran => \A y \in Vaps : r.m.v[y].curr = IF y = d.slot[id] THEN CurrMode(x) ELSE v[y].curr
       /\ ~ran => \/ "failed" \in r.m.d.past
                  \/ \A y \in Vaps : r.m.v[y].curr = IF leaving /\ y = d.slot[id] THEN "NOLINK" ELSE v[y].curr
  BY <1>8, <1>11 DEF Moved
\* The step as a whole.
<1>16. /\ Shaped(f) /\ f.hw = r.m.hw /\ r.m.d.past \subseteq f.d.past
       /\ early /\ r.error => "lost" \in f.d.past
       /\ f.d.running = r.m.d.running /\ f.d.slot = r.m.d.slot
       /\ f.d.nv = r.m.d.nv /\ f.d.ap = r.m.d.ap /\ f.d.bcn = r.m.d.bcn /\ f.d.mon = r.m.d.mon
       /\ f.d.mr = r.m.d.mr /\ f.d.vr = r.m.d.vr
       /\ f.d.rcr = r.m.d.rcr /\ f.d.locked = r.m.d.locked
       /\ f.d.promisc = r.m.d.promisc /\ f.d.ptask = r.m.d.ptask
       /\ f.d.radar = r.m.d.radar /\ f.d.chk = r.m.d.chk /\ f.d.check = r.m.d.check
       /\ f.d.scanning = r.m.d.scanning /\ f.d.calto = r.m.d.calto /\ f.d.calcmd = r.m.d.calcmd
       /\ \A y \in Vaps :
            /\ f.v[y].life = r.m.v[y].life /\ f.v[y].id = r.m.v[y].id /\ f.v[y].curr = r.m.v[y].curr
            /\ f.v[y].callout = r.m.v[y].callout /\ f.v[y].task = r.m.v[y].task
            /\ f.v[y].updating = r.m.v[y].updating /\ f.v[y].csa = r.m.v[y].csa /\ f.v[y].pm = r.m.v[y].pm
            /\ f.v[y].state = IF early /\ y = x THEN "RUN" ELSE r.m.v[y].state
  <2>1. CASE early
    <3>1. f = set
      BY <2>1
    <3>2. r.error => "lost" \in lost
      OBVIOUS
    <3> HIDE DEF f, lost, early
    <3> QED BY <1>14, <2>1, <3>1, <3>2 DEF Shaped, VFields, DFields
  <2>2. CASE ~early
    <3>1. f = r.m
      BY <2>2
    <3> HIDE DEF f, early
    <3> QED BY <1>14, <2>2, <3>1
  <2> QED BY <2>1, <2>2
<1> HIDE DEF f
<1>17. v' = f.v /\ d' = f.d /\ hw' = f.hw
  BY <1>2 DEF Become
<1>18. /\ hw' = r.m.hw /\ d.past \subseteq d'.past /\ r.m.d.past \subseteq d'.past
       /\ early /\ r.error => "lost" \in d'.past
       /\ d'.running = d.running /\ d'.slot = d.slot
       /\ d'.nv = d.nv /\ d'.ap = d.ap /\ d'.bcn = d.bcn /\ d'.mon = d.mon
       /\ d'.mr = d.mr /\ d'.vr = before + NoneOr(ran, 1)
       /\ d'.rcr = d.rcr /\ d'.locked = d.locked /\ d'.promisc = d.promisc /\ d'.ptask = d.ptask
       /\ hw'.rcr = hw.rcr /\ hw'.flt0 = hw.flt0
  BY <1>14, <1>16, <1>17 DEF FrameL, FrameR, Now
<1>19. \A y \in Vaps :
         /\ v'[y].life = v[y].life /\ v'[y].id = v[y].id /\ v'[y].curr = r.m.v[y].curr
         /\ v'[y].callout => v[y].callout
         /\ v'[y].task => v[y].task \/ (y = x /\ Mode(x) = "IBSS")
         /\ v'[y].state = IF early /\ y = x THEN "RUN" ELSE v[y].state
  BY <1>14, <1>16, <1>17 DEF FrameL, Now
<1> DEFINE next == IF r.error /\ ~early THEN o ELSE n
<1>20. /\ \A y \in Vaps : y # x => State(y)' = State(y)
       /\ State(x) = o /\ State(x)' = next
  <2>1. \A y \in Vaps : State(y) = v[y].state
    BY <1>3 DEF State, Idle
  <2>2. r.error \/ early => tq'.what = "idle"
    BY <1>2 DEF Idle
  <2>3. ~(r.error \/ early) => tq'.what = "state" /\ tq'.vap = x /\ tq'.to = n
    BY <1>2
  <2> QED BY <1>19, <2>1, <2>2, <2>3 DEF State
<1>21. LivesSame
  BY <1>3, <1>19 DEF LivesSame
<1>22. /\ Counted' = Counted /\ Ported' = Ported /\ Ported \subseteq Vaps
       /\ \A modes : Up(modes)' = Up(modes)
  BY <1>21, SameSets DEF LivesSame, Ported, Counted
<1>23. (x \in Linking <=> o \in {"RUN", "CSA"}) /\ \A y \in Linking : y \in Vaps
  BY <1>5, <1>20, <1>22 DEF Linking
<1>24. Linking' = (Linking \ {x}) \cup (IF next \in {"RUN", "CSA"} THEN {x} ELSE {})
  BY <1>5, <1>20, <1>22 DEF Linking
<1>25. tq.what = "idle" /\ tq'.what \in {"idle", "state"}
  BY <1>2, <1>3 DEF Idle
<1> DEFINE L == IF leaving THEN Linking \ {x} ELSE Linking
<1>26. ~("lost" \in d'.past) => Linking' = IF ran THEN L \cup {x} ELSE L
  <2>1. SUFFICES ASSUME ~("lost" \in d'.past)
                 PROVE  Linking' = IF ran THEN L \cup {x} ELSE L
    OBVIOUS
  <2>2. r.error => ~leaving /\ ~early /\ n = "RUN"
    BY <1>14, <1>18, <2>1
  <2>3. CASE ran
    <3>1. next = "RUN"
      BY <1>12, <2>3
    <3> QED BY <1>24, <2>3, <3>1
  <2>4. CASE ~ran /\ r.error
    <3>1. next = o /\ ~leaving /\ n = "RUN"
      BY <2>2, <2>4
    <3>2. o \notin {"RUN", "CSA"}
      BY <1>10, <3>1
    <3> QED BY <1>23, <1>24, <2>4, <3>1, <3>2
  <2>5. CASE ~ran /\ ~r.error
    <3>1. next = n /\ n # "RUN"
      BY <1>12, <2>5
    <3>2. CASE n = "CSA"
      BY <1>10, <1>23, <1>24, <2>5, <3>1, <3>2
    <3>3. CASE n # "CSA"
      BY <1>10, <1>23, <1>24, <2>5, <3>1, <3>3
    <3> QED BY <3>2, <3>3
  <2> QED BY <2>3, <2>4, <2>5
<1>27. ran => x \notin L
  BY <1>10, <1>12, <1>23
<1> HIDE DEF next, early
<1>28. IsFiniteSet(L) /\ (Unharmed({"lost"}) => Cardinality(L) = before - d.mr)
  <2>1. IsFiniteSet(Linking)
    <3>1. IsFiniteSet(Ported) /\ Linking \subseteq Ported
      BY CountedFinite DEF IInv, CountsSound, Linking
    <3> QED BY <3>1, FS_Subset
  <2>2. Cardinality(Linking) \in Int
    BY <2>1, FS_CardinalityType
  <2>3. Unharmed({"lost"}) => d.vr - d.mr = Cardinality(Linking)
    BY DEF IInv, LinksSound
  <2>4. CASE leaving
    <3>1. x \in Linking
      BY <1>10, <1>23, <2>4
    <3>2. IsFiniteSet(Linking \ {x}) /\ Cardinality(Linking \ {x}) = Cardinality(Linking) - 1
      BY <2>1, <3>1, FS_RemoveElement
    <3>3. before = d.vr - 1
      BY <1>5, <1>13, <2>4 DEF NoneOr
    <3> HIDE DEF o
    <3> QED BY <1>5, <2>2, <2>3, <2>4, <3>2, <3>3
  <2>5. CASE ~leaving
    <3>1. before = d.vr
      BY <1>5, <1>13, <2>5 DEF NoneOr
    <3> QED BY <1>5, <2>1, <2>3, <2>5, <3>1
  <2> QED BY <2>4, <2>5
<1>29. L # {} => Cardinality(L) # 0 /\ Linking # {}
  BY <1>28, FS_EmptySet
<1> HIDE DEF L
<1>30. Unharmed({"lost"})' => Unharmed({"lost"}) /\ ~("lost" \in d'.past)
  BY <1>18 DEF Unharmed
<1>31. TypeOK'
  <2>1. Shaped(Now)'
    BY <1>16, <1>17 DEF Shaped, Now, Ports
  <2>2. NoneOr(ran, 1) \in Int
    BY DEF NoneOr
  <2>3. {d.nv, d.ap, d.bcn, d.mon, d.vr, d.mr}' \subseteq Int
    BY <1>5, <1>9, <1>18, <2>2 DEF IInv, TypeOK
  <2>4. /\ tq' \in [what : {"idle", "state", "tsf"}, vap : Vaps \cup {NoVap}, to : States]
        /\ tq'.what = "idle" => tq' = Idle
        /\ tq'.what # "idle" => tq'.vap \in Vaps
    BY <1>2 DEF Idle, States
  <2>5. Idle' = Idle
    BY DEF Idle
  <2> QED BY <1>3, <2>1, <2>3, <2>4, <2>5 DEF IInv, TypeOK
<1>32. LivesSound'
  <2>1. ASSUME NEW y \in Vaps
        PROVE  LifeSound(y)'
    <3>1. Mode(y)' = Mode(y)
      BY <1>3 DEF Mode
    <3>2. v[y].life \in {"none", "id"} => v'[y].curr = v[y].curr
      <4>1. v[y].life \in {"none", "id"} => y # d.slot[id]
        BY <1>5, VapsAssumption DEF IInv, SlotsSound, Ported, Counted
      <4> QED BY <1>14, <1>19, <4>1
    <3>3. v[y].life # "up" => State(y)' = "INIT" /\ v'[y].state = "INIT"
      BY <1>3, <1>19, <1>20 DEF IInv, LivesSound, LifeSound
    <3>4. LifeSound(y)
      BY DEF IInv, LivesSound
    <3> QED BY <1>3, <1>4, <1>18, <1>19, <1>22, <1>25, <3>1, <3>2, <3>3, <3>4 DEF LifeSound
  <2> QED BY <1>4, <1>18, <2>1 DEF LivesSound
<1>33. SlotsSound' /\ CountsSound'
  BY <1>18, <1>21, SlotsKept, CountsKept DEF IInv
<1>34. LinksSound'
  <2>1. Unharmed({"lost"})' => d'.vr - d'.mr = Cardinality(Linking')
    <3>1. SUFFICES ASSUME Unharmed({"lost"})'
                   PROVE  d'.vr - d'.mr = Cardinality(Linking')
      OBVIOUS
    <3>2. Cardinality(L) = before - d.mr /\ Linking' = IF ran THEN L \cup {x} ELSE L
      BY <1>26, <1>28, <1>30, <3>1
    <3>3. CASE ran
      <4>1. Cardinality(L \cup {x}) = Cardinality(L) + 1
        BY <1>27, <1>28, <3>3, FS_AddElement
      <4>2. d'.vr = before + 1 /\ d'.mr = d.mr
        BY <1>18, <3>3 DEF NoneOr
      <4> QED BY <1>5, <1>9, <3>2, <3>3, <4>1, <4>2
    <3>4. CASE ~ran
      <4>1. d'.vr = before /\ d'.mr = d.mr
        BY <1>9, <1>18, <3>4 DEF NoneOr
      <4> QED BY <3>2, <3>4, <4>1
    <3> QED BY <3>3, <3>4
  <2>2. Linking' # {} /\ Unharmed({"lost"})' => hw'.flt2
    <3>1. SUFFICES ASSUME Linking' # {}, Unharmed({"lost"})'
                   PROVE  r.m.hw.flt2
      BY <1>18
    <3>2. Cardinality(L) = before - d.mr /\ Linking' = IF ran THEN L \cup {x} ELSE L
      BY <1>26, <1>28, <1>30, <3>1
    <3>3. CASE L = {}
      <4>1. ran /\ Cardinality(L) = 0
        BY <3>1, <3>2, <3>3, FS_EmptySet
      <4>2. before = d.mr
        BY <1>5, <1>9, <3>2, <4>1
      <4> QED BY <1>14, <4>1, <4>2
    <3>4. CASE L # {}
      <4>1. before # d.mr
        BY <1>5, <1>9, <1>29, <3>2, <3>4
      <4>2. hw.flt2
        BY <1>29, <1>30, <3>1, <3>4 DEF IInv, LinksSound
      <4> QED BY <1>14, <4>1, <4>2
    <3> QED BY <3>3, <3>4
  <2>3. Unharmed({"lost", "raced", "failed"})' =>
          \A y \in Ported' : (v'[y].curr # "NOLINK") = (y \in Linking')
    <3>1. SUFFICES ASSUME Unharmed({"lost", "raced", "failed"})', NEW y \in Ported
                   PROVE  (v'[y].curr # "NOLINK") <=> (y \in Linking')
      BY <1>22
    <3>2. /\ Unharmed({"lost", "raced", "failed"}) /\ Unharmed({"raced"})
          /\ ~("lost" \in d'.past) /\ ~("failed" \in r.m.d.past)
      BY <1>18, <3>1 DEF Unharmed
    <3>3. d.slot[id] = x
      BY <1>3, <1>5, <3>2 DEF IInv, SlotsSound
    <3>4. (v[y].curr # "NOLINK") <=> (y \in Linking)
      BY <3>2 DEF IInv, LinksSound
    <3>5. CurrMode(x) # "NOLINK"
      BY <1>5 DEF CurrMode
    <3>6. y \in Vaps /\ v'[y].curr = r.m.v[y].curr
      BY <1>19, <1>22
    <3>7. Linking' = IF ran THEN L \cup {x} ELSE L
      BY <1>26, <3>2
    <3>8. CASE ran
      BY <1>15, <3>3, <3>4, <3>5, <3>6, <3>7, <3>8 DEF L
    <3>9. CASE ~ran
      BY <1>15, <3>2, <3>3, <3>4, <3>6, <3>7, <3>9 DEF L
    <3> QED BY <3>8, <3>9
  <2> QED BY <2>1, <2>2, <2>3 DEF LinksSound
<1>35. UdtSound'
  <2>1. SUFFICES ASSUME Unharmed({"raced", "lost"})', NEW p \in hw'.udt
                 PROVE  \E y \in Linking' : v'[y].id = p /\ Mode(y) = "STA"
    <3>1. \A y : Mode(y)' = Mode(y)
      BY <1>3 DEF Mode
    <3> QED BY <3>1 DEF UdtSound
  <2>2. Unharmed({"raced", "lost"}) /\ ~("lost" \in d'.past)
    BY <1>18, <2>1 DEF Unharmed
  <2>3. Linking' = IF ran THEN L \cup {x} ELSE L
    BY <1>26, <2>2
  <2>4. CASE p = id /\ ran /\ Mode(x) = "STA"
    BY <1>19, <2>3, <2>4
  <2>5. CASE p \in hw.udt /\ (leaving => p # id)
    <3>1. PICK z \in Linking : v[z].id = p /\ Mode(z) = "STA"
      BY <1>25, <2>2, <2>5 DEF IInv, UdtSound
    <3>2. z \in L /\ z \in Vaps
      BY <1>23, <2>5, <3>1 DEF L
    <3> QED BY <1>19, <2>3, <3>1, <3>2
  <2> QED BY <1>15, <1>18, <2>1, <2>4, <2>5
<1>36. MgtSound'
  BY <1>18, <1>21, MgtKept DEF IInv
<1>37. RcrSound'
  <2>1. Unharmed({"undone"})' => Unharmed({"undone"})
    BY <1>18 DEF Unharmed
  <2> QED BY <1>18, <1>22, <1>25, <2>1 DEF IInv, RcrSound
\* What must go on.
<1>38. JInv => JInv'
  <2> SUFFICES ASSUME JInv PROVE JInv'
    OBVIOUS
  <2>1. /\ d'.radar = m.d.radar /\ d'.chk = m.d.chk /\ d'.check = d.check /\ d'.scanning = d.scanning
        /\ d'.calcmd = d.calcmd /\ hw'.radar = m.hw.radar
    <3>1. d'.radar = r.m.d.radar /\ d'.chk = r.m.d.chk /\ d'.check = r.m.d.check
          /\ d'.scanning = r.m.d.scanning /\ d'.calcmd = r.m.d.calcmd /\ hw'.radar = r.m.hw.radar
      BY <1>16, <1>17
    <3>2. m.d.check = d.check /\ m.d.scanning = d.scanning /\ m.d.calcmd = d.calcmd
      BY <1>radar DEF DfsMore, Now
    <3>3. RestSame(m, r.m)
      BY <1>11 DEF MovedMore
    <3> QED BY <3>1, <3>2, <3>3 DEF RestSame
  <2>2. /\ d.calto /\ (leaving => before # d.mr) => d'.calto
        /\ ran /\ before = d.mr => d'.calto /\ hw'.pause = {}
        /\ \A y \in Vaps : /\ y # x \/ ~leaving => v'[y].callout = v[y].callout
                           /\ v[y].task => v'[y].task
        /\ ran /\ Mode(x) = "IBSS" => v'[x].task
        /\ "bcn" \in hw'.pause => "bcn" \in hw.pause
        /\ n # "CSA" /\ (n = "SCAN" => before # 0) =>
             hw'.pause \subseteq IF o = "CSA" THEN {} ELSE hw.pause
    <3>1. d'.calto = r.m.d.calto /\ hw'.pause = r.m.hw.pause
          /\ \A y \in Vaps : v'[y].callout = r.m.v[y].callout /\ v'[y].task = r.m.v[y].task
      BY <1>16, <1>17
    <3>2. m.d.calto = d.calto /\ m.hw.pause = hw.pause /\ m.d.mr = d.mr /\ m.v[x].state = o /\ m.v = v
      BY <1>8, <1>radar DEF DfsMore, Now
    <3>3. MovedMore(m, x, n, leaving, before, ran, r)
      BY <1>11
    <3> HIDE DEF o, id
    <3> QED BY <3>1, <3>2, <3>3 DEF MovedMore
  <2>3. \A y : Mode(y)' = Mode(y)
    BY <1>3 DEF Mode
  <2>4. RadarSound'
    <3>1. Unharmed({"failed"})' => Unharmed({"failed"})
      BY <1>18 DEF Unharmed
    <3>2. CASE n = "CAC" /\ plan.dfs /\ m.d.radar /\ m.d.chk /\ m.hw.radar
      <4>1. State(x)' = "CAC"
        BY <1>14, <1>20, <3>2 DEF next
      <4> QED BY <1>3, <1>5, <2>1, <2>3, <3>2, <4>1 DEF RadarSound, Below
    <3>3. CASE ~m.d.radar
      BY <2>1, <3>3 DEF RadarSound
    <3>4. CASE /\ m.d.radar = d.radar /\ m.d.chk = d.chk /\ m.hw.radar = hw.radar
               /\ Below(n) /\ d.radar /\ plan.dfs => Needed(Now, x)
      <4>1. ASSUME d.radar
            PROVE  plan'.dfs /\ \E y \in Vaps : Mode(y)' # "MON" /\ ~Below(State(y)')
        <5>1. PICK w \in Vaps : Mode(w) # "MON" /\ ~Below(State(w)) /\ plan.dfs
          BY <4>1 DEF JInv, RadarSound
        <5>2. CASE w # x
          BY <1>3, <1>20, <2>3, <5>1, <5>2
        <5>3. CASE w = x /\ ~Below(n)
          <6>1. ~Below(State(x)')
            BY <1>20, <5>1, <5>3 DEF next
          <6> QED BY <1>3, <2>3, <5>1, <5>3, <6>1
        <5>4. CASE Below(n)
          <6>1. Needed(Now, x)
            BY <3>4, <4>1, <5>1, <5>4
          <6> DEFINE w2 == d.slot[1 - id]
          <6>2. w2 # NoVap /\ ~Below(v[w2].state)
            BY <6>1 DEF Needed, Now
          <6>3. 1 - id \in Ports /\ 1 - id # id
            BY <1>5 DEF Ports
          <6>4. w2 \in Ported /\ v[w2].id = 1 - id
            BY <6>2, <6>3 DEF IInv, SlotsSound
          <6>5. w2 \in Vaps /\ w2 # x /\ Mode(w2) # "MON"
            BY <6>3, <6>4 DEF Ported, Counted
          <6>6. State(w2) = v[w2].state
            BY <1>25 DEF State
          <6> HIDE DEF w2
          <6> QED BY <1>3, <1>20, <2>3, <5>1, <6>2, <6>5, <6>6
        <5> QED BY <5>2, <5>3, <5>4
      <4> QED BY <1>18, <2>1, <3>1, <3>4, <4>1 DEF JInv, RadarSound, Below
    <3> QED BY <1>radar, <3>2, <3>3, <3>4 DEF DfsMore, Now
  <2>5. CalibSound'
    <3>1. SUFFICES ASSUME Linking' # {}, Unharmed({"lost", "failed", "raced"})'
                   PROVE  d'.calto \/ d'.calcmd
      BY DEF CalibSound
    <3>2. Unharmed({"lost", "failed", "raced"}) /\ Unharmed({"lost"})'
      BY <1>18, <3>1 DEF Unharmed
    <3>3. Cardinality(L) = before - d.mr /\ Linking' = IF ran THEN L \cup {x} ELSE L
      BY <1>26, <1>28, <1>30, <3>2
    <3>4. CASE L = {}
      <4>1. ran /\ Cardinality(L) = 0
        BY <3>1, <3>3, <3>4, FS_EmptySet
      <4>2. before = d.mr
        BY <1>5, <1>9, <3>3, <4>1
      <4> QED BY <2>2, <4>1, <4>2
    <3>5. CASE L # {}
      <4>1. before # d.mr
        BY <1>5, <1>9, <1>29, <3>3, <3>5
      <4>2. d.calto \/ d.calcmd
        BY <1>29, <3>2, <3>5 DEF JInv, CalibSound
      <4> QED BY <2>1, <2>2, <4>1, <4>2
    <3> QED BY <3>4, <3>5
  <2>6. SyncSound'
    <3>1. ASSUME NEW y \in Linking', Mode(y) = "IBSS", Unharmed({"lost", "failed", "raced"})'
          PROVE  v'[y].callout \/ v'[y].task
      <4>1. Unharmed({"lost", "failed", "raced"}) /\ ~("lost" \in d'.past)
        BY <1>18, <3>1 DEF Unharmed
      <4>2. Linking' = IF ran THEN L \cup {x} ELSE L
        BY <1>26, <4>1
      <4>3. CASE ran /\ y = x
        BY <2>2, <3>1, <4>3
      <4>4. CASE y \in L
        <5>1. y \in Linking /\ y \in Vaps /\ (y # x \/ ~leaving)
          BY <1>23, <4>4 DEF L
        <5>2. v[y].callout \/ v[y].task
          BY <1>25, <3>1, <4>1, <5>1 DEF JInv, SyncSound, Awaits
        <5> QED BY <2>2, <5>1, <5>2
      <4> QED BY <3>1, <4>2, <4>3, <4>4
    <3>2. tq'.what = "state" => v'[tq'.vap].life = "up"
      <4>1. tq'.what = "state" => tq'.vap = x
        BY <1>2 DEF Idle
      <4> QED BY <1>3, <1>19, <4>1
    <3> QED BY <2>3, <3>1, <3>2 DEF SyncSound, Awaits
  <2>7. MonitorsSound'
    <3>1. \A y \in Vaps : Mode(y) = "MON" => State(y)' = State(y)
      BY <1>3, <1>20
    <3>2. Monitoring' = Monitoring
      BY <2>3, <3>1 DEF Monitoring
    <3> QED BY <1>18, <2>3, <3>1, <3>2 DEF JInv, MonitorsSound
  <2>8. PauseSound'
    <3>1. SUFFICES ASSUME Unharmed({"lost", "failed"})'
                   PROVE  /\ "bcn" \in hw'.pause => d'.scanning
                          /\ Linking' # {} /\ (\A y \in Linking' : State(y)' # "CSA") => hw'.pause \subseteq {"bcn"}
      BY DEF PauseSound
    <3>2. Unharmed({"lost", "failed"}) /\ Unharmed({"lost"})'
      BY <1>18, <3>1 DEF Unharmed
    <3>3. Cardinality(L) = before - d.mr /\ Linking' = IF ran THEN L \cup {x} ELSE L
      BY <1>26, <1>28, <1>30, <3>2
    <3>4. "bcn" \in hw'.pause => d'.scanning
      BY <2>1, <2>2, <3>2 DEF JInv, PauseSound
    <3>5. ASSUME Linking' # {}, \A y \in Linking' : State(y)' # "CSA"
          PROVE  hw'.pause \subseteq {"bcn"}
      <4>1. CASE L = {}
        <5>1. ran /\ Cardinality(L) = 0
          BY <3>3, <3>5, <4>1, FS_EmptySet
        <5>2. before = d.mr
          BY <1>5, <1>9, <3>3, <5>1
        <5> QED BY <2>2, <5>1, <5>2
      <4>2. CASE L # {}
        <5>1. n # "CSA"
          <6>1. SUFFICES ASSUME n = "CSA" PROVE FALSE
            OBVIOUS
          <6>2. State(x)' = "CSA"
            BY <1>14, <1>20, <6>1 DEF next
          <6>3. x \in Linking'
            BY <1>20, <1>24, <6>2
          <6> QED BY <3>5, <6>2, <6>3
        <5>2. before # 0
          <6>1. Cardinality(L) \in Nat /\ Cardinality(L) # 0
            BY <1>28, <1>29, <4>2, FS_CardinalityType
          <6>2. d.mr \in Nat
            BY FS_CardinalityType DEF JInv, MonitorsSound
          <6> QED BY <1>9, <3>3, <6>1, <6>2
        <5>3. hw'.pause \subseteq IF o = "CSA" THEN {} ELSE hw.pause
          BY <2>2, <5>1, <5>2
        <5>4. CASE o # "CSA"
          <6>1. \A y \in Linking : State(y) # "CSA"
            <7>1. ASSUME NEW y \in Linking, y # x
                  PROVE  State(y) # "CSA"
              BY <1>20, <1>23, <1>24, <3>5, <7>1
            <7> QED BY <1>20, <5>4, <7>1
          <6>2. Linking # {}
            BY <1>29, <4>2
          <6> QED BY <3>2, <5>3, <5>4, <6>1, <6>2 DEF JInv, PauseSound
        <5> QED BY <5>3, <5>4
      <4> QED BY <4>1, <4>2
    <3> QED BY <3>4, <3>5
  <2> QED BY <2>4, <2>5, <2>6, <2>7, <2>8 DEF JInv
\* Beacons and power save.
<1>39. BInv => BInv'
  <2> SUFFICES ASSUME BInv PROVE BInv'
    OBVIOUS
  <2>1. MovedOnce(x, leaving, ran, m, r)
    <3>1. \A y \in Vaps :
            /\ v'[y].life = v[y].life /\ v'[y].id = v[y].id
            /\ v'[y].updating = r.m.v[y].updating /\ v'[y].csa = r.m.v[y].csa /\ v'[y].pm = r.m.v[y].pm
      BY <1>16, <1>17, <1>19
    <3>2. /\ m.d.slot = d.slot /\ m.d.bcn = d.bcn
          /\ \A y \in Vaps : m.v[y].id = v[y].id /\ m.v[y].curr = v[y].curr
      BY <1>7, <1>8 DEF FrameL, Now
    <3> QED BY <1>3, <1>silent, <1>air, <1>18, <3>1, <3>2 DEF MovedOnce
  <2>2. L = Left(x, leaving)
    BY DEF L, Left
  <2>3. v[x].life = "up" /\ v[x].id \in Ports
    BY <1>3, <1>5
  <2> QED BY <1>5, <1>9, <1>26, <1>27, <2>1, <2>2, <2>3, MovedSound
<1> QED
  BY <1>31, <1>32, <1>33, <1>34, <1>35, <1>36, <1>37, <1>38, <1>39 DEF IInv

--------------------------------------------------------------------------
(* The invariant of the specification.                                      *)

LEMMA InitIInv == Init => IInv
<1> SUFFICES ASSUME Init PROVE IInv
  OBVIOUS
<1>1. /\ \A x \in Vaps : v[x] = Blank
      /\ Idle.what = "idle" /\ Idle.vap = NoVap /\ tq = Idle
  BY DEF Init, Idle
<1>2. Counted = {} /\ Ported = {} /\ Linking = {} /\ \A modes : Up(modes) = {}
  BY <1>1 DEF Counted, Ported, Linking, Up, Blank
<1>3. IsFiniteSet({}) /\ Cardinality({}) = 0
  BY FS_EmptySet
<1>4. TypeOK
  <2>1. Shaped(Now)
    BY VapsAssumption DEF Init, Shaped, Now, Blank, VFields, DFields, HFields, PoweredOn, Ports
  <2> QED BY <2>1 DEF Init, TypeOK, Idle, States
<1>5. LivesSound
  <2>1. ASSUME NEW x \in Vaps
        PROVE  LifeSound(x)
    <3>1. /\ v[x].life = "none" /\ v[x].state = "INIT" /\ v[x].curr = "NOLINK"
          /\ ~v[x].callout /\ ~v[x].task
      BY <1>1 DEF Blank
    <3>2. State(x) = "INIT"
      BY <1>1, <3>1 DEF State
    <3> QED BY <1>1, <1>2, <3>1, <3>2 DEF LifeSound
  <2> QED BY <1>1, <2>1 DEF LivesSound
<1>6. SlotsSound
  BY <1>2 DEF Init, SlotsSound
<1>7. CountsSound
  <2>1. {x \in Ported : Beacons(x)} = {} /\ {x \in Ported : Mode(x) = "AP"} = {} /\ Counted \ Ported = {}
    BY <1>2
  <2> QED BY <1>2, <1>3, <2>1 DEF Init, CountsSound
<1>8. LinksSound
  BY <1>2, <1>3 DEF Init, LinksSound
<1>9. RcrSound /\ MgtSound
  BY <1>1 DEF Init, RcrSound, MgtSound
<1>10. UdtSound
  BY DEF Init, UdtSound, PoweredOn
<1> QED
  BY <1>4, <1>5, <1>6, <1>7, <1>8, <1>9, <1>10 DEF IInv

LEMMA VapNextKeeps ==
    ASSUME IInv, NEW x \in Vaps, VapNext(x)
    PROVE  IInv'
<1>1. CASE OtherOf(x)
  <2>1. OtherStep
    BY <1>1 DEF OtherStep
  <2> QED BY <2>1, OtherFrame, FramedKept DEF IInv
<1>2. CASE ChoosePort(x)
  BY <1>2, ChooseKeeps
<1>3. CASE StoreVap(x)
  BY <1>3, StoreKeeps
<1>4. CASE AttachVap(x)
  BY <1>4, AttachKeeps
<1>5. CASE rtwn_vap_delete(x)
  BY <1>5, DeleteKeeps
<1>6. CASE FreeVap(x)
  BY <1>6, FreeKeeps
<1>7. CASE \E n \in States : iv_newstate(x, n)
  BY <1>7, NewstateKeeps
<1>8. CASE \E n \in States : rtwn_monitor_newstate(x, n)
  BY <1>8, MonitorKeeps
<1>9. CASE rtwn_tsf_sync_adhoc(x)
  BY <1>9, AdhocKeeps
<1>10. CASE rtwn_tsf_sync_adhoc_task(x)
  BY <1>10, TsfTaskKeeps
<1> QED
  BY <1>1, <1>2, <1>3, <1>4, <1>5, <1>6, <1>7, <1>8, <1>9, <1>10 DEF VapNext, OtherOf

LEMMA NextIInv == IInv /\ [Next]_vars => IInv'
<1> SUFFICES ASSUME IInv, [Next]_vars PROVE IInv'
  OBVIOUS
<1>1. CASE \E x \in DOMAIN plan.mode : VapNext(x)
  <2>1. DOMAIN plan.mode = Vaps
    BY PlansAssumption DEF IInv, TypeOK
  <2> QED BY <1>1, <2>1, VapNextKeeps
<1>2. CASE \/ CallCheck \/ r21au_chan_check \/ RadarReported \/ ChannelSwitched
           \/ rtwn_calib_to \/ rtwn_calib_cb \/ rtwn_pwrmode_init \/ rtwn_set_pwrmode_cb
  <2>1. OtherStep
    BY <1>2 DEF OtherStep
  <2> QED BY <2>1, OtherFrame, FramedKept DEF IInv
<1>3. CASE rtwn_parent
  BY <1>3, ParentKeeps
<1>4. CASE SetState
  BY <1>4, SetStateKeeps
<1>5. CASE TsfDelayEnds
  BY <1>5, TsfDelayKeeps
<1>6. CASE rtwn_scan_start
  BY <1>6, ScanStartKeeps
<1>7. CASE rtwn_scan_end
  BY <1>7, ScanEndKeeps
<1>8. CASE SetPromisc
  BY <1>8, SetPromiscKeeps
<1>9. CASE rtwn_update_promisc
  BY <1>9, UpdatePromiscKeeps
<1>10. CASE r12a_ioctl_net
  BY <1>10, IfcapKeeps
<1>11. CASE UNCHANGED vars
  <2>1. Framed(Now, Now)
    BY NowShaped DEF IInv, Framed, FrameV, FrameD, FrameR, FrameH
  <2>2. FramedStep
    BY <1>11, <2>1 DEF vars, FramedStep, Become, Now
  <2> QED BY <2>2, FramedKept
<1> QED
  BY <1>1, <1>2, <1>3, <1>4, <1>5, <1>6, <1>7, <1>8, <1>9, <1>10, <1>11 DEF Next

\* What VapsHear asks for.
LEMMA InvariantMeans == IInv => VapsHear
<1> SUFFICES ASSUME IInv PROVE VapsHear
  OBVIOUS
<1>1. PortsAgree
  <2>1. ASSUME Unharmed({"raced"}), NEW p \in Ports
        PROVE  (d.slot[p] # NoVap) <=> \E x \in Ported : v[x].life # "id" /\ v[x].id = p
    <3>1. ASSUME NEW x \in Ported, v[x].life # "id", v[x].id = p
          PROVE  d.slot[p] # NoVap
      <4>1. d.slot[p] = x /\ x \in Vaps
        BY <2>1, <3>1 DEF IInv, SlotsSound, Ported, Counted
      <4> QED BY <4>1, VapsAssumption
    <3> QED BY <3>1 DEF IInv, SlotsSound
  <2>2. \A p \in Ports : d.slot[p] # NoVap => v[d.slot[p]].id = p
    BY DEF IInv, SlotsSound
  <2>3. Unharmed({"raced"}) => \A x, y \in Ported : x # y => v[x].id # v[y].id
    BY DEF IInv, SlotsSound
  <2>4. /\ Unharmed({"lost"}) => d.vr - d.mr = Cardinality(Linking)
        /\ Unharmed({"lost", "raced", "failed"}) => \A x \in Ported : (v[x].curr # "NOLINK") = (x \in Linking)
    BY DEF IInv, LinksSound
  <2>5. /\ d.nv = Cardinality(Ported) /\ d.mon = Cardinality(Counted \ Ported)
        /\ d.bcn = Cardinality({x \in Ported : Beacons(x)})
        /\ d.ap = Cardinality({x \in Ported : Mode(x) = "AP"})
    BY DEF IInv, CountsSound
  <2> QED BY <2>1, <2>2, <2>3, <2>4, <2>5 DEF PortsAgree
<1>2. FilterAgrees
  BY DEF IInv, FilterAgrees, RcrSound, MgtSound, LinksSound, UdtSound
<1> QED
  BY <1>1, <1>2 DEF VapsHear

(* The counters, the ports and the receive filter agree with the vaps,      *)
(* whatever is created, deleted, run, scanned or toggled around them, and   *)
(* unless a failure d.past remembers says otherwise (rtwn_vap_create(),     *)
(* rtwn_newstate() in if_rtwn.c; if_rtwn_rx.c).                             *)
THEOREM VapsCorrect == Spec => []VapsHear
<1>1. IInv => VapsHear
  BY InvariantMeans
<1> QED
  BY <1>1, InitIInv, NextIInv, PTL DEF Spec

--------------------------------------------------------------------------
(* Chains and pauses.                                                       *)

LEMMA InitJInv == Init => JInv
<1> SUFFICES ASSUME Init PROVE JInv
  OBVIOUS
<1>1. /\ \A x \in Vaps : v[x] = Blank
      /\ tq.what = "idle" /\ ~d.radar /\ d.mr = 0 /\ hw.pause = {}
  BY DEF Init, Idle, PoweredOn
<1>2. \A x \in Vaps : v[x].life = "none" /\ State(x) = "INIT"
  BY <1>1 DEF Blank, State
<1>3. Linking = {} /\ Monitoring = {}
  BY <1>2 DEF Linking, Ported, Counted, Monitoring
<1>4. IsFiniteSet({}) /\ Cardinality({}) = 0
  BY FS_EmptySet
<1>5. RadarSound /\ CalibSound /\ SyncSound /\ PauseSound
  BY <1>1, <1>3 DEF RadarSound, CalibSound, SyncSound, PauseSound
<1>6. MonitorsSound
  BY <1>1, <1>2, <1>3, <1>4 DEF MonitorsSound
<1> QED
  BY <1>5, <1>6 DEF JInv

LEMMA SteadyStepGoesOn ==
    ASSUME IInv, IInv', JInv, SteadyStep
    PROVE  JInv'
BY SteadyVapsKeep DEF SteadyStep

LEMMA VapGoesOn ==
    ASSUME IInv, IInv', JInv, NEW x \in Vaps, VapNext(x)
    PROVE  JInv'
<1>1. CASE OtherOf(x)
  <2>1. SteadyStep
    BY <1>1, OtherOfSteady DEF IInv
  <2> QED BY <2>1, SteadyStepGoesOn
<1>2. CASE ChoosePort(x)
  BY <1>2, ChooseGoesOn
<1>3. CASE StoreVap(x)
  BY <1>3, StoreGoesOn
<1>4. CASE AttachVap(x)
  BY <1>4, AttachGoesOn
<1>5. CASE rtwn_vap_delete(x)
  BY <1>5, DeleteGoesOn
<1>6. CASE FreeVap(x)
  BY <1>6, FreeGoesOn
<1>7. CASE \E n \in States : iv_newstate(x, n)
  BY <1>7, NewstateKeeps
<1>8. CASE \E n \in States : rtwn_monitor_newstate(x, n)
  BY <1>8, MonitorGoesOn
<1>9. CASE rtwn_tsf_sync_adhoc(x)
  BY <1>9, AdhocGoesOn
<1>10. CASE rtwn_tsf_sync_adhoc_task(x)
  BY <1>10, TsfTaskGoesOn
<1> QED
  BY <1>1, <1>2, <1>3, <1>4, <1>5, <1>6, <1>7, <1>8, <1>9, <1>10 DEF VapNext, OtherOf

LEMMA NextJInv == IInv /\ IInv' /\ JInv /\ [Next]_vars => JInv'
<1> SUFFICES ASSUME IInv, IInv', JInv, [Next]_vars PROVE JInv'
  OBVIOUS
<1>1. CASE \E x \in DOMAIN plan.mode : VapNext(x)
  <2>1. DOMAIN plan.mode = Vaps
    BY PlansAssumption DEF IInv, TypeOK
  <2> QED BY <1>1, <2>1, VapGoesOn
<1>2. CASE \/ ChannelSwitched \/ rtwn_pwrmode_init \/ rtwn_set_pwrmode_cb
           \/ SetPromisc \/ rtwn_update_promisc \/ r12a_ioctl_net
  <2>1. SteadyStep
    BY <1>2, MoreSteady DEF IInv
  <2> QED BY <2>1, SteadyStepGoesOn
<1>3. CASE rtwn_parent
  BY <1>3, ParentGoesOn
<1>4. CASE SetState
  BY <1>4, SetStateGoesOn
<1>5. CASE TsfDelayEnds
  BY <1>5, TsfDelayGoesOn
<1>6. CASE rtwn_scan_start
  BY <1>6, ScanStartGoesOn
<1>7. CASE rtwn_scan_end
  BY <1>7, ScanEndGoesOn
<1>8. CASE CallCheck
  BY <1>8, CallCheckGoesOn
<1>9. CASE r21au_chan_check
  BY <1>9, CheckGoesOn
<1>10. CASE RadarReported
  <2> DEFINE n == [Now EXCEPT !.d.check = "none", !.d.chk = @ \/ d.radar]
  <2>1. d.check # "none" /\ Become(n) /\ UNCHANGED <<plan, tq>>
    BY <1>10 DEF RadarReported
  <2> QED BY <2>1, ReportedGoesOn
<1>11. CASE rtwn_calib_to
  BY <1>11, CalibToGoesOn
<1>12. CASE rtwn_calib_cb
  BY <1>12, CalibCbGoesOn
<1>13. CASE UNCHANGED vars
  <2>1. Become(Now) /\ UNCHANGED <<plan, tq>>
    BY <1>13 DEF vars, Become, Now
  <2>2. Steady(Now, Now) /\ SteadyVaps(Now, Now)
    BY NowShaped, SteadySelf DEF IInv
  <2>3. SteadyStep
    BY <2>1, <2>2 DEF SteadyStep
  <2> QED BY <2>3, SteadyStepGoesOn
<1> QED
  BY <1>1, <1>2, <1>3, <1>4, <1>5, <1>6, <1>7, <1>8, <1>9, <1>10, <1>11, <1>12, <1>13 DEF Next

LEMMA ChainsMeant == IInv /\ JInv => ChainsGoOn
<1> SUFFICES ASSUME IInv, JInv PROVE ChainsGoOn
  OBVIOUS
<1>1. d.running /\ d.radar /\ Unharmed({"failed"}) =>
        /\ ~d.scanning => hw.radar /\ (d.chk \/ d.check # "none")
        /\ d.chk \/ d.check = "called" => hw.radar
  BY DEF JInv, RadarSound
<1>2. \A x \in Linking : Mode(x) = "IBSS" /\ Unharmed({"lost", "failed", "raced"}) =>
        v[x].callout \/ v[x].task \/ (tq.what = "tsf" /\ tq.vap = x)
  BY DEF JInv, SyncSound, Awaits
<1>3. ASSUME NEW x \in Vaps, v[x].life = "none"
      PROVE  ~v[x].callout /\ ~v[x].task /\ tq.vap # x
  <2>1. ~(v[x].callout \/ v[x].task \/ (tq.what = "tsf" /\ tq.vap = x))
    BY <1>3 DEF IInv, LivesSound, LifeSound
  <2>2. tq.what = "state" => tq.vap # x
    BY <1>3 DEF JInv, SyncSound
  <2>3. tq.what = "idle" => tq.vap # x
    BY VapsAssumption DEF IInv, TypeOK, Idle
  <2> QED BY <2>1, <2>2, <2>3 DEF IInv, TypeOK
<1> QED
  BY <1>1, <1>2, <1>3 DEF ChainsGoOn, JInv, CalibSound

LEMMA PausesMeant == JInv => PausesAgree
BY DEF JInv, PauseSound, PausesAgree

(* What must run again and again has its next run scheduled, whatever the    *)
(* order of state changes, scans, radar events, deletions and the driver's   *)
(* own tasks: the radar check while a vap needs it, the TSF synchronisation  *)
(* of a running IBSS, and calibration; and no task is left of a deleted vap  *)
(* (r21au_dfs.c, rtwn_tsf_sync_adhoc_task(), rtwn_calib_to()).               *)
THEOREM ChainsCorrect == Spec => []ChainsGoOn
<1>1. IInv /\ JInv => ChainsGoOn
  BY ChainsMeant
<1> QED
  BY <1>1, InitIInv, NextIInv, InitJInv, NextJInv, PTL DEF Spec

(* Between scans and channel switches nothing holds the queues of a running  *)
(* vap: every pause that rtwn_newstate() and rtwn_scan_start() write is      *)
(* taken back, unless a failure d.past remembers came between.               *)
THEOREM PausesCorrect == Spec => []PausesAgree
<1>1. JInv => PausesAgree
  BY PausesMeant
<1> QED
  BY <1>1, InitIInv, NextIInv, InitJInv, NextJInv, PTL DEF Spec

--------------------------------------------------------------------------
(* Beacons and power save.                                                   *)

LEMMA InitBInv == Init => BInv
<1> SUFFICES ASSUME Init PROVE BInv
  OBVIOUS
<1>1. /\ \A x \in Vaps : v[x] = Blank
      /\ ~d.running /\ DOMAIN hw.page = Ports
  BY DEF Init, PoweredOn
<1>2. \A x \in Vaps : v[x].life = "none" /\ ~v[x].pm /\ ~v[x].updating /\ ~v[x].csa
  BY <1>1 DEF Blank
<1>3. Ported = {}
  BY <1>2 DEF Ported, Counted
<1> QED
  BY <1>1, <1>2, <1>3 DEF BInv, FlagsSound, PagesSound, Whole

LEMMA VapSound ==
    ASSUME IInv, IInv', BInv, NEW x \in Vaps, VapNext(x)
    PROVE  BInv'
<1>1. CASE Open(x) \/ Close(x) \/ rtwn_tsf_sync_adhoc(x)
  BY <1>1, QuietSteps
<1>2. CASE ChoosePort(x)
  BY <1>2, ChooseSound
<1>3. CASE StoreVap(x)
  BY <1>3, StoreSound
<1>4. CASE AttachVap(x)
  BY <1>4, AttachSound
<1>5. CASE rtwn_vap_delete(x)
  BY <1>5, DeleteSound
<1>6. CASE FreeVap(x)
  BY <1>6, FreeSound
<1>7. CASE \E n \in States : iv_newstate(x, n)
  BY <1>7, NewstateKeeps
<1>8. CASE \E n \in States : rtwn_monitor_newstate(x, n)
  BY <1>8, MonitorSound
<1>9. CASE rtwn_tsf_sync_adhoc_task(x)
  BY <1>9, TsfTaskSound
<1>10. CASE rtwn_update_beacon(x)
  BY <1>10, UpdateSound
<1>11. CASE rtwn_tx_beacon_csa(x)
  BY <1>11, CsaSound
<1>12. CASE rtwn_update_beacon_end(x)
  BY <1>12, EndSound
<1>13. CASE rtwn_ioctl_reset(x)
  BY <1>13, ResetSound
<1> QED
  BY <1>1, <1>2, <1>3, <1>4, <1>5, <1>6, <1>7, <1>8, <1>9, <1>10, <1>11, <1>12, <1>13 DEF VapNext

LEMMA NextBInv == IInv /\ IInv' /\ BInv /\ [Next]_vars => BInv'
<1> SUFFICES ASSUME IInv, IInv', BInv, [Next]_vars PROVE BInv'
  OBVIOUS
<1>1. CASE \E x \in DOMAIN plan.mode : VapNext(x)
  <2>1. DOMAIN plan.mode = Vaps
    BY PlansAssumption DEF IInv, TypeOK
  <2> QED BY <1>1, <2>1, VapSound
<1>2. CASE \/ ChannelSwitched \/ rtwn_calib_to \/ rtwn_calib_cb \/ rtwn_pwrmode_init
           \/ SetPromisc \/ rtwn_update_promisc \/ r12a_ioctl_net
           \/ CallCheck \/ r21au_chan_check \/ RadarReported
  BY <1>2, QuietSteps
<1>3. CASE rtwn_parent
  BY <1>3, ParentSound
<1>4. CASE SetState
  BY <1>4, SetStateSound
<1>5. CASE TsfDelayEnds
  BY <1>5, TsfDelaySound
<1>6. CASE rtwn_scan_start
  BY <1>6, ScanStartSound
<1>7. CASE rtwn_scan_end
  BY <1>7, ScanEndSound
<1>8. CASE rtwn_set_pwrmode_cb
  BY <1>8, PwrmodeCbSound
<1>9. CASE UNCHANGED vars
  <2>1. Become(Now) /\ UNCHANGED <<plan, tq>>
    BY <1>9 DEF vars, Become, Now
  <2>2. Calm(Now, Now)
    BY NowShaped, CalmSelf DEF IInv
  <2> QED BY <2>1, <2>2, CalmStepSound DEF CalmStep
<1> QED
  BY <1>1, <1>2, <1>3, <1>4, <1>5, <1>6, <1>7, <1>8, <1>9 DEF Next

LEMMA BeaconsMeant == IInv /\ BInv => BeaconAgrees
<1> SUFFICES ASSUME BInv, Whole
             PROVE  /\ hw.en \subseteq {v[x].id : x \in Beaconing}
                    /\ \A x \in Beaconing :
                         /\ v[x].id \in hw.en \/ (plan.bus = "PCI" /\ v[x].updating)
                         /\ hw.page[Page(v[x].id)] = x
                    /\ hw.ps /\ Unharmed({"late"}) =>
                         /\ \E x \in Linking : v[x].id = 0 /\ Mode(x) = "STA"
                         /\ hw.null \/ ~Unharmed({"hidden"})
  BY DEF BeaconAgrees, Whole
<1>1. EnabledSound /\ SaveSound
  BY DEF BInv
<1>2. hw.en \subseteq {v[x].id : x \in Beaconing}
  BY <1>1 DEF EnabledSound
<1>3. ASSUME hw.ps, Unharmed({"late"})
      PROVE  /\ \E x \in Linking : v[x].id = 0 /\ Mode(x) = "STA"
             /\ hw.null \/ ~Unharmed({"hidden"})
  BY <1>1, <1>3 DEF SaveSound, Saver
<1> QED
  BY <1>1, <1>2, <1>3 DEF EnabledSound

(* The ports that beacon are those of the AP and IBSS vaps in RUN or CSA,    *)
(* each with its own frame in the page the chip sends from, although the     *)
(* null data frames of a STA go through that page where the ports share one, *)
(* a PCI chip stops beaconing while a frame is changed, and the vaps may     *)
(* leave RUN meanwhile; and the chip saves power only for a running STA of   *)
(* port 0 (rtwn_run(), rtwn_push_nulldata(), rtwn_update_beacon(),           *)
(* set_pwrmode()).                                                           *)
THEOREM BeaconsCorrect == Spec => []BeaconAgrees
<1>1. IInv /\ BInv => BeaconAgrees
  BY BeaconsMeant
<1> QED
  BY <1>1, InitIInv, NextIInv, InitBInv, NextBInv, PTL DEF Spec

=============================================================================
