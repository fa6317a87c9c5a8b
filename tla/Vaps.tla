-------------------------------- MODULE Vaps --------------------------------
(***************************************************************************)
(* The vaps on the device's two ports: their creation and deletion, their  *)
(* state changes, the receive filter, beacons, TSF synchronisation, the    *)
(* null data pages of power save, pauses of the queues, scans and radar    *)
(* detection.  net80211's task queue serves state changes, scans, the      *)
(* parent task, TSF tasks and the driver's commands one at a time ("tq");  *)
(* ioctls, beacon updates and the system's task queue run beside it and    *)
(* meet it only at the driver's lock.                                      *)
(*                                                                         *)
(* Waits of milliseconds for the "beacon valid" bit are inside a step; the *)
(* wait of five beacon intervals of the TSF task is not.  SCAN stands for  *)
(* SCAN, AUTH and ASSOC.                                                   *)
(***************************************************************************)
EXTENDS Integers, FiniteSets, FiniteSetsExt

CONSTANTS
    Vaps,         \* the vaps net80211 may create
    Plans,        \* records [bus, bcnq1, pmgt, dfs, mode, acts], see MCVaps
    NoVap,        \* a NULL rtwn_vap pointer
    NullPage      \* null data frames where a beacon may be

ASSUME VapsAssumption == NoVap \notin Vaps
ASSUME PlansAssumption == \A p \in Plans : p.mode \in [Vaps -> {"STA", "AP", "IBSS", "MON"}]

VARIABLES
    plan,         \* the device, the vaps' modes, and what the environment does
    v,            \* each vap, see Blank
    d,            \* the driver's fields
    hw,           \* the chip's registers and pages
    tq            \* what net80211's task queue is in the middle of

vars == <<plan, v, d, hw, tq>>

Ports == {0, 1}
INVALID == -1
AC == {"ac"}
Idle == [what |-> "idle", vap |-> NoVap, to |-> "INIT"]

Mode(x) == plan.mode[x]
Beacons(x) == Mode(x) \in {"AP", "IBSS"}
May(act) == act \in plan.acts
\* Bound: one rtwn_run() that fails for a vap in RUN or CSA ends the failures,
\* for the counters are off by one from then on.
MayFail == May("fail") /\ "lost" \notin d.past

\* struct rtwn_vap; "id" is a creation between choosing a port and storing
\* the vap under it, "set" one before ieee80211_vap_attach().  "updating" is
\* an rtwn_update_beacon() that dropped the lock, "task" a queued TSF task.
Blank == [life |-> "none", id |-> INVALID, open |-> FALSE, state |-> "INIT", curr |-> "NOLINK",
          callout |-> FALSE, task |-> FALSE, updating |-> FALSE, csa |-> FALSE, pm |-> FALSE]

\* Registers after a power cycle, rtwn_init_beacon_reg() and rtwn_rxfilter_init().
PoweredOn == [pause |-> {}, en |-> {}, udt |-> {}, rcr |-> {}, flt0 |-> {}, flt2 |-> FALSE,
              page |-> [p \in Ports |-> NoVap], null |-> FALSE, ps |-> FALSE, radar |-> FALSE]

\* What a step works on.
Now == [v |-> v, d |-> d, hw |-> hw]
Become(m) == v' = m.v /\ d' = m.d /\ hw' = m.hw

--------------------------------------------------------------------------
(* The receive filter.                                                     *)

rtwn_rxfilter_set_Unlocked(m) ==    \* mutant: RTWN_RCR_LOCKED is not looked at
    [m EXCEPT !.hw.rcr = m.d.rcr]
rtwn_rxfilter_set(m) ==
    IF m.d.locked THEN m ELSE [m EXCEPT !.hw.rcr = m.d.rcr]

rtwn_set_rx_bssid_all(m, enable) ==
    rtwn_rxfilter_set([m EXCEPT !.d.rcr = IF enable THEN @ \ {"bcn"} ELSE @ \cup {"bcn"}])

\* "bcn" and "data" keep frames of other BSSs out, "apm" lets frames to the
\* own address in, "all" every frame.
rtwn_set_promisc(m) ==
    LET min == {"apm"} \cup (IF m.d.bcn = 0 THEN {"bcn"} ELSE {})
                       \cup (IF m.d.ap = 0 THEN {"data"} ELSE {})
        quiet == ~m.d.promisc /\ m.d.mon = 0
    IN  rtwn_rxfilter_set([m EXCEPT !.d.rcr =
            IF quiet THEN (@ \ {"all", "bcn", "data"}) \cup min
            ELSE (@ \ min) \cup {"all"}])

rtwn_rxfilter_update_mgt(m) ==
    [m EXCEPT !.hw.flt0 = (IF m.d.bcn = 0 THEN {} ELSE {"req"})
                     \cup (IF m.d.ap = m.d.nv - m.d.mon THEN {} ELSE {"resp"})]

rtwn_rxfilter_update(m) == rtwn_set_promisc(rtwn_rxfilter_update_mgt(m))
UpdateIfRunning(m) == IF m.d.running THEN rtwn_rxfilter_update(m) ELSE m

rtwn_rxfilter_init(m) ==
    rtwn_rxfilter_update([m EXCEPT !.hw.flt2 = FALSE, !.d.rcr = @ \cup {"apm"}])

--------------------------------------------------------------------------
(* The registers of a port.                                                *)

rtwn_set_mode(m, mode, id) ==
    IF m.d.slot[id] = NoVap THEN m ELSE [m EXCEPT !.v[m.d.slot[id]].curr = mode]

rtwn_beacon_enable(m, id, enable) ==
    [m EXCEPT !.hw.en = IF enable THEN @ \cup {id} ELSE @ \ {id}]

\* The chips without a second beacon queue keep one page.
Page(id) == IF plan.bcnq1 THEN id ELSE 0
rtwn_tx_beacon(m, x, frame) == [m EXCEPT !.hw.page[Page(m.v[x].id)] = frame]

\* rtwn_setup_beacon(): five tries; when none is recognised, what the page
\* holds is not known.
rtwn_setup_beacon(m, x, ok) == rtwn_tx_beacon(m, x, IF ok THEN x ELSE NoVap)

\* r92c_, r88e_ and r12a_set_pwrmode(): power save needs a vap in RUN.
set_pwrmode(m, x, off) ==
    [m EXCEPT !.hw.ps = off /\ m.v[x].state = "RUN" /\ m.v[x].pm]

rtwn_tsf_sync_enable(m, x) ==
    LET id == m.v[x].id
    IN  CASE Mode(x) = "STA" -> [m EXCEPT !.hw.udt = @ \cup {id}]
          [] Mode(x) = "IBSS" -> rtwn_beacon_enable([m EXCEPT !.v[x].task = TRUE], id, TRUE)
          [] Mode(x) = "AP" -> rtwn_beacon_enable(m, id, TRUE)

\* The last try of rtwn_tx_fwpkt_check().  The other port's beacon goes back
\* into the page, and how that went replaces how the null data frames went.
rtwn_push_nulldata(m, x, sent, restored) ==
    LET other == m.d.slot[1 - m.v[x].id]
        restore == m.d.bcn > 0 /\ other # NoVap /\ (other # NoVap => m.v[other].curr # "NOLINK")
        pushed == [rtwn_tx_beacon(m, x, NullPage) EXCEPT !.hw.null = sent]
    IN  [error |-> IF restore THEN ~restored ELSE ~sent,
         m |-> IF ~restore THEN pushed
               ELSE [rtwn_tx_beacon(pushed, other, IF restored THEN other ELSE NoVap)
                     EXCEPT !.d.past = @ \cup (IF sent THEN {} ELSE {"hidden"})
                                         \cup (IF restored THEN {} ELSE {"failed"})]]

--------------------------------------------------------------------------
(* State changes: rtwn_newstate() and rtwn_run().                          *)

Saves(x, m) == plan.pmgt /\ m.v[x].id = 0

\* Out of RUN or CSA.
Leave(m, x) ==
    LET id == m.v[x].id
        left == [rtwn_beacon_enable(rtwn_set_mode(m, "NOLINK", id), id, FALSE)
                 EXCEPT !.d.vr = @ - 1, !.v[x].callout = FALSE, !.hw.udt = @ \ {id}]
        awake == IF Saves(x, m) THEN set_pwrmode([left EXCEPT !.d.pwrto = FALSE], x, FALSE) ELSE left
    IN  IF awake.d.vr # awake.d.mr THEN awake
        ELSE [awake EXCEPT !.d.calto = FALSE, !.hw.flt2 = FALSE]

\* rtwn_run(); "how" is what goes wrong in it, and restored see rtwn_push_nulldata.
CurrMode(x) == CASE Mode(x) = "STA" -> "INFRA" [] Mode(x) = "IBSS" -> "ADHOC" [] Mode(x) = "AP" -> "AP"
rtwn_run(m, x, how, restored) ==
    LET first == m.d.vr = m.d.mr
        linked == rtwn_set_mode(m, CurrMode(x), m.v[x].id)
        opened == IF first THEN [linked EXCEPT !.hw.flt2 = TRUE, !.hw.pause = {}] ELSE linked
        nulls == Saves(x, m) /\ Mode(x) = "STA"
        push == rtwn_push_nulldata(opened, x, how # "null", restored)
        saved == IF nulls THEN [push.m EXCEPT !.d.pwrto = TRUE] ELSE opened
        synced == rtwn_tsf_sync_enable(saved, x)
        beaconing == IF Beacons(x) THEN rtwn_setup_beacon(synced, x, how # "beacon") ELSE synced
        failed(n) == [error |-> TRUE, m |-> [n EXCEPT !.d.past = @ \cup {"failed"}]]
    IN  CASE how = "channel" -> [error |-> TRUE, m |-> m]
          [] how # "channel" /\ nulls /\ push.error -> failed(push.m)
          [] how = "beacon" /\ Beacons(x) -> failed(beaconing)
          [] OTHER -> [error |-> FALSE,
                       m |-> IF first THEN [beaconing EXCEPT !.d.calto = TRUE] ELSE beaconing]

\* rtwn_newstate() up to its unlock: the fields, and whether it failed.
rtwn_newstate(m, x, n, how, restored) ==
    LET o == m.v[x].state
        leaving == (o = "RUN" /\ n # "CSA") \/ o = "CSA"
        cancelled == IF o = "CSA" THEN [m EXCEPT !.v[x].csa = FALSE, !.hw.pause = {}] ELSE m
        left == IF leaving THEN Leave(cancelled, x) ELSE cancelled
        ran == rtwn_run(left, x, how, restored)
    IN  CASE n = "SCAN" -> [error |-> FALSE, m |-> IF left.d.vr # 0 THEN left
                                                   ELSE [left EXCEPT !.hw.pause = @ \cup AC]]
          [] n = "RUN" /\ ~ran.error -> [error |-> FALSE, m |-> [ran.m EXCEPT !.d.vr = @ + 1]]
          [] n = "RUN" /\ ran.error ->
                [error |-> TRUE, m |-> IF leaving THEN [ran.m EXCEPT !.d.past = @ \cup {"lost"}] ELSE ran.m]
          [] n = "CSA" -> [error |-> FALSE, m |-> [left EXCEPT !.hw.pause = @ \cup AC \cup {"mgt", "high"}]]
          [] OTHER -> [error |-> FALSE, m |-> left]

Below(state) == state \in {"INIT", "SCAN", "CSA"}

\* r21au_newstate(), before it calls rtwn_newstate().
r21au_newstate(m, x, n) ==
    LET other == m.d.slot[1 - m.v[x].id]
        unused == IF other = NoVap THEN TRUE ELSE Below(m.v[other].state)
    IN  CASE n = "CAC" /\ ~m.d.radar -> [m EXCEPT !.d.radar = TRUE, !.hw.radar = TRUE, !.d.chk = TRUE]
          [] Below(n) /\ m.d.radar /\ unused ->
                [m EXCEPT !.d.radar = FALSE, !.hw.radar = FALSE, !.d.chk = FALSE]
          [] OTHER -> m

--------------------------------------------------------------------------
(* Creation and deletion.                                                  *)

Count(m, x, n) ==
    LET inc(modes) == IF Mode(x) \in modes THEN n ELSE 0
    IN  [m EXCEPT !.d.ap = @ + inc({"AP"}), !.d.bcn = @ + inc({"AP", "IBSS"}),
                  !.d.nv = @ + inc({"AP", "IBSS", "STA"}), !.d.mon = @ + inc({"MON"})]

\* Nothing keeps a port from being released while a creation has chosen one
\* and not stored its vap: "raced".
Choosing(m, x) == \E y \in Vaps \ {x} : m.v[y].life = "id"
rtwn_vap_decrement_counters(m, x) ==
    Count([m EXCEPT !.d.slot = IF m.v[x].id = INVALID THEN @ ELSE [@ EXCEPT ![m.v[x].id] = NoVap],
                    !.d.past = @ \cup (IF Choosing(m, x) THEN {"raced"} ELSE {})],
          x, -1)

\* The port a vap gets.
FreePort(nv, slot) == IF nv = 0 \/ slot[1] # NoVap THEN 0 ELSE 1

\* rtwn_vap_create(), in the three places that hold the lock.
ChoosePort(x) ==
    /\ v[x].life = "none" /\ ~v[x].csa
    /\ Mode(x) # "MON" => /\ d.nv < 2
                          /\ Beacons(x) => d.bcn = 0 \/ (d.bcn = 1 /\ plan.bcnq1)
    /\ LET id == IF Mode(x) = "MON" THEN INVALID ELSE FreePort(d.nv, d.slot)
       IN  Become(Count([Now EXCEPT !.v[x].life = "id", !.v[x].id = id], x, 1))
    /\ UNCHANGED <<plan, tq>>

StoreVap(x) ==
    /\ v[x].life = "id"
    /\ Become([Now EXCEPT !.v[x].life = "set",
                          !.d.slot = IF v[x].id = INVALID THEN @ ELSE [@ EXCEPT ![v[x].id] = x]])
    /\ UNCHANGED <<plan, tq>>

AttachVap(x) ==
    /\ v[x].life = "set"
    /\ \/ Become(UpdateIfRunning([Now EXCEPT !.v[x].life = "up"]))
       \/ /\ MayFail /\ (Choosing(Now, x) => May("race"))
          /\ Become([rtwn_vap_decrement_counters(Now, x) EXCEPT
                        !.v[x] = Blank, !.d.past = @ \cup (IF Mode(x) = "MON" THEN {"undone"} ELSE {})])
    /\ UNCHANGED <<plan, tq>>

\* The vap is in INIT, and the tasks of its state and of the parent have
\* run.  An IBSS vap's TSF task and callout are drained last.
rtwn_vap_delete(x) ==
    /\ May("delete") /\ v[x].life = "up" /\ ~v[x].open /\ v[x].state = "INIT" /\ ~v[x].updating
    /\ Choosing(Now, x) => May("race")
    /\ tq # [what |-> "state", vap |-> x, to |-> tq.to]
    /\ d.running = (\E y \in Vaps : v[y].open)
    /\ LET gone == IF Mode(x) = "IBSS" THEN [v[x] EXCEPT !.life = "dying"] ELSE [Blank EXCEPT !.csa = v[x].csa]
       IN  Become(UpdateIfRunning([rtwn_vap_decrement_counters(Now, x) EXCEPT !.v[x] = gone]))
    /\ UNCHANGED <<plan, tq>>

FreeVap(x) ==
    /\ v[x].life = "dying" /\ ~v[x].task /\ tq.vap # x
    /\ Become([Now EXCEPT !.v[x] = Blank])
    /\ UNCHANGED <<plan, tq>>

--------------------------------------------------------------------------
(* net80211: opening, closing, the parent task and the state machine.      *)

Open(x) ==
    /\ v[x].life = "up" /\ ~v[x].open /\ May("open")
    /\ Become([Now EXCEPT !.v[x].open = TRUE])
    /\ UNCHANGED <<plan, tq>>

Close(x) ==
    /\ v[x].open /\ May("close")
    /\ Become([Now EXCEPT !.v[x].open = FALSE])
    /\ UNCHANGED <<plan, tq>>

CloseAll(m) == [m EXCEPT !.v = [x \in Vaps |-> [m.v[x] EXCEPT !.open = FALSE]]]

rtwn_init(m) ==
    LET off == [m EXCEPT !.hw = PoweredOn, !.d.past = @ \ {"failed", "hidden", "late", "undone"}]
        unlinked == rtwn_set_mode(rtwn_set_mode(off, "NOLINK", 0), "NOLINK", 1)
    IN  [rtwn_rxfilter_init(unlinked) EXCEPT !.d.running = TRUE]

rtwn_stop(m) == [m EXCEPT !.d.running = FALSE]

rtwn_parent ==
    /\ tq = Idle
    /\ \/ /\ ~d.running /\ \E x \in Vaps : v[x].open
          /\ \/ Become(rtwn_init(Now))
             \/ MayFail /\ Become(CloseAll(Now))
       \/ /\ d.running /\ \A x \in Vaps : ~v[x].open /\ v[x].state = "INIT"
          /\ Become(rtwn_stop(Now))
    /\ UNCHANGED <<plan, tq>>

\* The state changes net80211 asks for.
Moves(x) ==
    LET csa == IF d.csapending THEN {<<"RUN", "CSA">>} ELSE {<<"CSA", "RUN">>}
        dfs == IF plan.dfs THEN {<<"SCAN", "CAC">>, <<"CAC", "RUN">>, <<"CSA", "CAC">>, <<"RUN", "CAC">>} ELSE {}
    IN  CASE Mode(x) = "STA" -> {<<"INIT", "SCAN">>, <<"SCAN", "RUN">>, <<"RUN", "SCAN">>} \cup csa
          [] Mode(x) = "AP" -> {<<"INIT", "SCAN">>, <<"SCAN", "RUN">>, <<"INIT", "RUN">>} \cup csa \cup dfs
          [] Mode(x) = "IBSS" -> {<<"INIT", "SCAN">>, <<"SCAN", "RUN">>, <<"RUN", "SCAN">>, <<"RUN", "RUN">>}
          [] Mode(x) = "MON" -> {<<"INIT", "RUN">>}
Move(x, n) ==
    /\ tq = Idle /\ v[x].life = "up"
    /\ \/ v[x].open /\ d.running /\ <<v[x].state, n>> \in Moves(x)
       \/ ~v[x].open /\ n = "INIT" /\ v[x].state # "INIT"

\* From INIT straight to RUN net80211's own handler has gone first, and
\* the vap is in RUN whatever rtwn_run() does.
iv_newstate(x, n) ==
    /\ Move(x, n) /\ Mode(x) # "MON"
    /\ \E how \in {"ok"} \cup (IF n = "RUN" /\ MayFail THEN {"channel", "null", "beacon"} ELSE {}),
          restored \in {TRUE} \cup (IF n = "RUN" /\ MayFail THEN {FALSE} ELSE {}) :
          LET early == v[x].state = "INIT" /\ n = "RUN"
              r == rtwn_newstate(IF plan.dfs THEN r21au_newstate(Now, x, n) ELSE Now, x, n, how, restored)
          IN  /\ Become(IF ~early THEN r.m
                        ELSE [r.m EXCEPT !.v[x].state = "RUN",
                                         !.d.past = @ \cup (IF r.error THEN {"lost"} ELSE {})])
              /\ tq' = IF r.error \/ early THEN Idle ELSE [what |-> "state", vap |-> x, to |-> n]
    /\ UNCHANGED plan

rtwn_monitor_newstate(x, n) ==
    /\ Move(x, n) /\ Mode(x) = "MON"
    /\ LET by == IF n = "RUN" THEN 1 ELSE -1
       IN  Become([Now EXCEPT !.d.vr = @ + by, !.d.mr = @ + by])
    /\ tq' = [what |-> "state", vap |-> x, to |-> n]
    /\ UNCHANGED plan

\* Only now does net80211 set iv_state: the driver's lock was dropped before.
SetState ==
    /\ tq.what = "state"
    /\ Become([Now EXCEPT !.v[tq.vap].state = tq.to])
    /\ tq' = Idle /\ UNCHANGED plan

--------------------------------------------------------------------------
(* TSF synchronisation of an IBSS.                                         *)

rtwn_tsf_sync_adhoc(x) ==
    /\ v[x].callout
    /\ Become([Now EXCEPT !.v[x].callout = FALSE, !.v[x].task = @ \/ v[x].curr # "NOLINK"])
    /\ UNCHANGED <<plan, tq>>

\* The lock is free during the delay between these two.
TsfTask(m, x) ==
    [rtwn_set_rx_bssid_all(m, FALSE) EXCEPT
        !.v[x].task = FALSE, !.d.locked = TRUE, !.hw.udt = @ \cup {m.v[x].id}]
rtwn_tsf_sync_adhoc_task(x) ==
    /\ tq = Idle /\ v[x].task
    /\ Become(TsfTask(Now, x))
    /\ tq' = [what |-> "tsf", vap |-> x, to |-> "INIT"]
    /\ UNCHANGED plan

TsfTaskEnd_NoCallout(m, x) ==    \* mutant: the next synchronisation is not scheduled
    rtwn_set_rx_bssid_all([m EXCEPT !.d.locked = FALSE, !.hw.udt = @ \ {m.v[x].id}], TRUE)
TsfTaskEnd(m, x) ==
    rtwn_set_rx_bssid_all([m EXCEPT !.d.locked = FALSE, !.hw.udt = @ \ {m.v[x].id},
                                    !.v[x].callout = TRUE], TRUE)
TsfDelayEnds ==
    /\ tq.what = "tsf"
    /\ Become(TsfTaskEnd(Now, tq.vap))
    /\ tq' = Idle /\ UNCHANGED plan

--------------------------------------------------------------------------
(* Scans and radar detection.                                              *)

\* r21au_scan_start() waits for a radar check under way.
rtwn_scan_start ==
    /\ tq = Idle /\ May("scan") /\ d.running /\ ~d.scanning /\ \E x \in Vaps : v[x].open
    /\ d.radar => d.check = "none"
    /\ LET quiet == IF d.radar THEN [Now EXCEPT !.d.chk = FALSE, !.hw.radar = FALSE] ELSE Now
           paused == [quiet EXCEPT !.d.scanning = TRUE, !.hw.pause = @ \cup {"bcn"}]
       IN  Become(IF d.bcn = 0 THEN rtwn_set_rx_bssid_all(paused, TRUE) ELSE paused)
    /\ UNCHANGED <<plan, tq>>

ScanEnd_KeepPause(m) ==          \* mutant: beaconing is not resumed
    LET over == [m EXCEPT !.d.scanning = FALSE]
    IN  IF ~m.d.promisc /\ m.d.bcn = 0 THEN rtwn_set_rx_bssid_all(over, FALSE) ELSE over
ScanEnd(m) ==
    LET over == [m EXCEPT !.d.scanning = FALSE, !.hw.pause = @ \ {"bcn"}]
    IN  IF ~m.d.promisc /\ m.d.bcn = 0 THEN rtwn_set_rx_bssid_all(over, FALSE) ELSE over

\* When the radar cannot be enabled again, r21au_scan_end() leaves the rest
\* of the scan's end out and asks for a restart of every vap.
rtwn_scan_end ==
    /\ tq = Idle /\ d.scanning
    /\ \/ Become(ScanEnd(IF d.radar THEN [Now EXCEPT !.d.chk = TRUE, !.hw.radar = TRUE] ELSE Now))
       \/ /\ d.radar /\ MayFail
          /\ Become(CloseAll([Now EXCEPT !.d.scanning = FALSE, !.d.past = @ \cup {"failed"}]))
    /\ UNCHANGED <<plan, tq>>

\* The check is called, and may wait for the lock; a radar event is reported
\* with the lock dropped.
CallCheck ==
    /\ d.chk /\ d.check = "none"
    /\ Become([Now EXCEPT !.d.chk = FALSE, !.d.check = "called"])
    /\ UNCHANGED <<plan, tq>>

r21au_chan_check ==
    /\ d.check = "called"
    /\ \/ hw.radar /\ Become([Now EXCEPT !.d.check = "none", !.d.chk = @ \/ d.radar])
       \/ hw.radar /\ Become([Now EXCEPT !.d.check = "reporting"])
       \/ /\ ~hw.radar
          /\ LET over == [Now EXCEPT !.d.check = "none"]
             IN  Become(IF d.radar THEN CloseAll(over) ELSE over)
    /\ UNCHANGED <<plan, tq>>

RadarReported ==
    /\ d.check = "reporting"
    /\ Become([Now EXCEPT !.d.check = "none", !.d.chk = @ \/ d.radar])
    /\ UNCHANGED <<plan, tq>>

--------------------------------------------------------------------------
(* Beacon updates and channel switch announcements.                        *)

\* PCI chips stop beaconing while the frame is changed without the lock.
BeginUpdate(m, x) ==
    LET begun == [m EXCEPT !.v[x].updating = TRUE]
    IN  IF plan.bus = "PCI" THEN rtwn_beacon_enable(begun, v[x].id, FALSE) ELSE begun

\* net80211 updates the beacons of vaps in RUN; a channel switch is announced
\* by one update per beacon interval, each scheduling the next.
rtwn_update_beacon(x) ==
    /\ May("update") /\ v[x].life = "up" /\ Beacons(x) /\ v[x].state = "RUN" /\ ~v[x].updating
    /\ \/ Become(BeginUpdate(Now, x))
       \/ /\ May("csa") /\ Mode(x) = "AP"
          /\ Become([BeginUpdate(Now, x) EXCEPT !.v[x].csa = TRUE, !.d.csapending = TRUE])
    /\ UNCHANGED <<plan, tq>>

rtwn_tx_beacon_csa(x) ==
    /\ v[x].csa /\ v[x].life = "up" /\ ~v[x].updating
    /\ LET fired == [Now EXCEPT !.v[x].csa = FALSE]
       IN  IF ~d.csapending THEN Become(fired)
           ELSE \E more \in BOOLEAN : Become([BeginUpdate(fired, x) EXCEPT !.v[x].csa = more])
    /\ UNCHANGED <<plan, tq>>

UpdateEnd_Always(m, x) ==        \* mutant: the vap may have left RUN meanwhile
    LET sent == rtwn_tx_beacon([m EXCEPT !.v[x].updating = FALSE], x, x)
    IN  IF plan.bus = "PCI" THEN rtwn_beacon_enable(sent, m.v[x].id, TRUE) ELSE sent
UpdateEnd(m, x) ==
    LET sent == rtwn_tx_beacon([m EXCEPT !.v[x].updating = FALSE], x, x)
    IN  IF plan.bus = "PCI" /\ m.v[x].curr # "NOLINK"
        THEN rtwn_beacon_enable(sent, m.v[x].id, TRUE) ELSE sent
rtwn_update_beacon_end(x) ==
    /\ v[x].updating
    /\ Become(UpdateEnd(Now, x))
    /\ UNCHANGED <<plan, tq>>

ChannelSwitched ==
    /\ d.csapending
    /\ Become([Now EXCEPT !.d.csapending = FALSE])
    /\ UNCHANGED <<plan, tq>>

--------------------------------------------------------------------------
(* Calibration, power save, promiscuous mode and other ioctls.             *)

rtwn_calib_to ==
    /\ d.calto /\ May("calib")
    /\ Become([Now EXCEPT !.d.calto = FALSE, !.d.calcmd = TRUE])
    /\ UNCHANGED <<plan, tq>>

\* An LC calibration ends by clearing every pause.
rtwn_calib_cb ==
    /\ tq = Idle /\ d.calcmd
    /\ LET done == [Now EXCEPT !.d.calcmd = FALSE, !.d.calto = @ \/ (d.running /\ d.vr > d.mr)]
       IN  Become(done) \/ (d.running /\ Become([done EXCEPT !.hw.pause = {}]))
    /\ UNCHANGED <<plan, tq>>

rtwn_pwrmode_init ==
    /\ d.pwrto
    /\ Become([Now EXCEPT !.d.pwrto = FALSE, !.d.pwrcmd = TRUE])
    /\ UNCHANGED <<plan, tq>>

rtwn_set_pwrmode_cb ==
    /\ tq = Idle /\ d.pwrcmd
    /\ LET done == [Now EXCEPT !.d.pwrcmd = FALSE]
       IN  Become(IF d.running /\ d.slot[0] # NoVap THEN set_pwrmode(done, d.slot[0], TRUE) ELSE done)
    /\ UNCHANGED <<plan, tq>>

\* The POWERSAVE ioctls, which net80211 refuses to a device without
\* IEEE80211_C_PMGT.  Between rtwn_newstate()'s unlock and SetState the vap
\* still looks as if in RUN: "late".
rtwn_ioctl_reset(x) ==
    /\ plan.pmgt /\ May("powersave") /\ v[x].life = "up" /\ Mode(x) = "STA" /\ v[x].id = 0
    /\ LET set == [Now EXCEPT !.v[x].pm = ~@]
           told == IF d.running THEN set_pwrmode(set, x, TRUE) ELSE set
       IN  Become([told EXCEPT !.d.past = @ \cup (IF told.hw.ps /\ v[x].curr = "NOLINK" THEN {"late"} ELSE {})])
    /\ UNCHANGED <<plan, tq>>

\* ic_promisc changes at once, the filter when net80211's task runs.
SetPromisc ==
    /\ May("promisc")
    /\ Become([Now EXCEPT !.d.promisc = ~@, !.d.ptask = TRUE])
    /\ UNCHANGED <<plan, tq>>

rtwn_update_promisc ==
    /\ tq = Idle /\ d.ptask
    /\ LET done == [Now EXCEPT !.d.ptask = FALSE]
       IN  Become(IF d.running THEN rtwn_set_promisc(done) ELSE done)
    /\ UNCHANGED <<plan, tq>>

r12a_ioctl_net ==
    /\ May("ifcap")
    /\ LET set == [Now EXCEPT !.d.rcr = IF "offload" \in @ THEN @ \ {"offload"} ELSE @ \cup {"offload"}]
       IN  Become(IF d.running THEN rtwn_rxfilter_set(set) ELSE set)
    /\ UNCHANGED <<plan, tq>>

--------------------------------------------------------------------------

States == {"INIT", "SCAN", "CAC", "RUN", "CSA"}

Init ==
    /\ plan \in Plans
    /\ v = [x \in Vaps |-> Blank]
    /\ d = [running |-> FALSE, slot |-> [p \in Ports |-> NoVap], nv |-> 0, ap |-> 0, bcn |-> 0, mon |-> 0,
            vr |-> 0, mr |-> 0, rcr |-> {}, locked |-> FALSE, promisc |-> FALSE, ptask |-> FALSE,
            scanning |-> FALSE, calto |-> FALSE, calcmd |-> FALSE, pwrto |-> FALSE, pwrcmd |-> FALSE,
            radar |-> FALSE, chk |-> FALSE, check |-> "none", csapending |-> FALSE, past |-> {}]
    /\ hw = PoweredOn
    /\ tq = Idle

VapNext(x) ==
    \/ ChoosePort(x) \/ StoreVap(x) \/ AttachVap(x) \/ rtwn_vap_delete(x) \/ FreeVap(x)
    \/ Open(x) \/ Close(x) \/ \E n \in States : iv_newstate(x, n) \/ rtwn_monitor_newstate(x, n)
    \/ rtwn_tsf_sync_adhoc(x) \/ rtwn_tsf_sync_adhoc_task(x)
    \/ rtwn_update_beacon(x) \/ rtwn_tx_beacon_csa(x) \/ rtwn_update_beacon_end(x)
    \/ rtwn_ioctl_reset(x)

Next ==
    \/ \E x \in DOMAIN plan.mode : VapNext(x)
    \/ rtwn_parent \/ SetState \/ TsfDelayEnds
    \/ rtwn_scan_start \/ rtwn_scan_end \/ CallCheck \/ r21au_chan_check \/ RadarReported \/ ChannelSwitched
    \/ rtwn_calib_to \/ rtwn_calib_cb \/ rtwn_pwrmode_init \/ rtwn_set_pwrmode_cb
    \/ SetPromisc \/ rtwn_update_promisc \/ r12a_ioctl_net

Spec == Init /\ [][Next]_vars

--------------------------------------------------------------------------
(* Correctness.  What went wrong before is kept in d.past, so that each    *)
(* property says which failures it survives:                               *)
(*   raced    a port was released while a creation had chosen one           *)
(*   lost     rtwn_run() failed for a vap net80211 keeps in RUN or CSA      *)
(*   failed   rtwn_run() or a radar restart failed half way, since init     *)
(*   hidden   restoring a beacon hid that null data frames were not sent    *)
(*   late     power save was set while a vap was leaving RUN                *)
(*   undone   a monitor that the filter may have counted was not created   *)

Unharmed(failures) == d.past \cap failures = {}
State(x) == IF tq.what = "state" /\ tq.vap = x THEN tq.to ELSE v[x].state
Counted == {x \in Vaps : v[x].life \in {"id", "set", "up"}}
Ported == {x \in Counted : Mode(x) # "MON"}
Linking == {x \in Ported : State(x) \in {"RUN", "CSA"}}
Beaconing == {x \in Linking : Beacons(x)}
Up(modes) == {x \in Counted : v[x].life = "up" /\ Mode(x) \in modes}

\* The counters say which vaps there are, each port has one vap, and the
\* numbers of running vaps are those of the vaps in RUN and CSA.
PortsAgree ==
    /\ d.nv = Cardinality(Ported) /\ d.mon = Cardinality(Counted \ Ported)
    /\ d.bcn = Cardinality({x \in Ported : Beacons(x)})
    /\ d.ap = Cardinality({x \in Ported : Mode(x) = "AP"})
    /\ Unharmed({"raced"}) =>
         /\ \A x, y \in Ported : x # y => v[x].id # v[y].id
         /\ \A p \in Ports : d.slot[p] # NoVap <=> \E x \in Ported : v[x].life # "id" /\ v[x].id = p
         /\ \A p \in Ports : d.slot[p] # NoVap => v[d.slot[p]].id = p
    /\ Unharmed({"lost"}) => d.vr - d.mr = Cardinality(Linking)
    /\ Unharmed({"lost", "raced", "failed"}) => \A x \in Ported : (v[x].curr # "NOLINK") = (x \in Linking)

\* What the chip lets in: what each vap needs, and for a TSF that beacons
\* may set, beacons of its own BSS only.
FilterAgrees ==
    d.running =>
      /\ ~d.locked => hw.rcr = d.rcr
      /\ Up({"AP", "IBSS"}) # {} => "req" \in hw.flt0
      /\ Up({"STA"}) # {} /\ d.mon = 0 /\ Unharmed({"undone"}) => "resp" \in hw.flt0
      /\ ~d.locked /\ ~d.ptask /\ (d.promisc \/ Up({"MON"}) # {}) => "all" \in hw.rcr
      /\ ~d.locked /\ ~d.ptask /\ ~d.promisc /\ d.mon = 0 /\ Unharmed({"undone"}) =>
           /\ "apm" \in hw.rcr
           /\ Up({"AP", "IBSS"}) # {} => "bcn" \notin hw.rcr
           /\ Up({"AP"}) # {} => "data" \notin hw.rcr
      /\ Linking # {} /\ Unharmed({"lost"}) => hw.flt2
      /\ tq.what = "tsf" => "bcn" \in hw.rcr
      /\ \A p \in hw.udt :
           \/ tq.what = "tsf" /\ v[tq.vap].id = p
           \/ \E x \in Linking : v[x].id = p /\ Mode(x) = "STA"
           \/ ~Unharmed({"raced", "lost"})

\* A vap hears what its mode needs, whatever is created, deleted, scanned
\* or toggled around it (if_rtwn.c, if_rtwn_rx.c).
VapsHear == PortsAgree /\ FilterAgrees

\* The ports that beacon are those of the AP and IBSS vaps in RUN or CSA (but
\* for a PCI chip's update), with their own frames; and power save belongs to
\* a running STA of port 0 whose null data frames the firmware has.
BeaconAgrees ==
    d.running /\ Unharmed({"raced", "lost", "failed"}) =>
      /\ hw.en \subseteq {v[x].id : x \in Beaconing}
      /\ \A x \in Beaconing :
           /\ v[x].id \in hw.en \/ (plan.bus = "PCI" /\ v[x].updating)
           /\ hw.page[Page(v[x].id)] = x
      /\ hw.ps /\ Unharmed({"late"}) =>
           /\ \E x \in Linking : v[x].id = 0 /\ Mode(x) = "STA"
           /\ hw.null \/ ~Unharmed({"hidden"})

\* Between scans and channel switches nothing holds the queues of a running vap.
PausesAgree ==
    d.running /\ Linking # {} /\ ~d.scanning /\ Unharmed({"lost", "failed"})
      /\ (\A x \in Linking : State(x) # "CSA") => hw.pause = {}

\* What must run again and again has its next run scheduled: radar checks,
\* the TSF synchronisation of an IBSS, and calibration; the radar check
\* never meets the disabled radar that "should not happen"
\* (r21au_dfs.c:121); and a deleted vap is in no callout or task.
ChainsGoOn ==
    /\ d.running /\ d.radar /\ Unharmed({"failed"}) =>
         /\ ~d.scanning => hw.radar /\ (d.chk \/ d.check # "none")
         /\ d.chk \/ d.check = "called" => hw.radar
    /\ \A x \in Linking : Mode(x) = "IBSS" /\ Unharmed({"lost", "failed", "raced"}) =>
         v[x].callout \/ v[x].task \/ (tq.what = "tsf" /\ tq.vap = x)
    /\ Linking # {} /\ Unharmed({"lost", "failed", "raced"}) => d.calto \/ d.calcmd
    /\ \A x \in Vaps : v[x].life = "none" => ~v[x].callout /\ ~v[x].task /\ tq.vap # x

\* "AP vaps only" (if_rtwn_rx.c:397): association responses are dropped only
\* when every vap that needs a port is an AP.
ResponsesDropped ==
    d.running /\ Up({"STA", "IBSS"}) # {} => "resp" \in hw.flt0
=============================================================================
