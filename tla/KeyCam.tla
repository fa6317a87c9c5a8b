------------------------------- MODULE KeyCam -------------------------------
(***************************************************************************)
(* Hardware keys: the key callbacks of net80211, the commands they queue,  *)
(* and the chip's key table, the CAM (if_rtwn_cam.c), with the device      *)
(* being stopped and started in between (rtwn_init() in if_rtwn.c).        *)
(*                                                                         *)
(* The commands go through the queue of CmdQueue, here as the abstract     *)
(* CmdFifo it implements.  A command takes several register writes, and    *)
(* the callbacks run in other threads meanwhile (USB drops RTWN_LOCK in    *)
(* every write; pairwise keys do not take it at all).  rtwn_init() clears  *)
(* the CAM and installs the group keys long before it sets RTWN_RUNNING:   *)
(* the calibrations in between sleep, which drops RTWN_LOCK.               *)
(***************************************************************************)
EXTENDS Naturals, Sequences

CONSTANTS
    CAM_FIXED,          \* sc_flags & RTWN_FLAG_CAM_FIXED
    IEEE80211_WEP_NKID, \* group keys per vap (4)
    cam_entry_limit,    \* slots of the CAM (32 or 64)
    GroupKeys,          \* keys of iv_nw_keys
    Wepidx,             \* group key -> its index
    PairKeys,           \* keys of nodes
    Values,             \* key material
    NoKey,
    NoSlot,             \* IEEE80211_KEYIX_NONE
    Software,           \* a key with IEEE80211_KEY_SWCRYPT
    RTWN_CMDQ_SIZE

Keys == GroupKeys \union PairKeys
Slots == 0 .. cam_entry_limit - 1

ASSUME FixedAssumption == CAM_FIXED \in BOOLEAN
ASSUME WepidxAssumption ==
    /\ cam_entry_limit \in Nat /\ IEEE80211_WEP_NKID \in 1 .. cam_entry_limit
    /\ Wepidx \in [GroupKeys -> 0 .. IEEE80211_WEP_NKID - 1]
ASSUME KeysAssumption == GroupKeys \cap PairKeys = {} /\ NoKey \notin Keys \union Values
ASSUME SlotsAssumption == NoSlot # Software /\ {NoSlot, Software} \cap Slots = {}

VARIABLES
    sc_hwcrypto,    \* set at attach: keys of nodes only, or group keys too
    wk_keyix,       \* net80211: the slot of a key, NoSlot or Software
    wk_key,         \* net80211: the material of a key; NoKey if it has no use
    isset,          \* net80211: rtwn_key_set() has accepted that material
    keys_bmap,      \* slots in use
    keys,           \* group keys that some rvp->keys[] points to
    cam,            \* the chip: slot -> valid bit, owner (address), material
    device,         \* "stopped", "starting", "running" (RTWN_RUNNING)
    fifo, executing,\* the queue and the command being executed
    step,           \* how far it has come
    leaked,         \* history: slots whose deletion was refused (EAGAIN)
    stale           \* history: slots touched while rtwn_init() was under way, or
                    \* with a set command left over from before it, or of which
                    \* a write failed; until the next key is set there

vars == <<sc_hwcrypto, wk_keyix, wk_key, isset, keys_bmap, keys, cam, device, fifo,
          executing, step, leaked, stale>>
net80211 == <<wk_keyix, wk_key, isset>>
driver == <<keys_bmap, keys>>
history == <<leaked, stale>>

Cmds == [func : {"set", "del"}, key : Keys, slot : Slots, value : Values \union {NoKey}]

ASSUME CmdsAssumption == NoKey \notin Cmds

\* The driver stays attached.
Attached == device \in {"stopped", "starting", "running"}
Queue == INSTANCE CmdFifo WITH
    Capacity <- RTWN_CMDQ_SIZE, Nothing <- NoKey,
    open <- Attached, powered <- device = "running"

Invalid == [valid |-> FALSE, owner |-> NoKey, value |-> NoKey]
Full == sc_hwcrypto = "full"
HasSlot(k) == wk_keyix[k] \in Slots
\* rtwn_cmd_sleepable() returns EAGAIN.
QueueFull == Queue!Load >= RTWN_CMDQ_SIZE

Init ==
    /\ sc_hwcrypto \in {"pair", "full"}
    /\ wk_keyix = [k \in Keys |-> NoSlot]
    /\ wk_key = [k \in Keys |-> NoKey]
    /\ isset = [k \in Keys |-> FALSE]
    /\ keys_bmap = {}
    /\ keys = {}
    /\ cam = [i \in Slots |-> Invalid]
    /\ device = "stopped"
    /\ Queue!Init
    /\ step = 0
    /\ leaked = {} /\ stale = {}

-----------------------------------------------------------------------------
(* rtwn_key_alloc() *)

\* The first slot is for group keys on some chips, and with RTWN_CRYPTO_FULL.
First == IF Full \/ CAM_FIXED THEN IEEE80211_WEP_NKID ELSE 0
FreeSlots == {i \in Slots : i >= First /\ i \notin keys_bmap}

\* "group key slot is already used": the call fails and nothing changes.
AllocGroup(k) ==
    /\ k \in GroupKeys
    /\ wk_keyix[k] = NoSlot
    /\ IF Full
       THEN /\ Wepidx[k] \notin keys_bmap
            /\ wk_keyix' = [wk_keyix EXCEPT ![k] = Wepidx[k]]
            /\ keys_bmap' = keys_bmap \union {Wepidx[k]}
       ELSE /\ wk_keyix' = [wk_keyix EXCEPT ![k] = Software]
            /\ UNCHANGED keys_bmap
    /\ UNCHANGED <<wk_key, isset, keys, cam, device, fifo, executing, step, history>>

\* Keys of nodes exist while the device is up; without a slot the key is a
\* software key.
AllocPair(k) ==
    /\ k \in PairKeys
    /\ wk_keyix[k] = NoSlot
    /\ device = "running"
    /\ IF FreeSlots = {}
       THEN /\ wk_keyix' = [wk_keyix EXCEPT ![k] = Software]
            /\ UNCHANGED keys_bmap
       ELSE \E i \in FreeSlots :
                /\ \A j \in FreeSlots : i <= j
                /\ wk_keyix' = [wk_keyix EXCEPT ![k] = i]
                /\ keys_bmap' = keys_bmap \union {i}
    /\ UNCHANGED <<wk_key, isset, keys, cam, device, fifo, executing, step, history>>

-----------------------------------------------------------------------------
(* rtwn_key_set() and rtwn_key_delete() *)

\* A group key on a device that is not running is left to rtwn_init().
Deferred(k) == k \in GroupKeys /\ device # "running"
Starting(i) == IF device = "starting" THEN stale \union {i} ELSE stale

\* A copy of the key travels with the command; a delete reads its slot only.
Send(f, k, v) == Queue!Enqueue([func |-> f, key |-> k, slot |-> wk_keyix[k], value |-> v])

Set(k, v) ==
    /\ HasSlot(k)
    /\ wk_key' = [wk_key EXCEPT ![k] = v]
    /\ keys' = IF k \in GroupKeys THEN keys \union {k} ELSE keys
    /\ UNCHANGED <<wk_keyix, keys_bmap, cam, device, step, leaked>>
    /\ \/ /\ Deferred(k)
          /\ isset' = [isset EXCEPT ![k] = TRUE]
          /\ stale' = Starting(wk_keyix[k])
          /\ UNCHANGED <<fifo, executing>>
       \/ /\ ~Deferred(k)
          /\ Send("set", k, v)
          /\ isset' = [isset EXCEPT ![k] = TRUE]
          /\ stale' = stale \ {wk_keyix[k]}
       \/ /\ ~Deferred(k)
          /\ QueueFull
          /\ isset' = [isset EXCEPT ![k] = FALSE]
          /\ UNCHANGED <<fifo, executing, stale>>

\* net80211 forgets the key whatever the driver answers.
Delete(k) ==
    /\ HasSlot(k)
    /\ wk_keyix' = [wk_keyix EXCEPT ![k] = NoSlot]
    /\ isset' = [isset EXCEPT ![k] = FALSE]
    /\ wk_key' = [wk_key EXCEPT ![k] = NoKey]
    /\ keys' = keys \ {k}
    /\ UNCHANGED <<cam, device, step>>
    /\ \/ /\ Deferred(k)
          /\ keys_bmap' = keys_bmap \ {wk_keyix[k]}
          /\ stale' = Starting(wk_keyix[k])
          /\ UNCHANGED <<fifo, executing, leaked>>
       \/ /\ ~Deferred(k)
          /\ Send("del", k, NoKey)
          /\ stale' = stale \ {wk_keyix[k]}
          /\ UNCHANGED <<keys_bmap, leaked>>
       \/ /\ ~Deferred(k)
          /\ QueueFull
          /\ leaked' = leaked \union {wk_keyix[k]}
          /\ UNCHANGED <<fifo, executing, keys_bmap, stale>>

DeleteSoftware(k) ==
    /\ wk_keyix[k] = Software
    /\ wk_keyix' = [wk_keyix EXCEPT ![k] = NoSlot]
    /\ UNCHANGED <<wk_key, isset, driver, cam, device, fifo, executing, step, history>>
-----------------------------------------------------------------------------
(* rtwn_key_set_cb() and rtwn_key_del_cb(), run by the queue *)

Begin ==
    /\ step' = 0
    /\ UNCHANGED <<net80211, driver, cam, device, history>>
    /\ Queue!Begin

Doing(f, n) == executing # NoKey /\ executing.func = f /\ step = n

\* CTL6, CTL7 and the key words.
SetKey ==
    /\ Doing("set", 0)
    /\ cam' = [cam EXCEPT ![executing.slot].value = executing.value]
    /\ step' = 1
    /\ UNCHANGED <<net80211, driver, device, fifo, executing, history>>

\* CTL1 and CTL0, with R92C_CAM_VALID.
SetCtl ==
    /\ Doing("set", 1)
    /\ cam' = [cam EXCEPT ![executing.slot].valid = TRUE,
                          ![executing.slot].owner = executing.key]
    /\ UNCHANGED <<net80211, driver, device, step, history>>
    /\ Queue!End

\* rtwn_cam_write() fails: the rest of a set is left out, a delete goes on,
\* and neither is reported.  Key words left in an invalid entry are no matter.
WriteFails ==
    /\ executing # NoKey
    /\ stale' = stale \union {executing.slot}
    /\ cam' = IF Doing("set", 0) THEN [cam EXCEPT ![executing.slot].value = NoKey] ELSE cam
    /\ UNCHANGED <<net80211, driver, device, leaked>>
    /\ \/ executing.func = "set" /\ Queue!End /\ UNCHANGED step
       \/ Doing("del", 0) /\ step' = 1 /\ UNCHANGED <<fifo, executing>>

DelCtlSkipped ==                                    \* mutant: the entry stays valid
    /\ Doing("del", 0)
    /\ step' = 1
    /\ UNCHANGED <<net80211, driver, cam, device, fifo, executing, history>>

DelCtl ==
    /\ Doing("del", 0)
    /\ cam' = [cam EXCEPT ![executing.slot].valid = FALSE,
                          ![executing.slot].owner = NoKey]
    /\ step' = 1
    /\ UNCHANGED <<net80211, driver, device, fifo, executing, history>>

DelKeyKeepsSlot ==                                  \* mutant: no clrbit()
    /\ Doing("del", 1)
    /\ cam' = [cam EXCEPT ![executing.slot].value = NoKey]
    /\ UNCHANGED <<net80211, driver, device, step, history>>
    /\ Queue!End

DelKey ==
    /\ Doing("del", 1)
    /\ cam' = [cam EXCEPT ![executing.slot].value = NoKey]
    /\ keys_bmap' = keys_bmap \ {executing.slot}
    /\ UNCHANGED <<net80211, keys, device, step, history>>
    /\ Queue!End

-----------------------------------------------------------------------------
(* rtwn_init() and rtwn_stop() *)

Pending(f) == {c \in {fifo[n] : n \in 1 .. Len(fifo)} : c.func = f}
PendingSlots(f) == {c.slot : c \in Pending(f)}

\* rtwn_init_cam() and rtwn_init_static_keys(), which reads the keys as they
\* are now.
StaticEntry(i) == {k \in keys : wk_keyix[k] = i}
InitCam ==
    /\ device = "stopped"
    /\ device' = "starting"
    /\ cam' = [i \in Slots |->
                 IF StaticEntry(i) = {} THEN Invalid
                 ELSE LET k == CHOOSE k \in StaticEntry(i) : TRUE
                      IN  [valid |-> TRUE, owner |-> k, value |-> wk_key[k]]]
    /\ stale' = PendingSlots("set")
    /\ UNCHANGED <<net80211, driver, fifo, executing, step, leaked>>

InitDone ==
    /\ device = "starting"
    /\ device' = "running"
    /\ UNCHANGED <<net80211, driver, cam, fifo, executing, step, history>>

\* rtwn_init_static_keys() or what follows fails: the device stays stopped.
InitFails ==
    /\ device = "starting"
    /\ device' = "stopped"
    /\ UNCHANGED <<net80211, driver, cam, fifo, executing, step, history>>

\* The thread of ic_tq is not in a command; net80211 has deleted the keys of
\* the nodes when the last vap went down.
Stop ==
    /\ device = "running"
    /\ executing = NoKey
    /\ \A k \in PairKeys : wk_keyix[k] = NoSlot
    /\ device' = "stopped"
    /\ UNCHANGED <<net80211, driver, cam, fifo, executing, step, history>>

-----------------------------------------------------------------------------
Next ==
    /\ UNCHANGED sc_hwcrypto
    /\ \/ \E k \in Keys :
             \/ AllocGroup(k) \/ AllocPair(k)
             \/ \E v \in Values : Set(k, v)
             \/ Delete(k) \/ DeleteSoftware(k)
       \/ Begin \/ SetKey \/ SetCtl \/ DelCtl \/ DelKey \/ WriteFails
       \/ InitCam \/ InitDone \/ InitFails \/ Stop

Spec == Init /\ [][Next]_vars

-----------------------------------------------------------------------------
\* Types of the variables; rtwn_key_alloc() gives out slots of the CAM only.
TypeOK ==
    /\ sc_hwcrypto \in {"pair", "full"}
    /\ wk_keyix \in [Keys -> Slots \union {NoSlot, Software}]
    /\ wk_key \in [Keys -> Values \union {NoKey}]
    /\ isset \in [Keys -> BOOLEAN]
    /\ keys_bmap \subseteq Slots
    /\ keys \subseteq GroupKeys
    /\ cam \in [Slots -> [valid : BOOLEAN, owner : Keys \union {NoKey},
                          value : Values \union {NoKey}]]
    /\ device \in {"stopped", "starting", "running"}
    /\ fifo \in Seq(Cmds)
    /\ executing \in Cmds \union {NoKey}
    /\ step \in {0, 1}
    /\ leaked \subseteq Slots
    /\ stale \subseteq Slots

Deleting == PendingSlots("del") \union
            (IF executing # NoKey /\ executing.func = "del" THEN {executing.slot} ELSE {})

\* A slot is marked used exactly as long as a key has it, its deletion has
\* still to run, or its deletion was refused.
SlotsReserved ==
    keys_bmap = {wk_keyix[k] : k \in {k \in Keys : HasSlot(k)}} \union Deleting \union leaked

\* No slot is handed out twice, nor while a command is still going to clear it,
\* so no key is ever cleared by the deletion of its predecessor.
SlotsExclusive ==
    \A k \in Keys : HasSlot(k) =>
        /\ wk_keyix[k] \notin Deleting \union leaked
        /\ \A l \in Keys \ {k} : wk_keyix[l] # wk_keyix[k]

\* A slot of the key memory has one user: a key, or what is left of one.
SlotsSound == TypeOK /\ SlotsReserved /\ SlotsExclusive

Quiet == device = "running" /\ fifo = <<>> /\ executing = NoKey
Installed(k) == cam[wk_keyix[k]] = [valid |-> TRUE, owner |-> k, value |-> wk_key[k]]

\* Once the commands have run, the chip has every key that was accepted, with
\* its last material, and no other; but for slots touched around a restart and
\* failed writes, until the next key is set there.
CamAgrees ==
    Quiet =>
        /\ \A k \in Keys : HasSlot(k) /\ isset[k] => Installed(k) \/ wk_keyix[k] \in stale
        /\ \A i \in Slots : cam[i].valid =>
              i \in stale \union leaked \/ \E k \in Keys : wk_keyix[k] = i

\* rtwn_init(): "Install static keys (if any)."  Group keys are in the chip
\* once it runs and no command is left.  (Not so: see the README.)
StaticKeysInstalled ==
    Quiet => \A k \in GroupKeys : HasSlot(k) /\ isset[k] => Installed(k)
=============================================================================
