------------------------------- MODULE FotaService -----------------------------
(***************************************************************************)
(* A firmware update: the service (fota_svc_server.c), the application     *)
(* that sends the image the way the update protocol prescribes, and the    *)
(* boot code that copies it (boot_ram_le501x.c), over resets, lost         *)
(* connections and lost data.                                              *)
(*                                                                         *)
(* The image goes to the load region of the flash.  FINISH_CMD then notes  *)
(* in the settings what the boot code shall do, one setting after the      *)
(* other, and resets; the boot code copies the image over the one that     *)
(* runs.  A cell of flash is one segment: the set of the images programmed *)
(* into it since it was erased.  Requests are answered inside their        *)
(* handler, so a request and its handler are one step.                     *)
(*                                                                         *)
(* FW_ECC_VERIFY is not set: fw_signature_check accepts, and the signature *)
(* is left out.  So is the digest, see INTEGRITY_CHECK_REQ.                *)
(***************************************************************************)
EXTENDS OtaSettings, Sequences

CONSTANTS
    Images,
    NSECTORS, NSEGS,    \* sectors of an image, segments of a sector
    FinishCmds          \* what FINISH_CMD may ask for: [boot, erase, copy]

Sectors == 0..(NSECTORS - 1)
Segs    == 0..(NSEGS - 1)

\* Every update asks for the copy; a boot address is that of the run region.
ASSUME FotaAssumption ==
    /\ NSECTORS \in Nat \ {0} /\ NSEGS \in Nat \ {0}
    /\ Images # {}
    /\ FinishCmds \subseteq [boot : BOOLEAN, erase : BOOLEAN, copy : {TRUE}]

VARIABLES
    cpu,    \* mode: where the processor is; at: sector to copy next;
            \* todo: settings to write; slot: where settings_set writes, once known
    env,    \* fotas_env: state, current_sector, ack
    load,   \* flash at new_image.base
    run,    \* flash at the image base
    log,    \* settings in flash
    client  \* pc: where the application is, "OFF" without a connection;
            \* the image, the sector and its segments to send

vars == <<cpu, env, load, run, log, client>>

Blank    == [s \in Sectors |-> [g \in Segs |-> {}]]
Whole(i) == [s \in Sectors |-> [g \in Segs |-> {i}]]

Modes == {"APP", "FINISH", "STUCK", "COPY", "PROGRAM", "SETTINGS"}
Stages == {"OFF", "READY", "NEXT", "SENDING", "VERIFY", "FINISH"}

TypeOK ==
    /\ cpu \in [mode : Modes, at : 0..NSECTORS, todo : Seq(Settings), slot : 0..7]
    /\ env \in [state : {"IDLE", "BUSY"}, current_sector : Sectors, ack : SUBSET Segs]
    /\ load \in [Sectors -> [Segs -> SUBSET Images]]
    /\ run \in [Sectors -> [Segs -> SUBSET Images]]
    /\ log \in Logs
    /\ client \in [pc : Stages, image : Images, sector : 0..NSECTORS, todo : SUBSET Segs]

App == [mode |-> "APP", at |-> 0, todo |-> <<>>, slot |-> 0]

\* fotas_env after a reset.
IdleEnv == [state |-> "IDLE", current_sector |-> 0, ack |-> {}]

\* What is left of the load region is any earlier image.
Init ==
    /\ cpu = App /\ env = IdleEnv /\ log = Erased
    /\ load \in {Blank} \cup {Whole(i) : i \in Images}
    /\ \E i \in Images : run = Whole(i)
    /\ client \in [pc : {"OFF"}, image : Images, sector : {0}, todo : {{}}]

--------------------------------------------------------------------------------
(* The connection.                                                          *)

Gone == [client EXCEPT !.pc = "OFF", !.sector = 0, !.todo = {}]

Connect ==
    /\ cpu.mode = "APP" /\ client.pc = "OFF"
    /\ client' = [client EXCEPT !.pc = "READY"]
    /\ UNCHANGED <<cpu, env, load, run, log>>

\* mutant: the service is not told.
DisconnectKeepsBusy ==
    /\ cpu.mode = "APP" /\ client.pc # "OFF"
    /\ client' = Gone
    /\ UNCHANGED <<cpu, env, load, run, log>>

\* DISCONNECTED calls fota_clean_state; the rest of fotas_env stays.
Disconnect ==
    /\ cpu.mode = "APP" /\ client.pc # "OFF"
    /\ client' = Gone
    /\ env' = [env EXCEPT !.state = "IDLE"]
    /\ UNCHANGED <<cpu, load, run, log>>

--------------------------------------------------------------------------------
(* Requests of the application, and what the service does with them.        *)

Asks(pc) == cpu.mode = "APP" /\ client.pc = pc

\* mutant: the region is not erased.
StartKeepsFlash(i) ==
    /\ Asks("READY") /\ env.state = "IDLE"
    /\ env' = [env EXCEPT !.state = "BUSY"]
    /\ client' = [client EXCEPT !.pc = "NEXT", !.image = i, !.sector = 0]
    /\ UNCHANGED <<cpu, load, run, log>>

\* Erases the region; acknowledgements and sector stay as they are.
START_REQ(i) ==
    /\ Asks("READY") /\ env.state = "IDLE"
    /\ env' = [env EXCEPT !.state = "BUSY"]
    /\ load' = Blank
    /\ client' = [client EXCEPT !.pc = "NEXT", !.image = i, !.sector = 0]
    /\ UNCHANGED <<cpu, run, log>>

\* FINISH_CMD without status bits: the way out for an application that was
\* told BUSY.
CancelUpdate ==
    /\ Asks("READY") /\ env.state = "BUSY"
    /\ env' = [env EXCEPT !.state = "IDLE"]
    /\ UNCHANGED <<cpu, load, run, log, client>>

\* mutant: the acknowledgements of the sector before stay.
NewSectorKeepsAck ==
    /\ Asks("NEXT")
    /\ env' = [env EXCEPT !.current_sector = client.sector]
    /\ client' = [client EXCEPT !.pc = "SENDING", !.todo = Segs]
    /\ UNCHANGED <<cpu, load, run, log>>

NEW_SECTOR_CMD ==
    /\ Asks("NEXT")
    /\ env' = [env EXCEPT !.current_sector = client.sector, !.ack = {}]
    /\ client' = [client EXCEPT !.pc = "SENDING", !.todo = Segs]
    /\ UNCHANGED <<cpu, load, run, log>>

Sends(g) ==
    /\ Asks("SENDING") /\ g \in client.todo
    /\ client' = [client EXCEPT !.todo = @ \ {g}]

\* mutant: the segment is not acknowledged.
DataWithoutAck(g) ==
    /\ Sends(g)
    /\ load' = [load EXCEPT ![env.current_sector][g] = @ \cup {client.image}]
    /\ UNCHANGED <<cpu, env, run, log>>

\* A write command to the data characteristic: the segment is programmed at
\* the place its number stands for (module FotaSegments) and acknowledged.
DATA(g) ==
    /\ Sends(g)
    /\ load' = [load EXCEPT ![env.current_sector][g] = @ \cup {client.image}]
    /\ env' = [env EXCEPT !.ack = @ \cup {g}]
    /\ UNCHANGED <<cpu, run, log>>

\* Nobody answers a write command: it may be lost.
DataLost(g) == Sends(g) /\ UNCHANGED <<cpu, env, load, run, log>>

\* Reading the data characteristic: what is missing is sent again.
ReadAck ==
    /\ Asks("SENDING") /\ client.todo = {}
    /\ client' = IF env.ack # Segs THEN [client EXCEPT !.todo = Segs \ env.ack]
                 ELSE [client EXCEPT !.sector = @ + 1,
                          !.pc = IF client.sector + 1 = NSECTORS THEN "VERIFY" ELSE "NEXT"]
    /\ UNCHANGED <<cpu, env, load, run, log>>

\* The result of fw_digest_check goes through finish_ind, a pointer nobody
\* sets: the answer is whatever is read back there, right or wrong.
INTEGRITY_CHECK_REQ ==
    /\ Asks("VERIFY")
    /\ \E passed \in BOOLEAN :
          client' = IF passed THEN [client EXCEPT !.pc = "FINISH"]
                    ELSE [client EXCEPT !.pc = "READY", !.sector = 0]
    /\ UNCHANGED <<cpu, env, load, run, log>>

--------------------------------------------------------------------------------
(* FINISH_CMD with both status bits, up to the reset.                       *)

\* The settings in the order in which they are written.
Plan(cmd) == (IF cmd.boot THEN <<"boot">> ELSE <<>>)
             \o (IF cmd.erase THEN <<"erase">> ELSE <<>>)
             \o (IF cmd.copy THEN <<"copy">> ELSE <<>>)

FINISH_CMD(cmd) ==
    /\ Asks("FINISH")
    /\ cpu' = [cpu EXCEPT !.mode = "FINISH", !.todo = Plan(cmd)]
    /\ UNCHANGED <<env, load, run, log, client>>

Setting == Head(cpu.todo)
Finishing == cpu.mode = "FINISH" /\ cpu.todo # <<>>

\* settings_set, first program: the old value becomes invalid.
InvalidateOld ==
    /\ Finishing /\ cpu.slot = 0 /\ IsSet(log, Setting)
    /\ log' = MakeInvalid(log, Setting)
    /\ cpu' = [cpu EXCEPT !.slot = Offset(log, Setting) + 1]
    /\ UNCHANGED <<env, load, run, client>>

\* The slot the new value goes to: the one after the old value, or where the
\* search stopped.
Target == IF cpu.slot # 0 THEN cpu.slot ELSE Offset(log, Setting)
MayWrite == Finishing /\ (cpu.slot # 0 \/ ~IsSet(log, Setting))

\* settings_set, second program.
WriteNew ==
    /\ MayWrite /\ Target # 0
    /\ log' = Write(log, Setting, Target, "SET")
    /\ cpu' = [cpu EXCEPT !.todo = Tail(@), !.slot = 0]
    /\ UNCHANGED <<env, load, run, client>>

\* LS_ASSERT(offset) loops for ever with interrupts off.
AssertFails ==
    /\ MayWrite /\ Target = 0
    /\ cpu' = [cpu EXCEPT !.mode = "STUCK", !.todo = <<>>]
    /\ env' = [env EXCEPT !.state = "IDLE"] /\ client' = Gone
    /\ UNCHANGED <<load, run, log>>

--------------------------------------------------------------------------------
(* Reset and boot.                                                          *)

\* mutant: the settings are erased before the copy is looked up.
StartsErasingFirst(settings) ==
    /\ log' = IF IsSet(settings, "erase") THEN Erased ELSE settings
    /\ cpu' = [App EXCEPT !.mode = IF IsSet(log', "copy") THEN "COPY" ELSE "SETTINGS"]
    /\ env' = IdleEnv /\ client' = Gone
    /\ UNCHANGED <<load, run>>

\* boot_ram_start up to ota_copy_info_get.
StartsWith(settings) ==
    /\ log' = settings
    /\ cpu' = [App EXCEPT !.mode = IF IsSet(settings, "copy") THEN "COPY" ELSE "SETTINGS"]
    /\ env' = IdleEnv /\ client' = Gone
    /\ UNCHANGED <<load, run>>

platform_reset == cpu.mode = "FINISH" /\ cpu.todo = <<>> /\ StartsWith(log)

\* Power loss at any moment, also in the middle of programming a setting.
Crash == StartsWith(log)
CrashInWrite == MayWrite /\ Target # 0 /\ StartsWith(Write(log, Setting, Target, "TORN"))

\* fw_copy, one sector: erased, then programmed.
CopyErase ==
    /\ cpu.mode = "COPY" /\ cpu.at < NSECTORS
    /\ run' = [run EXCEPT ![cpu.at] = [g \in Segs |-> {}]]
    /\ cpu' = [cpu EXCEPT !.mode = "PROGRAM"]
    /\ UNCHANGED <<env, load, log, client>>

CopyProgram ==
    /\ cpu.mode = "PROGRAM"
    /\ run' = [run EXCEPT ![cpu.at] = [g \in Segs |-> @[g] \cup load[cpu.at][g]]]
    /\ cpu' = [cpu EXCEPT !.mode = "COPY", !.at = @ + 1]
    /\ UNCHANGED <<env, load, log, client>>

\* mutant: the request is marked as done when the copying begins.
DoneBeforeCopy ==
    /\ cpu.mode = "COPY"
    /\ log' = MakeInvalid(log, "copy")
    /\ cpu' = IF cpu.at = NSECTORS THEN [cpu EXCEPT !.mode = "SETTINGS"] ELSE cpu
    /\ UNCHANGED <<env, load, run, client>>

\* ota_copy_done_set.
CopyDone ==
    /\ cpu.mode = "COPY" /\ cpu.at = NSECTORS
    /\ log' = MakeInvalid(log, "copy")
    /\ cpu' = [cpu EXCEPT !.mode = "SETTINGS"]
    /\ UNCHANGED <<env, load, run, client>>

\* The boot address, if set, is that of the run region anyway.
EraseAndBoot ==
    /\ cpu.mode = "SETTINGS"
    /\ log' = IF IsSet(log, "erase") THEN Erased ELSE log
    /\ cpu' = App
    /\ UNCHANGED <<env, load, run, client>>

--------------------------------------------------------------------------------
Finish == InvalidateOld \/ WriteNew \/ AssertFails \/ platform_reset
Boot == CopyErase \/ CopyProgram \/ CopyDone \/ EraseAndBoot

\* What the application does of itself once an update has been started.
Update ==
    \/ NEW_SECTOR_CMD
    \/ \E g \in Segs : DATA(g)
    \/ ReadAck
    \/ INTEGRITY_CHECK_REQ
    \/ \E cmd \in FinishCmds : FINISH_CMD(cmd)

Lose == \E g \in Segs : DataLost(g)
PowerLoss == Crash \/ CrashInWrite

Next ==
    \/ Connect \/ Disconnect \/ CancelUpdate
    \/ \E i \in Images : START_REQ(i)
    \/ Update \/ Lose \/ Finish \/ PowerLoss \/ Boot

Spec == Init /\ [][Next]_vars

--------------------------------------------------------------------------------
(* What the update must keep.                                               *)

\* Whenever the program runs, the region it runs from holds one image and all
\* of it, however often power was lost on the way (fw_copy is repeated from
\* the start until ota_copy_done_set).
RunsWhole == cpu.mode \in {"APP", "FINISH", "STUCK"} => \E i \in Images : run = Whole(i)

\* The image a region holds the whole of, if any.
ImageIn(region) == {i \in Images : region = Whole(i)}

\* Over all the writes to flash, an update is one step: it is done when the request to
\* copy is in the settings.  The image that runs is replaced then and only then, by the
\* image that was sent, wherever power is lost (fota_svc_server.c, the settings, fw_copy
\* and ota_copy_done_set together).
Promised == INSTANCE Firmware
    WITH runs    <- IF cpu.mode \in {"APP", "FINISH", "STUCK"} THEN ImageIn(run) ELSE {},
         next    <- ImageIn(IF IsSet(log, "copy") THEN load ELSE run),
         offered <- client.image
ImplementsFirmware == Promised!Spec

\* A copy that the boot code will find requested is a copy of one whole image:
\* NEW_SECTOR_CMD, the acknowledgements and START_REQ together see to it,
\* whatever the integrity check answers.
CopyIsWhole == IsSet(log, "copy") => \E i \in Images : load = Whole(i)

\* While a sector is being sent an acknowledged segment is in the flash, and
\* nothing but the segment: fotas_env.ack outlives START_REQ and connections,
\* the flash does not.
AckedIsStored ==
    client.pc = "SENDING" =>
        \A g \in env.ack : load[env.current_sector][g] = {client.image}

\* The service is not busy with an update whose connection is gone: nobody
\* could start another one (fota_clean_state).
BusyIsConnected == env.state = "BUSY" => client.pc # "OFF"

\* FINISH_CMD ends with the reset (the protocol: it writes the settings and
\* resets).
FinishResets == cpu.mode # "STUCK"
================================================================================
