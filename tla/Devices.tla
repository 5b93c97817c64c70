------------------------------- MODULE Devices ------------------------------
(***************************************************************************)
(* How the console's devices are set up (src/src/main.c): the steps of     *)
(* main() up to the scheduler, the partitions of the hard disk and the     *)
(* mount points pfs0 to pfs9, the messages of the USB driver, and the      *)
(* window in which the user picks the partitions to mount                  *)
(* (src/src/GUI_M_Partitions.c, GUI_M_DlgPartition.c).                     *)
(***************************************************************************)
EXTENDS Naturals, SequencesExt, FiniteSetsExt

CONSTANTS
    MaxMount,       \* HDD_MAX_MOUNT; 8 in the program
    Found,          \* the user's partitions on the disk
    Bad,            \* those that cannot be mounted
    MountLists      \* bound: what part_mount_list may hold in CONFIG.DAT

VARIABLES
    stage,          \* the next step of main(), "run", or "asleep"
    boot,           \* nBootMode, hdd_boot_part, and the mount point in strElfPath
    parts,          \* the partitions on the disk, "none" without a disk
    bHddAvail,
    mounted,        \* the pfs driver: mount point -> partition
    names,          \* lpPartNames
    num,            \* nHddNumMounted
    mountList,      \* the setting part_mount_list
    rows,           \* the list of the window: partitions and marks
    usb,            \* the USB driver: what is plugged, sent and known
    services        \* nNetInit, nFTPInit

deviceVars == <<stage, boot, parts, bHddAvail, mounted, names, num, mountList, rows, usb, services>>
diskVars == <<parts, bHddAvail, mounted, names, num, mountList, rows>>

MyPS2 == "+MYPS2"
Empty == "nothing"
NoDisk == {"no disk"}
Points == 0 .. MaxMount + 1
NoPoint == MaxMount + 2

\* fileXioMount: a partition is mounted once, at a point that is free.
CanMount(at, point, part) ==
    /\ part \in parts \ Bad /\ at[point] = Empty
    /\ \A p \in Points : at[p] # part

Init ==
    /\ stage = "config" /\ boot \in [mode : {"MC", "USB", "HDD"}, part : Found \cup {MyPS2}, point : {NoPoint}]
    /\ parts \in {NoDisk, Found, Found \cup {MyPS2}}
    /\ bHddAvail = "no" /\ mounted = [p \in Points |-> Empty]
    /\ names = [i \in 0 .. MaxMount - 1 |-> Empty] /\ num = 0 /\ mountList = <<>>
    /\ rows = [items |-> <<>>, marked |-> {}]
    /\ usb = [plugged |-> FALSE, loaded |-> FALSE, handlers |-> FALSE, avail |-> FALSE, sent |-> <<>>]
    /\ services = {}

------------------------------------------------------------------------------
(* main(), in its order; SleepThread ends it.                                *)

ReadBootConfig ==
    /\ stage = "config"
    /\ stage' \in {"hdd"} \cup (IF boot.mode = "HDD" THEN {"asleep"} ELSE {})
    /\ UNCHANGED <<boot, diskVars, usb, services>>

HDD_Init ==
    /\ stage = "hdd" /\ stage' = "usb"
    /\ IF parts # NoDisk /\ MyPS2 \in parts
       THEN \/ /\ CanMount(mounted, 0, MyPS2)
               /\ mounted' = [mounted EXCEPT ![0] = MyPS2] /\ bHddAvail' = "yes"
            \/ UNCHANGED <<mounted, bHddAvail>>
       ELSE /\ bHddAvail' \in {"no"} \cup (IF parts = NoDisk THEN {} ELSE {"no partition"})
            /\ UNCHANGED mounted
    /\ UNCHANGED <<boot, parts, names, num, mountList, rows, usb, services>>

\* USB_Init: the driver may speak before its messages are listened to.
USB_Load ==
    /\ stage = "usb"
    /\ \/ stage' = "usb handlers" /\ usb' = [usb EXCEPT !.loaded = TRUE]
       \/ stage' = "boot" /\ UNCHANGED usb
    /\ UNCHANGED <<boot, diskVars, services>>

USB_Handlers ==
    /\ stage = "usb handlers" /\ stage' = "boot"
    /\ usb' = [usb EXCEPT !.handlers = TRUE]
    /\ UNCHANGED <<boot, diskVars, services>>

MountBootPart_Mutant ==
    /\ stage = "boot"
    /\ stage' = "settings" /\ boot' = [boot EXCEPT !.point = 0]
    /\ UNCHANGED <<mounted, parts, bHddAvail, names, num, mountList, rows, usb, services>>
MountBootPart ==
    /\ stage = "boot"
    /\ IF boot.mode # "HDD" THEN stage' = "settings" /\ UNCHANGED <<boot, mounted>>
       ELSE IF bHddAvail = "yes" /\ boot.part = MyPS2
       THEN stage' = "settings" /\ boot' = [boot EXCEPT !.point = 0] /\ UNCHANGED mounted
       ELSE \/ /\ CanMount(mounted, 1, boot.part)
               /\ mounted' = [mounted EXCEPT ![1] = boot.part]
               /\ boot' = [boot EXCEPT !.point = 1] /\ stage' = "settings"
            \/ stage' = "asleep" /\ UNCHANGED <<boot, mounted>>
    /\ UNCHANGED <<parts, bHddAvail, names, num, mountList, rows, usb, services>>

\* It waits for the USB device that holds the settings.
LoadSettings ==
    /\ stage \in {"settings", "run"}
    /\ stage = "settings" => (boot.mode = "USB" => usb.avail)
    /\ stage' = IF stage = "settings" THEN "mount" ELSE stage
    /\ mountList' \in MountLists
    /\ UNCHANGED <<boot, parts, bHddAvail, mounted, names, num, rows, usb, services>>

------------------------------------------------------------------------------
(* The mount list                                                            *)

\* HDD_UnmountList: a point with an open file may stay.
HDD_UnmountList_Mutant(busy) ==
    [mounted |-> [p \in Points |-> IF p \in 2 .. num + 1 /\ p \notin busy THEN Empty ELSE mounted[p]],
     names |-> names, num |-> num]
HDD_UnmountList(busy) ==
    [mounted |-> [p \in Points |-> IF p \in 2 .. num + 1 /\ p \notin busy THEN Empty ELSE mounted[p]],
     names |-> names, num |-> 0]

Mount(st, part) ==
    IF st.num >= MaxMount \/ ~CanMount(st.mounted, st.num + 2, part) THEN st
    ELSE [mounted |-> [st.mounted EXCEPT ![st.num + 2] = part],
          names |-> [st.names EXCEPT ![st.num] = part], num |-> st.num + 1]

HDD_MountList(list) ==
    IF bHddAvail = "no" THEN UNCHANGED <<mounted, names, num>>
    ELSE \E busy \in SUBSET (2 .. num + 1) :
            LET st == FoldLeft(Mount, HDD_UnmountList(busy), list) IN
            mounted' = st.mounted /\ names' = st.names /\ num' = st.num

MountAtBoot ==
    /\ stage = "mount" /\ stage' = "net"
    /\ HDD_MountList(mountList)
    /\ UNCHANGED <<boot, parts, bHddAvail, mountList, rows, usb, services>>

\* NET_Init and FTP_Init: each may fail, and the second needs the first.
StartServices ==
    /\ stage = "net" /\ stage' = "run"
    /\ services' \in {{}, {"net"}, {"net", "ftp"}}
    /\ UNCHANGED <<boot, diskVars, usb>>

\* ListPartitions fills an empty list.  The boot partition is meant to be left
\* out, but its setting has a prefix the disk's names have not.
Listed == SetToSeq(Found \cap parts)
OpenPartitions ==
    /\ stage = "run" /\ rows.items = <<>>
    /\ rows' = [items |-> Listed, marked |-> Range(mountList) \cap Range(Listed)]
    /\ UNCHANGED <<stage, boot, parts, bHddAvail, mounted, names, num, mountList, usb, services>>

MarkPartition(part) ==
    /\ stage = "run" /\ part \in Range(rows.items)
    /\ rows' = [rows EXCEPT !.marked = (@ \cup {part}) \ (@ \cap {part})]
    /\ UNCHANGED <<stage, boot, parts, bHddAvail, mounted, names, num, mountList, usb, services>>

ApplyChanges ==
    /\ stage = "run" /\ rows.items # <<>>
    /\ mountList' = SelectSeq(rows.items, LAMBDA part : part \in rows.marked)
    /\ HDD_MountList(mountList')
    /\ UNCHANGED <<stage, boot, parts, bHddAvail, rows, usb, services>>

\* HDD_CreatePartition and HDD_MountPartition
CreatePartition ==
    /\ stage = "run" /\ bHddAvail = "no partition" /\ MyPS2 \notin parts
    /\ parts' = parts \cup {MyPS2}
    /\ \/ mounted' = [mounted EXCEPT ![0] = MyPS2] /\ bHddAvail' = "yes"
       \/ UNCHANGED <<mounted, bHddAvail>>
    /\ UNCHANGED <<stage, boot, names, num, mountList, rows, usb, services>>

\* HDD_GetPartition
HDD_GetPartition(point) ==
    CASE point = 0 -> MyPS2 [] point = 1 -> boot.part [] OTHER -> names[point - 2]

------------------------------------------------------------------------------
(* The USB driver and its messages; one that arrives before the handlers are *)
(* there is lost.  MaxSent bounds the messages under way.                    *)
MaxSent == 2

Plug ==
    /\ Len(usb.sent) < MaxSent
    /\ usb' = [usb EXCEPT !.plugged = ~@, !.sent = IF usb.loaded THEN Append(@, ~usb.plugged) ELSE @]
    /\ UNCHANGED <<stage, boot, diskVars, services>>

\* What was plugged in before the driver was loaded is announced then.
Announce ==
    /\ stage = "usb handlers" /\ usb.plugged /\ usb.sent = <<>>
    /\ usb' = [usb EXCEPT !.sent = << TRUE >>]
    /\ UNCHANGED <<stage, boot, diskVars, services>>

Deliver ==
    /\ usb.sent # <<>>
    /\ usb' = [usb EXCEPT !.sent = Tail(@), !.avail = IF usb.handlers THEN Head(usb.sent) ELSE @]
    /\ UNCHANGED <<stage, boot, diskVars, services>>

Next ==
    \/ ReadBootConfig \/ HDD_Init \/ USB_Load \/ USB_Handlers \/ MountBootPart \/ LoadSettings
    \/ MountAtBoot \/ StartServices \/ OpenPartitions \/ ApplyChanges \/ CreatePartition
    \/ \E part \in Found : MarkPartition(part)
    \/ Plug \/ Announce \/ Deliver

Spec == Init /\ [][Next]_deviceVars

------------------------------------------------------------------------------
TypeOK ==
    /\ bHddAvail \in {"no", "yes", "no partition"} /\ num \in 0 .. MaxMount
    /\ mounted \in [Points -> Found \cup {MyPS2, Empty}]
    /\ names \in [0 .. MaxMount - 1 -> Found \cup {MyPS2, Empty}]

(* The partition the user is told is behind a mount point is the one mounted *)
(* there, however many partitions failed to mount or unmount before it       *)
(* (HDD_GetPartition, HDD_MountList, HDD_UnmountList); the program's own     *)
(* partition is at pfs0 when the disk is reported as usable; the directory   *)
(* of the program stays on the partition it was started from; and a USB      *)
(* device that is reported is there once the messages under way have         *)
(* arrived.                                                                  *)
DevicesRight ==
    /\ \A i \in 0 .. num - 1 : mounted[i + 2] = HDD_GetPartition(i + 2)
    /\ bHddAvail = "yes" => mounted[0] = HDD_GetPartition(0)
    /\ boot.point # NoPoint => mounted[boot.point] = boot.part
    /\ mounted[1] # Empty => mounted[1] = HDD_GetPartition(1)
    /\ usb.avail /\ usb.sent = <<>> => usb.plugged
=============================================================================
