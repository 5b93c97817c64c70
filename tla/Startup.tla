------------------------------ MODULE Startup -------------------------------
(***************************************************************************)
(* What main of src/src/main.c brings up before the windows: the directory *)
(* the program lies in, the modules of the IOP in the order in which they  *)
(* need each other, memory cards, USB, the network, and the FTP daemon     *)
(* with the settings it is told (src/irx/ps2ftpd/main.c).  The hard disk   *)
(* and its partitions are in Devices.                                      *)
(***************************************************************************)
EXTENDS Naturals, Sequences, SequencesExt

CONSTANTS
    Needs,      \* for each module of the IOP, those whose functions it imports
    Machines,   \* what the program meets: [argv, broken, usbd, answers, disc]
    Configs,    \* settings of the network and the daemon
    Cut         \* names as they are kept in 32 bytes

VARIABLES
    pc,
    machine,
    config,
    strElfPath, \* the directory the program's files are looked for in
    nBootMode,
    next,       \* the next module of a list
    loaded,     \* the modules that run on the IOP
    nMCInit, nUSBInit, nNetInit, nFTPInit, CDInit,
    server      \* what FtpServer srv is set to, or NoServer

startVars == <<pc, machine, config, strElfPath, nBootMode, next, loaded, nMCInit, nUSBInit,
               nNetInit, nFTPInit, CDInit, server>>
flags == <<nMCInit, nUSBInit, nNetInit, nFTPInit, CDInit, server>>

NoServer == [port |-> "none", anonymous |-> FALSE, user |-> "none", password |-> "none"]

\* loadModules: one that does not load stops the program, but ATAD, without which
\* the two behind it are left out.
BasicModules_Mutant ==
    << "SIO2MAN", "MCMAN", "MCSERV", "PADMAN", "FILEXIO", "IOMANX", "PS2DEV9", "PS2ATAD",
       "PS2HDD", "PS2FS", "POWEROFF", "LIBSD", "SJPCM" >>
BasicModules ==
    << "SIO2MAN", "MCMAN", "MCSERV", "PADMAN", "IOMANX", "FILEXIO", "PS2DEV9", "PS2ATAD",
       "PS2HDD", "PS2FS", "POWEROFF", "LIBSD", "SJPCM" >>
DiskModules == {"PS2ATAD", "PS2HDD", "PS2FS"}
NetModules == << "PS2IP", "SMAP", "DNS", "PS2IPS" >>

Loads(m) == m \notin machine.broken /\ Needs[m] \subseteq loaded

Init ==
    /\ pc = "argv" /\ machine \in Machines /\ config \in Configs
    /\ strElfPath = [device |-> "none", dirs |-> << >>] /\ nBootMode = "HOST"
    /\ next = 1 /\ loaded \in {{}, {"PADMAN", "CDVD"}}
    /\ nMCInit = FALSE /\ nUSBInit = FALSE /\ nNetInit = FALSE /\ nFTPInit = FALSE
    /\ CDInit = FALSE /\ server = NoServer

------------------------------------------------------------------------------
\* A slash is put behind the device, and what follows the last slash is cut off: a
\* path with backslashes is cut off as a whole.
SetElfPath(argv) ==
    [device |-> IF argv.device = "cdrom0" THEN "cdfs" ELSE argv.device,
     dirs |-> IF argv.slashes THEN argv.dirs ELSE << >>]

\* The device must be one of these to the letter: mc0 and mass0 are not.
SetBootMode(argv) ==
    CASE argv.device = "host" -> IF argv.fakehost THEN "HDD" ELSE "HOST"
      [] argv.device = "mc" -> "MC"
      [] argv.device = "mass" -> "USB"
      [] argv.device \in {"cdrom0", "cdfs"} -> "CD"
      [] OTHER -> "HOST"

Argv ==
    /\ pc = "argv" /\ pc' = "modules"
    /\ strElfPath' = SetElfPath(machine.argv) /\ nBootMode' = SetBootMode(machine.argv)
    /\ loaded' = {}     \* ResetIOP
    /\ UNCHANGED <<machine, config, next, flags>>

LoadModule ==
    /\ pc = "modules" /\ next <= Len(BasicModules)
    /\ LET m == BasicModules[next] IN
          IF Loads(m) THEN loaded' = loaded \cup {m} /\ next' = next + 1 /\ UNCHANGED pc
          ELSE IF m = "PS2ATAD"
          THEN next' = next + 3 /\ UNCHANGED <<loaded, pc>>
          ELSE pc' = "asleep" /\ UNCHANGED <<loaded, next>>
    /\ UNCHANGED <<machine, config, strElfPath, nBootMode, flags>>

\* MC_Init: mcInit may fail, but the flag is set all the same.
MC_Init ==
    /\ pc = "modules" /\ next = Len(BasicModules) + 1
    /\ pc' = "usb" /\ nMCInit' = TRUE
    /\ UNCHANGED <<machine, config, strElfPath, nBootMode, next, loaded, nUSBInit, nNetInit, nFTPInit, CDInit, server>>

\* The USB driver of the directory of the program, or the first of the memory card
\* that loads; then that of the discs, and the call that finds it.
USBD == machine.usbd.own = "good" \/ Contains(machine.usbd.card, "good")
USB_Init ==
    /\ pc = "usb" /\ pc' = "net" /\ next' = 1
    /\ LET usbd == loaded \cup IF USBD THEN {"USBD"} ELSE {}
           mass == USBD /\ "USB_MASS" \notin machine.broken
       IN /\ loaded' = usbd \cup IF mass THEN {"USB_MASS"} ELSE {}
          /\ nUSBInit' = (mass /\ "USB_MASS" \in machine.answers)
    /\ UNCHANGED <<machine, config, strElfPath, nBootMode, nMCInit, nNetInit, nFTPInit, CDInit, server>>

\* NET_Init: a name server that is not given right is done without.
Skipped(m) == m = "DNS" /\ (~config.dns \/ ~Loads(m))
LoadNetModule ==
    /\ pc = "net" /\ config.net_enable /\ next <= Len(NetModules)
    /\ LET m == NetModules[next] IN
          /\ loaded' = IF Loads(m) /\ ~Skipped(m) THEN loaded \cup {m} ELSE loaded
          /\ IF Loads(m) \/ Skipped(m) THEN next' = next + 1 /\ UNCHANGED pc
             ELSE pc' = "ftp" /\ UNCHANGED next
    /\ UNCHANGED <<machine, config, strElfPath, nBootMode, flags>>

NetDone ==
    /\ pc = "net" /\ (~config.net_enable \/ next > Len(NetModules))
    /\ pc' = "ftp"
    /\ nNetInit' = (config.net_enable /\ "PS2IPS" \in machine.answers)     \* ps2ip_init
    /\ UNCHANGED <<machine, config, strElfPath, nBootMode, next, loaded, nMCInit, nUSBInit,
                   nFTPInit, CDInit, server>>

\* What FTP_Init writes for the daemon, and what process_args makes of it.
Arguments_Mutant ==
    << "-port", config.port >> \o IF config.anonymous THEN << "-anonymous" >>
                                  ELSE << "-user", config.login, "-pass", config.login >>
Arguments ==
    << "-port", config.port >> \o IF config.anonymous THEN << "-anonymous" >>
                                  ELSE << "-user", config.login, "-pass", config.password >>
FtpServer_Create == [port |-> "21", anonymous |-> FALSE, user |-> "ps2dev", password |-> "ps2dev"]
ProcessArg(acc, arg) ==
    IF acc.of # "none"
    THEN [acc EXCEPT !.of = "none",
                     !.server[acc.of] = IF acc.of = "port" THEN arg ELSE Cut[arg]]
    ELSE CASE arg = "-port" -> [acc EXCEPT !.of = "port"]
           [] arg = "-user" -> [acc EXCEPT !.of = "user"]
           [] arg = "-pass" -> [acc EXCEPT !.of = "password"]
           [] arg = "-anonymous" -> [acc EXCEPT !.server.anonymous = TRUE]
           [] OTHER -> [acc EXCEPT !.refused = TRUE]
process_args(args) ==
    FoldLeft(ProcessArg, [server |-> FtpServer_Create, of |-> "none", refused |-> FALSE], args)

\* That the daemon ends at once (it was told nonsense, or cannot listen) is not seen.
FTP_Init ==
    /\ pc = "ftp" /\ pc' = "running"
    /\ LET acc == process_args(Arguments)
           runs == ~acc.refused /\ acc.of = "none" /\ "PS2FTPD" \in machine.answers
       IN IF nNetInit /\ config.ftp_enable /\ Loads("PS2FTPD")
          THEN /\ nFTPInit' = TRUE /\ server' = IF runs THEN acc.server ELSE NoServer
               /\ loaded' = loaded \cup IF runs THEN {"PS2FTPD"} ELSE {}
          ELSE UNCHANGED <<nFTPInit, server, loaded>>
    /\ UNCHANGED <<machine, config, strElfPath, nBootMode, next, nMCInit, nUSBInit, nNetInit, CDInit>>

\* FileOpen or DirGetContents of cdfs: CD_Init.  The thread sleeps when the driver
\* does not load, as without a disc.
CD_Init ==
    /\ pc = "running" /\ ~CDInit
    /\ IF machine.disc /\ Loads("CDVD")
       THEN loaded' = loaded \cup {"CDVD"} /\ CDInit' = TRUE /\ UNCHANGED pc
       ELSE pc' = "asleep" /\ UNCHANGED <<loaded, CDInit>>
    /\ UNCHANGED <<machine, config, strElfPath, nBootMode, next, nMCInit, nUSBInit, nNetInit, nFTPInit, server>>

Next == Argv \/ LoadModule \/ MC_Init \/ USB_Init \/ LoadNetModule \/ NetDone \/ FTP_Init \/ CD_Init

Spec == Init /\ [][Next]_startVars

------------------------------------------------------------------------------
TypeOK ==
    /\ pc \in {"argv", "modules", "usb", "net", "ftp", "running", "asleep"}
    /\ machine \in Machines /\ config \in Configs /\ loaded \subseteq DOMAIN Needs
    /\ next \in 1..(Len(BasicModules) + 1)
    /\ nBootMode \in {"HOST", "MC", "HDD", "USB", "CD"}

(* Only a part every console has can stop the program: without a hard disk,  *)
(* a network adapter or a USB driver, and whatever is plugged in and set, it *)
(* comes up, and then runs with every module its services need.  Only the    *)
(* drive without a disc stops it later (loadModules, USB_Init, NET_Init).    *)
Essential == ToSet(BasicModules) \ DiskModules
ComesUp ==
    /\ pc = "asleep" =>
          (machine.broken \cap (Essential \cup {"PS2HDD", "PS2FS", "CDVD"}) # {}) \/ ~machine.disc
    /\ pc \in {"usb", "net", "ftp", "running"} =>
          Essential \subseteq loaded /\ loaded \cap DiskModules \in {{}, DiskModules}
    /\ nUSBInit => {"USBD", "USB_MASS"} \subseteq loaded
    /\ nNetInit => {"PS2IP", "SMAP", "PS2IPS"} \subseteq loaded
    /\ CDInit => "CDVD" \in loaded

(* A daemon that runs listens at the port that was set, and lets in whom the *)
(* settings say, as far as a name of 32 bytes goes (FTP_Init, process_args). *)
DaemonAsSet ==
    "PS2FTPD" \in loaded =>
       /\ config.net_enable /\ config.ftp_enable /\ nFTPInit
       /\ server.port = config.port /\ server.anonymous = config.anonymous
       /\ ~config.anonymous => server.user = Cut[config.login] /\ server.password = Cut[config.password]

\* The program finds its files where it lies, but for paths with backslashes.
FindsItsFiles ==
    pc # "argv" /\ (machine.argv.slashes \/ machine.argv.dirs = << >>) =>
       strElfPath.dirs = machine.argv.dirs

StartupRight == ComesUp /\ DaemonAsSet /\ FindsItsFiles
=============================================================================
