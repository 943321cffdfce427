------------------------------- MODULE DhcpMode -------------------------------
(***************************************************************************)
(* The PXE / DHCP page: the setting in the database, dnsmasq.conf rendered *)
(* from it and the configuration dnsmasq runs with are three states that   *)
(* pxe_dhcp_save brings in step one after the other (routers/provision.py, *)
(* renderer.py).                                                           *)
(***************************************************************************)
EXTENDS ServerProcess

CONSTANTS
  Ranges,  \* lease ranges an administrator may enter
  NoRange, \* the fields left empty
  Proxy,   \* a configuration in proxy mode; one in server mode is its range
  Empty    \* a file opened for writing and not yet written

ASSUME DhcpAssumption ==
  /\ Proxy \notin Ranges /\ NoRange \notin Ranges \cup {Proxy}
  /\ Empty \notin Ranges \cup {Proxy}

VARIABLES
  setting, \* Setting "dhcp"
  conf,    \* config/dnsmasq/dnsmasq.conf
  dnsmasq, \* the configuration dnsmasq was last started with
  applied  \* history: the last restart requested succeeded, and the server has
           \* not been restarted since

dhcp == <<setting, conf, dnsmasq, applied>>

Settings == [mode : {"proxy", "server", "auto"}, range : Ranges \cup {NoRange}]
Confs == Ranges \cup {Proxy, Empty}

\* The default that seed() stores, the file in the repository (proxy mode), and
\* dnsmasq started on it.
DhcpInit ==
  /\ setting = [mode |-> "proxy", range |-> NoRange]
  /\ conf = Proxy /\ dnsmasq = Proxy /\ applied = FALSE

\* What render_dnsmasq makes of a setting when the probe found a server or not.
Effective_Unchecked(s, found) ==
  IF s.mode = "server" \/ (s.mode = "auto" /\ ~found) THEN s.range ELSE Proxy
Effective_ByRange(s, found) ==
  IF s.range # NoRange /\ ~found THEN s.range ELSE Proxy
Effective(s, found) ==
  IF s.range # NoRange /\ (s.mode = "server" \/ (s.mode = "auto" /\ ~found))
  THEN s.range ELSE Proxy

\* put_setting commits, and its row leaves the session with it.
DhcpSave(k, s) ==
  /\ Begin(k, "save", "load", Idle)
  /\ setting' = s
  /\ UNCHANGED <<conf, dnsmasq, applied>>

\* render_dnsmasq reads the setting as it is stored now, whoever stored it.
DhcpLoad(k) ==
  /\ At(k, "load") /\ Goto(k, "resolve", setting)
  /\ UNCHANGED dhcp

\* The probe answers, truly or not; a probe that fails has found nothing.  Then
\* the file is opened, which empties it.
DhcpResolve(k) ==
  /\ At(k, "resolve")
  /\ \E found \in BOOLEAN : Goto(k, "render", Effective(job[k].read, found))
  /\ conf' = Empty
  /\ UNCHANGED <<setting, dnsmasq, applied>>

\* The steps of pxe_dhcp_save after the file is opened; the start-up goes on to
\* the mirror list, and restarts nothing.
Then_NoList(k) == IF k = Main THEN Finish(k) ELSE Goto(k, "restart", Idle)
Then(k) == IF k = Main THEN Goto(k, "select", Idle) ELSE Goto(k, "restart", Idle)

DhcpRender(k) ==
  /\ At(k, "render")
  /\ conf' = job[k].read
  /\ Then(k)
  /\ UNCHANGED <<setting, dnsmasq, applied>>

\* What restart_dnsmasq may return when docker has restarted the container, and
\* when it has not: the call also fails when it takes longer than 30 s.
Told_Unchecked(done) == BOOLEAN
Told(done) == IF done THEN BOOLEAN ELSE {FALSE}

DnsmasqRestart(k) ==
  /\ At(k, "restart") /\ Finish(k)
  /\ \E done \in BOOLEAN : /\ dnsmasq' = IF done THEN conf ELSE dnsmasq
                           /\ applied' \in Told(done)
  /\ UNCHANGED <<setting, conf>>

\* The container restarts on its own ("restart: unless-stopped").
DnsmasqCrash ==
  /\ dnsmasq' = conf
  /\ UNCHANGED <<process, setting, conf, applied>>

DhcpNext ==
  \/ \E k \in Workers : \/ \E s \in Settings : DhcpSave(k, s)
                        \/ DnsmasqRestart(k)
  \/ \E k \in Threads : DhcpLoad(k) \/ DhcpResolve(k) \/ DhcpRender(k)
  \/ DnsmasqCrash
-------------------------------------------------------------------------------
(* Properties.                                                               *)

\* When nothing is under way and the last save was not overlapped by another,
\* dnsmasq.conf is in the mode that was saved, and serves leases from the range
\* that was saved, if one was ("No lease range configured", renderer.py:188): also
\* when the server stopped between the commit and the write, or with the file
\* half written, and, once one more save is made, after two of them wrote the
\* file in the wrong order.
ConfCurrent ==
  Quiet /\ alone["conf"] =>
    /\ conf \in {Proxy, setting.range} \ {NoRange}
    /\ setting.mode = "proxy" => conf = Proxy
    /\ setting.mode = "server" /\ setting.range # NoRange => conf = setting.range

\* When nothing is under way dnsmasq runs with what is in the file, however saves
\* overlapped, unless its restart failed or the server's start-up rendered the
\* file, which restarts nothing (main.py:39): "restart=ok" (provision.py:300) is true.
RunningCurrent == Quiet /\ applied => dnsmasq = conf
===============================================================================
