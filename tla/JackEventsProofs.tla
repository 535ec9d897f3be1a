------------------------- MODULE JackEventsProofs -------------------------
(***************************************************************************)
(* JACK's changes are never forgotten, and its end is reported once and    *)
(* finally, however often the ports change and scans fail.                 *)
(***************************************************************************)
EXTENDS JackEvents, TLAPS

\* The end is noted under the mutex before it is reported, and only after it has
\* come; a scan that found ports, which it does only before the end, was begun
\* before any report.
ReportsAreOrdered ==
  /\ disconnects \in {0, 1}
  /\ emitted_shutdown_cb => is_shutdown
  /\ disconnects # 0 => emitted_shutdown_cb
  /\ cpc = "shutdown" => emitted_shutdown_cb /\ disconnects = 0
  /\ cpc \in {"ports", "change"} => disconnects = 0

\* While init scans nothing sets the flag, so that a change it misses is seen by
\* the first flush.
InitLeavesRefreshDue ==
  call = "init" => ~refresh_devices_flag /\ cpc \in {"refresh", "ports", "giveup"}

RefreshIsDue ==
  (Connected /\ up /\ ~is_shutdown) =>
    \/ notice \/ ~refresh_devices_flag
    \/ cpc = "refresh"
    \/ cpc = "ports" /\ port_names = devices
    \/ cpc # "ports" /\ safe_devices_info = Fresh

RefreshInv == InitLeavesRefreshDue /\ RefreshIsDue

-----------------------------------------------------------------------------
\* The end is reported in the order in which it is noted.
LEMMA ReportsStep == ReportsAreOrdered /\ [Next]_vars => ReportsAreOrdered'
<1> SUFFICES ASSUME ReportsAreOrdered, [Next]_vars PROVE ReportsAreOrdered'
  OBVIOUS
<1> USE DEF ReportsAreOrdered
<1>1. CASE NotifyDevicesChange
  BY <1>1, Zenon DEF NotifyDevicesChange, status, scan
<1>2. CASE ShutdownCallback
  BY <1>2, Zenon DEF ShutdownCallback, server, scan
<1>3. ASSUME NEW who \in {"jack", "other"}, SignalChange(who) PROVE ReportsAreOrdered'
  BY <1>3, Zenon DEF SignalChange, server, status, scan
<1>4. CASE GetPorts
  BY <1>4, Zenon DEF GetPorts, server, status
<1>5. CASE RefreshDone
  BY <1>5, Zenon DEF RefreshDone, server, status
<1>6. CASE RefreshAgain
  BY <1>6, Zenon DEF RefreshAgain, server, status
<1>7. CASE RefreshFailed
  BY <1>7, Zenon DEF RefreshFailed, Return, server, status
<1>8. CASE GiveUp \/ Disconnect
  BY <1>8, Zenon DEF GiveUp, Disconnect, TearDown
<1>9. CASE Flush \/ Woken
  BY <1>9, Zenon DEF Flush, Woken, FlushBody, server, scan
<1>10. CASE FlushWaits
  BY <1>10, Zenon DEF FlushWaits, server, status, scan
<1>11. CASE TestRefreshFlag
  BY <1>11, Zenon DEF TestRefreshFlag, Return, server, status, scan
<1>12. CASE OnBackendDisconnect
  <2>1. disconnects' = 1
    BY <1>12, SMT DEF OnBackendDisconnect
  <2> QED
    BY <1>12, <2>1, Zenon DEF OnBackendDisconnect, Return, status
<1>13. CASE OnDevicesChange
  BY <1>13, Zenon DEF OnDevicesChange, Return, server, status, scan
<1>14. CASE DevicesChange
  BY <1>14, Zenon DEF DevicesChange, status, scan
<1>15. CASE ServerEnds
  BY <1>15, Zenon DEF ServerEnds, status, scan
<1>16. CASE Connect
  BY <1>16, Zenon DEF Connect, server, status, scan
<1>17. ASSUME NEW kind \in {"flush_events", "wait_events 1"}, Call(kind) PROVE ReportsAreOrdered'
  BY <1>17, Zenon DEF Call, server, status, scan
<1>18. CASE Wakeup
  BY <1>18, Zenon DEF Wakeup, server, status, scan
<1>19. CASE ForceDeviceScan
  BY <1>19, Zenon DEF ForceDeviceScan, server, status, scan
<1>20. CASE UNCHANGED vars
  BY <1>20, Zenon DEF vars, server, status, scan
<1> QED
  BY <1>1, <1>2, <1>3, <1>4, <1>5, <1>6, <1>7, <1>8, <1>9, <1>10, <1>11, <1>12, <1>13,
     <1>14, <1>15, <1>16, <1>17, <1>18, <1>19, <1>20, Zenon
     DEF Next, JackStep, ClientStep, RefreshStep

\* The server's end is reported at most once, and no change of the devices after
\* it (jack.c:296-326).
THEOREM EndIsFinal == Spec => []DisconnectIsFinal
<1>1. Init => ReportsAreOrdered
  BY Zenon DEF Init, ReportsAreOrdered
<1>2. ReportsAreOrdered => DisconnectIsFinal
  <2> SUFFICES ASSUME ReportsAreOrdered PROVE DisconnectIsFinal
    OBVIOUS
  <2>1. disconnects <= 1
    <3>1. disconnects \in {0, 1}
      BY Zenon DEF ReportsAreOrdered
    <3> QED
      BY <3>1, SMT
  <2> QED
    BY <2>1, Zenon DEF ReportsAreOrdered, DisconnectIsFinal
<1> QED
  BY <1>1, <1>2, ReportsStep, PTL DEF Spec

\* A change that comes during a scan leaves the flag cleared, or finds the scan at
\* its beginning.
LEMMA RefreshInvStep == RefreshInv /\ [Next]_vars => RefreshInv'
<1> SUFFICES ASSUME RefreshInv, [Next]_vars PROVE RefreshInv'
  OBVIOUS
<1> USE DEF RefreshInv, InitLeavesRefreshDue, RefreshIsDue, Connected, Active, Fresh
<1>1. CASE NotifyDevicesChange
  BY <1>1, Zenon DEF NotifyDevicesChange, status, scan
<1>2. CASE ShutdownCallback
  BY <1>2, Zenon DEF ShutdownCallback, server, scan
<1>3. ASSUME NEW who \in {"jack", "other"}, SignalChange(who) PROVE RefreshInv'
  BY <1>3, Zenon DEF SignalChange, server, status, scan
<1>4. CASE GetPorts
  BY <1>4, Zenon DEF GetPorts, server, status
<1>5. CASE RefreshDone
  BY <1>5, Zenon DEF RefreshDone, server, status
<1>6. CASE RefreshAgain
  BY <1>6, Zenon DEF RefreshAgain, server, status
<1>7. CASE RefreshFailed
  BY <1>7, Zenon DEF RefreshFailed, Return, server, status
<1>8. CASE GiveUp \/ Disconnect
  BY <1>8, Zenon DEF GiveUp, Disconnect, TearDown
<1>9. CASE Flush \/ Woken
  <2>1. cpc \in {"flush", "wait"} /\ cpc' \in {"shutdown", "test"}
    BY <1>9, Zenon DEF Flush, Woken, FlushBody
  <2>2. UNCHANGED <<up, devices, notice, refresh_devices_flag, is_shutdown, safe_devices_info,
            call>>
    BY <1>9, Zenon DEF Flush, Woken, FlushBody, server, scan
  <2> QED
    BY <2>1, <2>2, Zenon
<1>10. CASE FlushWaits
  BY <1>10, Zenon DEF FlushWaits, server, status, scan
<1>11. CASE TestRefreshFlag
  BY <1>11, Zenon DEF TestRefreshFlag, Return, server, status, scan
<1>12. CASE OnBackendDisconnect
  BY <1>12, Zenon DEF OnBackendDisconnect, Return, server, status, scan
<1>13. CASE OnDevicesChange
  BY <1>13, Zenon DEF OnDevicesChange, Return, server, status, scan
<1>14. CASE DevicesChange
  BY <1>14, Zenon DEF DevicesChange, status, scan
<1>15. CASE ServerEnds
  BY <1>15, Zenon DEF ServerEnds, status, scan
<1>16. CASE Connect
  BY <1>16, Zenon DEF Connect, server, status, scan
<1>17. ASSUME NEW kind \in {"flush_events", "wait_events 1"}, Call(kind) PROVE RefreshInv'
  BY <1>17, Zenon DEF Call, server, status, scan
<1>18. CASE Wakeup
  BY <1>18, Zenon DEF Wakeup, server, status, scan
<1>19. CASE ForceDeviceScan
  BY <1>19, Zenon DEF ForceDeviceScan, server, status, scan
<1>20. CASE UNCHANGED vars
  BY <1>20, Zenon DEF vars, server, status, scan
<1> QED
  BY <1>1, <1>2, <1>3, <1>4, <1>5, <1>6, <1>7, <1>8, <1>9, <1>10, <1>11, <1>12, <1>13,
     <1>14, <1>15, <1>16, <1>17, <1>18, <1>19, <1>20, Zenon
     DEF Next, JackStep, ClientStep, RefreshStep

-----------------------------------------------------------------------------
(* Types: the flags, the places of the client's thread and the versions it *)
(* holds, part by part.                                                    *)

Flags ==
  /\ up \in BOOLEAN /\ notice \in BOOLEAN /\ signalled \in BOOLEAN
  /\ refresh_devices_flag \in BOOLEAN
  /\ is_shutdown \in BOOLEAN /\ emitted_shutdown_cb \in BOOLEAN

Places ==
  /\ signalling \subseteq {"jack", "other"}
  /\ cpc \in {"off", "refresh", "ports", "giveup", "idle", "flush", "between", "wait", "test",
              "shutdown", "change"}
  /\ call \in {"none", "init", "flush_events", "wait_events 1", "wait_events 2"}

\* The names of the ports are held while a scan goes through them and no longer.
Versions ==
  /\ devices \in 0..MaxChanges
  /\ safe_devices_info = NoInfo \/ safe_devices_info \in (0..MaxChanges) \X (0..MaxChanges)
  /\ port_names \in -1..MaxChanges
  /\ (port_names # None) <=> (cpc = "ports")
  /\ failures \in 0..MaxFailures
  /\ disconnects \in Nat

\* Every action leaves the flags Boolean.
LEMMA FlagsStep == Flags /\ [Next]_vars => Flags'
<1> SUFFICES ASSUME Flags, [Next]_vars PROVE Flags'
  OBVIOUS
<1> USE DEF Flags
<1>1. CASE NotifyDevicesChange
  BY <1>1, Zenon DEF NotifyDevicesChange, status, scan
<1>2. CASE ShutdownCallback
  BY <1>2, Zenon DEF ShutdownCallback, Signal, server, scan
<1>3. ASSUME NEW who \in {"jack", "other"}, SignalChange(who) PROVE Flags'
  BY <1>3, Zenon DEF SignalChange, Signal, server, status, scan
<1>4. CASE GetPorts
  BY <1>4, Zenon DEF GetPorts, server, status
<1>5. CASE RefreshDone
  BY <1>5, Zenon DEF RefreshDone, server, status
<1>6. CASE RefreshAgain
  BY <1>6, Zenon DEF RefreshAgain, server, status
<1>7. CASE RefreshFailed
  BY <1>7, Zenon DEF RefreshFailed, Return, server, status
<1>8. CASE GiveUp \/ Disconnect
  BY <1>8, Zenon DEF GiveUp, Disconnect, TearDown
<1>9. CASE Flush \/ Woken
  BY <1>9, Zenon DEF Flush, Woken, FlushBody, server, scan
<1>10. CASE FlushWaits
  BY <1>10, Zenon DEF FlushWaits, server, status, scan
<1>11. CASE TestRefreshFlag
  BY <1>11, Zenon DEF TestRefreshFlag, Return, server, status, scan
<1>12. CASE OnBackendDisconnect
  BY <1>12, Zenon DEF OnBackendDisconnect, Return, server, status, scan
<1>13. CASE OnDevicesChange
  BY <1>13, Zenon DEF OnDevicesChange, Return, server, status, scan
<1>14. CASE DevicesChange
  BY <1>14, Zenon DEF DevicesChange, Active, status, scan
<1>15. CASE ServerEnds
  BY <1>15, Zenon DEF ServerEnds, status, scan
<1>16. CASE Connect
  BY <1>16, Zenon DEF Connect, server, status, scan
<1>17. ASSUME NEW kind \in {"flush_events", "wait_events 1"}, Call(kind) PROVE Flags'
  BY <1>17, Zenon DEF Call, server, status, scan
<1>18. CASE Wakeup
  BY <1>18, Zenon DEF Wakeup, Signal, server, status, scan
<1>19. CASE ForceDeviceScan
  BY <1>19, Zenon DEF ForceDeviceScan, server, status, scan
<1>20. CASE UNCHANGED vars
  BY <1>20, Zenon DEF vars, server, status, scan
<1> QED
  BY <1>1, <1>2, <1>3, <1>4, <1>5, <1>6, <1>7, <1>8, <1>9, <1>10, <1>11, <1>12, <1>13,
     <1>14, <1>15, <1>16, <1>17, <1>18, <1>19, <1>20, Zenon
     DEF Next, JackStep, ClientStep, RefreshStep

\* Every action leaves the client's thread at a place of its code.
LEMMA PlacesStep == Places /\ [Next]_vars => Places'
<1> SUFFICES ASSUME Places, [Next]_vars PROVE Places'
  OBVIOUS
<1> USE DEF Places
<1>1. CASE NotifyDevicesChange
  BY <1>1 DEF NotifyDevicesChange, status, scan
<1>2. CASE ShutdownCallback
  BY <1>2 DEF ShutdownCallback, Signal, server, scan
<1>3. ASSUME NEW who \in {"jack", "other"}, SignalChange(who) PROVE Places'
  BY <1>3 DEF SignalChange, Signal, server, status, scan
<1>4. CASE GetPorts
  BY <1>4 DEF GetPorts, server, status
<1>5. CASE RefreshDone
  BY <1>5 DEF RefreshDone, server, status
<1>6. CASE RefreshAgain
  BY <1>6 DEF RefreshAgain, server, status
<1>7. CASE RefreshFailed
  BY <1>7 DEF RefreshFailed, Return, server, status
<1>8. CASE GiveUp \/ Disconnect
  BY <1>8 DEF GiveUp, Disconnect, TearDown
<1>9. CASE Flush \/ Woken
  BY <1>9 DEF Flush, Woken, FlushBody, server, scan
<1>10. CASE FlushWaits
  BY <1>10 DEF FlushWaits, server, status, scan
<1>11. CASE TestRefreshFlag
  BY <1>11 DEF TestRefreshFlag, Return, server, status, scan
<1>12. CASE OnBackendDisconnect
  BY <1>12 DEF OnBackendDisconnect, Return, server, status, scan
<1>13. CASE OnDevicesChange
  BY <1>13 DEF OnDevicesChange, Return, server, status, scan
<1>14. CASE DevicesChange
  BY <1>14 DEF DevicesChange, Active, status, scan
<1>15. CASE ServerEnds
  BY <1>15 DEF ServerEnds, status, scan
<1>16. CASE Connect
  BY <1>16 DEF Connect, server, status, scan
<1>17. ASSUME NEW kind \in {"flush_events", "wait_events 1"}, Call(kind) PROVE Places'
  BY <1>17 DEF Call, server, status, scan
<1>18. CASE Wakeup
  BY <1>18 DEF Wakeup, Signal, server, status, scan
<1>19. CASE ForceDeviceScan
  BY <1>19 DEF ForceDeviceScan, server, status, scan
<1>20. CASE UNCHANGED vars
  BY <1>20 DEF vars, server, status, scan
<1> QED
  BY <1>1, <1>2, <1>3, <1>4, <1>5, <1>6, <1>7, <1>8, <1>9, <1>10, <1>11, <1>12, <1>13,
     <1>14, <1>15, <1>16, <1>17, <1>18, <1>19, <1>20, Zenon
     DEF Next, JackStep, ClientStep, RefreshStep

\* A scan keeps the names of the ports exactly while it goes through them, and
\* shows only versions the server has had (jack.c:85-286).
LEMMA VersionsStep == Versions /\ [Next]_vars => Versions'
<1> SUFFICES ASSUME Versions, [Next]_vars PROVE Versions'
  OBVIOUS
<1> USE BoundsAssumption DEF Versions, None, NoInfo
<1>1. CASE NotifyDevicesChange
  BY <1>1 DEF NotifyDevicesChange, status, scan
<1>2. CASE ShutdownCallback
  BY <1>2 DEF ShutdownCallback, Signal, server, scan
<1>3. ASSUME NEW who \in {"jack", "other"}, SignalChange(who) PROVE Versions'
  BY <1>3 DEF SignalChange, Signal, server, status, scan
<1>4. CASE GetPorts
  BY <1>4 DEF GetPorts, server, status
<1>5. CASE RefreshDone
  BY <1>5 DEF RefreshDone, server, status
<1>6. CASE RefreshAgain
  BY <1>6 DEF RefreshAgain, server, status
<1>7. CASE RefreshFailed
  <2>1. cpc' \in {"giveup", "between", "idle"} /\ port_names' = -1
    BY <1>7, Zenon DEF RefreshFailed, Return
  <2>2. UNCHANGED <<devices, safe_devices_info, disconnects>>
    BY <1>7, Zenon DEF RefreshFailed, server
  <2>3. failures' \in 0..MaxFailures
    BY <1>7 DEF RefreshFailed
  <2> QED
    BY <2>1, <2>2, <2>3
<1>8. CASE GiveUp \/ Disconnect
  BY <1>8 DEF GiveUp, Disconnect, TearDown
<1>9. CASE Flush \/ Woken
  BY <1>9 DEF Flush, Woken, FlushBody, server, scan
<1>10. CASE FlushWaits
  BY <1>10 DEF FlushWaits, server, status, scan
<1>11. CASE TestRefreshFlag
  BY <1>11 DEF TestRefreshFlag, Return, server, status, scan
<1>12. CASE OnBackendDisconnect
  <2>1. cpc = "shutdown" /\ cpc' \in {"between", "idle"}
    BY <1>12, Zenon DEF OnBackendDisconnect, Return
  <2>2. disconnects' \in Nat
    BY <1>12 DEF OnBackendDisconnect
  <2>3. UNCHANGED <<devices, safe_devices_info, port_names, failures>>
    BY <1>12, Zenon DEF OnBackendDisconnect, server, scan
  <2> QED
    BY <2>1, <2>2, <2>3
<1>13. CASE OnDevicesChange
  BY <1>13 DEF OnDevicesChange, Return, server, status, scan
<1>14. CASE DevicesChange
  BY <1>14 DEF DevicesChange, Active, status, scan
<1>15. CASE ServerEnds
  BY <1>15 DEF ServerEnds, status, scan
<1>16. CASE Connect
  BY <1>16 DEF Connect, server, status, scan
<1>17. ASSUME NEW kind \in {"flush_events", "wait_events 1"}, Call(kind) PROVE Versions'
  BY <1>17 DEF Call, server, status, scan
<1>18. CASE Wakeup
  BY <1>18 DEF Wakeup, Signal, server, status, scan
<1>19. CASE ForceDeviceScan
  BY <1>19 DEF ForceDeviceScan, server, status, scan
<1>20. CASE UNCHANGED vars
  BY <1>20 DEF vars, server, status, scan
<1> QED
  BY <1>1, <1>2, <1>3, <1>4, <1>5, <1>6, <1>7, <1>8, <1>9, <1>10, <1>11, <1>12, <1>13,
     <1>14, <1>15, <1>16, <1>17, <1>18, <1>19, <1>20, Zenon
     DEF Next, JackStep, ClientStep, RefreshStep

\* The variables have their types, and every way out of a scan gives the names of
\* the ports back, as jack_free does (jack.c:85-286).
THEOREM TypesHold == Spec => []TypeOK
<1>1. Init => Flags /\ Places /\ Versions
  <2> SUFFICES ASSUME Init PROVE Flags /\ Places /\ Versions
    OBVIOUS
  <2>1. Flags
    BY Zenon DEF Init, Flags
  <2>2. Places
    BY Zenon DEF Init, Places
  <2>3. Versions
    BY BoundsAssumption DEF Init, Versions, None, NoInfo
  <2> QED
    BY <2>1, <2>2, <2>3
<1>2. Flags /\ Places /\ Versions => TypeOK
  <2> SUFFICES ASSUME Flags, Places, Versions PROVE TypeOK
    OBVIOUS
  <2>1. {up, notice, refresh_devices_flag, is_shutdown, emitted_shutdown_cb, signalled}
          \subseteq BOOLEAN
    BY DEF Flags
  <2> QED
    BY <2>1, Zenon DEF Places, Versions, TypeOK
<1> QED
  BY <1>1, <1>2, FlagsStep, PlacesStep, VersionsStep, PTL DEF Spec

\* While the server runs, a change the client has not been shown is announced,
\* due or about to be seen by the scan under way (jack.c:318-322, 809), although
\* flag and scan are outside the mutex.
THEOREM ChangesAreNotLost == Spec => []NoLostRefresh
<1>1. Init => RefreshInv
  BY Zenon DEF Init, RefreshInv, InitLeavesRefreshDue, RefreshIsDue
<1>2. RefreshInv /\ TypeOK => NoLostRefresh
  BY Zenon DEF RefreshInv, RefreshIsDue, NoLostRefresh
<1> QED
  BY <1>1, <1>2, RefreshInvStep, TypesHold, PTL DEF Spec

-----------------------------------------------------------------------------
(* What the client sees.                                                   *)

\* Versions only grow, so a scan under way is of nothing older than the list.
ScansAreLater ==
  /\ devices \in Nat
  /\ \/ safe_devices_info = NoInfo
     \/ \E a, b \in 0..devices :
          /\ safe_devices_info = <<a, b>>
          /\ cpc = "ports" => a <= port_names /\ b <= port_names
  /\ cpc = "ports" => port_names \in 0..devices

LEMMA ScansAreLaterStep == ScansAreLater /\ [Next]_vars => ScansAreLater'
<1> SUFFICES ASSUME ScansAreLater, [Next]_vars PROVE ScansAreLater'
  OBVIOUS
<1> USE DEF ScansAreLater
<1>1. ASSUME UNCHANGED <<devices, safe_devices_info>>,
             cpc' # "ports" \/ UNCHANGED <<cpc, port_names>>
      PROVE  ScansAreLater'
  BY <1>1
<1>2. CASE GetPorts
  BY <1>2 DEF GetPorts, server
<1>3. CASE RefreshDone
  <2>1. cpc = "ports" /\ UNCHANGED devices /\ safe_devices_info' = <<port_names, devices>>
    BY <1>3, Zenon DEF RefreshDone, server
  <2>2. cpc' # "ports"
    BY <1>3, Zenon DEF RefreshDone
  <2> QED
    BY <2>1, <2>2
<1>4. CASE DevicesChange
  <2>1. devices' = devices + 1 /\ UNCHANGED <<safe_devices_info, cpc, port_names>>
    BY <1>4, Zenon DEF DevicesChange, scan
  <2> QED
    BY <2>1
<1>5. CASE GiveUp \/ Disconnect
  <2>1. UNCHANGED devices /\ safe_devices_info' = NoInfo /\ cpc' = "off"
    BY <1>5, Zenon DEF GiveUp, Disconnect, TearDown
  <2> QED
    BY <2>1
<1>6. CASE RefreshAgain
  BY <1>1, <1>6, Zenon DEF RefreshAgain, server
<1>7. CASE RefreshFailed
  BY <1>1, <1>7, Zenon DEF RefreshFailed, Return, server
<1>8. CASE NotifyDevicesChange \/ ShutdownCallback \/ ServerEnds
  BY <1>1, <1>8, Zenon DEF NotifyDevicesChange, ShutdownCallback, ServerEnds, server, scan
<1>9. ASSUME NEW who, SignalChange(who) PROVE ScansAreLater'
  BY <1>1, <1>9, Zenon DEF SignalChange, server, scan
<1>10. CASE Flush \/ Woken \/ FlushWaits
  BY <1>1, <1>10, Zenon DEF Flush, Woken, FlushBody, FlushWaits, server, scan
<1>11. CASE TestRefreshFlag \/ OnBackendDisconnect \/ OnDevicesChange
  BY <1>1, <1>11, Zenon
     DEF TestRefreshFlag, OnBackendDisconnect, OnDevicesChange, Return, server, scan
<1>12. ASSUME NEW kind, Call(kind) PROVE ScansAreLater'
  BY <1>1, <1>12, Zenon DEF Call, server, scan
<1>13. CASE Connect \/ Wakeup \/ ForceDeviceScan \/ UNCHANGED vars
  BY <1>1, <1>13, Zenon DEF Connect, Wakeup, ForceDeviceScan, vars, server, scan
<1> QED
  BY <1>2, <1>3, <1>4, <1>5, <1>6, <1>7, <1>8, <1>9, <1>10, <1>11, <1>12, <1>13, Zenon
     DEF Next, JackStep, ClientStep, RefreshStep

\* A step that leaves the devices, the list and the reports alone is a call that
\* begins, goes on or returns.
LEMMA CallsGoOn ==
  ASSUME UNCHANGED <<devices, safe_devices_info, disconnects>>,
         \/ UNCHANGED cpc
         \/ cpc' \notin {"off", "idle"}
         \/ cpc \notin {"off", "idle"} /\ cpc' # "off"
  PROVE  [Events!EventsNext]_(Events!eventVars)
<1>1. UNCHANGED Shown
  BY DEF Shown
<1>2. \/ UNCHANGED Place
      \/ Place' = "call"
      \/ Place = "call" /\ Place' \in {"call", "idle"}
  BY DEF Place
<1> QED
  BY <1>1, <1>2, Zenon DEF Events!EventsNext, Events!eventVars, Events!Begin, Events!Return,
     Events!InCall

\* The list of a scan follows the one before.
LEMMA DoneShows ==
  ASSUME ScansAreLater, ReportsAreOrdered, RefreshDone
  PROVE  Events!EventsNext
<1>1. /\ cpc = "ports" /\ cpc' \in {"idle", "change"} /\ UNCHANGED <<devices, disconnects>>
      /\ safe_devices_info' = <<port_names, devices>>
  BY Zenon DEF RefreshDone, server
<1>2. port_names \in 0..devices /\ devices \in Nat /\ disconnects = 0
  BY <1>1, Zenon DEF ScansAreLater, ReportsAreOrdered
<1>3. Shown' = {port_names, devices}
  BY <1>1, <1>2 DEF Shown, None
<1>4. \A old \in Shown : old <= port_names /\ old <= devices
  <2>1. CASE safe_devices_info = NoInfo
    BY <2>1 DEF Shown, NoInfo
  <2>2. ASSUME NEW a \in 0..devices, NEW b \in 0..devices, safe_devices_info = <<a, b>>,
               a <= port_names /\ b <= port_names
        PROVE  \A old \in Shown : old <= port_names /\ old <= devices
    BY <1>2, <2>2 DEF Shown
  <2> QED
    BY <1>1, <2>1, <2>2, Zenon DEF ScansAreLater
<1>5. Place = "call" /\ Place' \in {"call", "idle"}
  BY <1>1 DEF Place
<1>6. Shown' \in SUBSET (0..devices) /\ \A old \in Shown, new \in Shown' : old <= new
  BY <1>2, <1>3, <1>4
<1>7. Events!Show(Shown')
  BY <1>1, <1>2, <1>5, <1>6, Zenon DEF Events!Show, Events!InCall
<1> QED
  BY <1>6, <1>7, Zenon DEF Events!EventsNext

\* Each action is a step of the promise, or none that the client could see.
LEMMA JackSteps ==
  ASSUME ScansAreLater, ReportsAreOrdered, [Next]_vars
  PROVE  [Events!EventsNext]_(Events!eventVars)
<1>1. CASE DevicesChange
  <2>1. devices' = devices + 1 /\ UNCHANGED <<cpc, safe_devices_info, disconnects>>
    BY <1>1, Zenon DEF DevicesChange, scan
  <2>2. UNCHANGED <<Place, Shown>>
    BY <2>1 DEF Place, Shown
  <2> QED
    BY <2>1, <2>2, Zenon DEF Events!EventsNext, Events!Change
<1>2. CASE RefreshDone
  BY <1>2, DoneShows
<1>3. CASE OnBackendDisconnect
  <2>1. /\ cpc = "shutdown" /\ cpc' \in {"between", "idle"}
        /\ UNCHANGED <<devices, safe_devices_info>> /\ disconnects' = disconnects + 1
    BY <1>3, Zenon DEF OnBackendDisconnect, Return, server, scan
  <2>2. disconnects = 0
    BY <2>1, Zenon DEF ReportsAreOrdered
  <2>3. disconnects' = 1
    BY <2>1, <2>2
  <2>4. Place = "call" /\ Place' \in {"call", "idle"} /\ UNCHANGED Shown
    BY <2>1 DEF Place, Shown
  <2> QED
    BY <2>1, <2>2, <2>3, <2>4, Zenon DEF Events!EventsNext, Events!Report, Events!InCall
<1>4. CASE GiveUp \/ Disconnect
  <2>1. /\ cpc \in {"giveup", "idle"} /\ cpc' = "off" /\ UNCHANGED devices
        /\ safe_devices_info' = NoInfo /\ disconnects' = 0
    BY <1>4, Zenon DEF GiveUp, Disconnect, TearDown
  <2>2. Place # "off" /\ Place' = "off" /\ Shown' = {}
    BY <2>1 DEF Place, Shown, NoInfo
  <2> QED
    BY <2>1, <2>2, Zenon DEF Events!EventsNext, Events!Disconnect
<1>5. CASE GetPorts \/ RefreshAgain
  BY <1>5, CallsGoOn, Zenon DEF GetPorts, RefreshAgain, server
<1>6. CASE RefreshFailed
  <2>1. /\ UNCHANGED <<devices, safe_devices_info, disconnects>>
        /\ cpc \in {"refresh", "ports"} /\ cpc' \in {"giveup", "between", "idle"}
    BY <1>6, Zenon DEF RefreshFailed, Return, server
  <2> QED
    BY <2>1, CallsGoOn, Zenon
<1>7. CASE NotifyDevicesChange \/ ShutdownCallback \/ ServerEnds
  BY <1>7, CallsGoOn, Zenon DEF NotifyDevicesChange, ShutdownCallback, ServerEnds, server, scan
<1>8. ASSUME NEW who, SignalChange(who) PROVE [Events!EventsNext]_(Events!eventVars)
  BY <1>8, CallsGoOn, Zenon DEF SignalChange, server, scan
<1>9. CASE Flush \/ Woken \/ FlushWaits
  <2>1. /\ UNCHANGED <<devices, safe_devices_info, disconnects>>
        /\ cpc' \in {"shutdown", "test", "wait"}
    BY <1>9, Zenon DEF Flush, Woken, FlushBody, FlushWaits, server, scan
  <2> QED
    BY <2>1, CallsGoOn, Zenon
<1>10. CASE TestRefreshFlag \/ OnDevicesChange
  <2>1. /\ UNCHANGED <<devices, safe_devices_info, disconnects>>
        /\ cpc \in {"test", "change"} /\ cpc' \in {"refresh", "between", "idle"}
    BY <1>10, Zenon DEF TestRefreshFlag, OnDevicesChange, Return, server, scan
  <2> QED
    BY <2>1, CallsGoOn, Zenon
<1>11. ASSUME NEW kind, Call(kind) PROVE [Events!EventsNext]_(Events!eventVars)
  <2>1. UNCHANGED <<devices, safe_devices_info, disconnects>> /\ cpc' = "flush"
    BY <1>11, Zenon DEF Call, server, scan
  <2> QED
    BY <2>1, CallsGoOn, Zenon
<1>12. CASE Connect
  <2>1. UNCHANGED <<devices, safe_devices_info, disconnects>> /\ cpc' = "refresh"
    BY <1>12, Zenon DEF Connect, server, scan
  <2> QED
    BY <2>1, CallsGoOn, Zenon
<1>13. CASE Wakeup \/ ForceDeviceScan \/ UNCHANGED vars
  BY <1>13, CallsGoOn, Zenon DEF Wakeup, ForceDeviceScan, vars, server, scan
<1> QED
  BY <1>1, <1>2, <1>3, <1>4, <1>5, <1>6, <1>7, <1>8, <1>9, <1>10, <1>11, <1>12, <1>13, Zenon
     DEF Next, JackStep, ClientStep, RefreshStep

\* What the client of a JACK connection sees is what DeviceEvents promises: lists
\* in the order of the versions, in its own calls only, and none after the one
\* report of the server's end (jack.c:85-326).
THEOREM JackShowsInOrder == Spec => ShowsInOrder
<1>1. Init => ReportsAreOrdered /\ ScansAreLater /\ Events!EventsInit
  <2> SUFFICES ASSUME Init PROVE ReportsAreOrdered /\ ScansAreLater /\ Events!EventsInit
    OBVIOUS
  <2>1. ReportsAreOrdered
    BY Zenon DEF Init, ReportsAreOrdered
  <2>2. ScansAreLater
    BY DEF Init, ScansAreLater
  <2>3. Place = "off" /\ Shown = {}
    BY DEF Init, Place, Shown, NoInfo
  <2> QED
    BY <2>1, <2>2, <2>3, Zenon DEF Init, Events!EventsInit
<1> QED
  BY <1>1, ReportsStep, ScansAreLaterStep, JackSteps, PTL
     DEF Spec, ShowsInOrder, Events!EventsSpec
=============================================================================
