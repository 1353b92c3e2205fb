---------------------------- MODULE MtpDevices ----------------------------
(***************************************************************************)
(* The device list of kmtpd (src/mtp/kiod_module/kmtpd.cpp, mtpdevice.cpp) *)
(* with its D-Bus objects, what a worker sees of it (shared/), and the     *)
(* notifications that keep the views of mtp:/ up to date.                  *)
(*                                                                         *)
(* Solid reports devices by udi.  Views and URLs know them by their        *)
(* friendly names, workers reach them by D-Bus path.                       *)
(***************************************************************************)
EXTENDS Naturals, Sequences, SequencesExt, FiniteSets

CONSTANTS Udi,          \* devices
          DeviceName,   \* their friendly names
          Nobody,       \* no device
          MaxPlugged,   \* how many are plugged in at a time
          MaxPlugs,     \* how often one is plugged in
          OwnNames      \* whether two devices always have two names

ASSUME NobodyAssumption == Nobody \notin DeviceName

VARIABLES solid,        \* udi -> friendly name of what is plugged in, or Nobody
          plugs,        \* how often a device was plugged in
          m_devices,    \* the list: [udi, path, name, updated]
          dbusObject,   \* path number -> udi whose object is registered there
          removals,     \* scheduled removals: [udi, name]
          shown,        \* names that the views of mtp:/ show
          relist        \* the views have been told to list mtp:/ again

deviceVars == <<solid, plugs, m_devices, dbusObject, removals, shown, relist>>

PathNumber == 0 .. Cardinality(Udi)
Known == {m_devices[k].udi : k \in DOMAIN m_devices}

(* devicesChanged(): every device in the list learns of it.                *)
DevicesChanged(list) == [k \in DOMAIN list |-> [list[k] EXCEPT !.updated = TRUE]]

(* What a worker gets for the path of a list entry: the object registered  *)
(* there, whoever's it is (KMTPDInterface::updateDevices).                 *)
Reached(k) == dbusObject[m_devices[k].path]
NameOf(udi) == LET here == {k \in DOMAIN m_devices : m_devices[k].udi = udi}
               IN  IF here = {} THEN Nobody ELSE m_devices[CHOOSE k \in here : TRUE].name
Listing == {NameOf(Reached(k)) : k \in DOMAIN m_devices} \ {Nobody}

(* checkDevice(), where libmtp can open the device: an entry whose path is *)
(* the length of the list.  registerObject() fails where another object is *)
(* registered already; its result is not looked at.                        *)
CheckDevice(udi) ==
  LET path == Len(m_devices)
  IN  /\ udi \notin Known
      /\ m_devices' = DevicesChanged(Append(m_devices, [udi |-> udi, path |-> path, name |-> solid'[udi], updated |-> TRUE]))
      /\ dbusObject' = IF dbusObject[path] = Nobody THEN [dbusObject EXCEPT ![path] = udi] ELSE dbusObject

CannotOpen == UNCHANGED <<m_devices, dbusObject>>

Plug(udi, name) ==
  /\ solid[udi] = Nobody /\ plugs < MaxPlugs
  /\ Cardinality({u \in Udi : solid[u] # Nobody}) < MaxPlugged
  /\ OwnNames => /\ \A u \in Udi : solid[u] # name
                 /\ \A r \in removals : r.name = name => r.udi = udi
  /\ solid' = [solid EXCEPT ![udi] = name] /\ plugs' = plugs + 1

(* deviceAdded(): views of mtp:/ list it again.                            *)
DeviceAdded(udi) ==
  /\ \E name \in DeviceName : Plug(udi, name)
  /\ \/ CheckDevice(udi) /\ relist' = TRUE
     \/ CannotOpen /\ UNCHANGED relist
  /\ UNCHANGED <<removals, shown>>

(* deviceRemoved(): the entry and its object go at once, the notification  *)
(* waits five seconds.                                                     *)
DeviceRemoved(udi) ==
  /\ solid[udi] # Nobody /\ solid' = [solid EXCEPT ![udi] = Nobody]
  /\ IF udi \in Known
     THEN /\ removals' = removals \cup {[udi |-> udi, name |-> NameOf(udi)]}
          /\ \E k \in DOMAIN m_devices :
               m_devices[k].udi = udi /\ m_devices' = RemoveAt(DevicesChanged(m_devices), k)
          /\ dbusObject' = [p \in PathNumber |-> IF dbusObject[p] = udi THEN Nobody ELSE dbusObject[p]]
     ELSE UNCHANGED <<removals, m_devices, dbusObject>>
  /\ UNCHANGED <<plugs, shown, relist>>

(* Mutant: the device that came back is not looked for. *)
NeverReturned(r) == FALSE

Returned(r) == r.udi \in Known

(* The five seconds are over: the views forget the name, unless the device *)
(* is known again.                                                         *)
ScheduledRemoval(r) ==
  /\ r \in removals /\ removals' = removals \ {r}
  /\ shown' = IF Returned(r) THEN shown ELSE shown \ {r.name}
  /\ UNCHANGED <<solid, plugs, m_devices, dbusObject, relist>>

(* A view lists mtp:/ through a worker.                                    *)
ListDevices ==
  /\ relist /\ relist' = FALSE /\ shown' = Listing
  /\ UNCHANGED <<solid, plugs, m_devices, dbusObject, removals>>

(* rename() of a device: setFriendlyName() through the object at its path, *)
(* and KIO tells the views.  A name in use is not asked for.               *)
SetFriendlyName(k, name) ==
  /\ Reached(k) # Nobody /\ name \notin {m_devices[j].name : j \in DOMAIN m_devices} \cup shown \cup {r.name : r \in removals}
  /\ LET old == NameOf(Reached(k))
     IN  /\ m_devices' = [j \in DOMAIN m_devices |->
              IF m_devices[j].udi = Reached(k) THEN [m_devices[j] EXCEPT !.name = name] ELSE m_devices[j]]
         /\ solid' = [solid EXCEPT ![Reached(k)] = name]
         /\ shown' = IF old \in shown THEN (shown \ {old}) \cup {name} ELSE shown
  /\ UNCHANGED <<plugs, dbusObject, removals, relist>>

(* listStorages(): whoever asks has seen all changes.                      *)
ListStorages(k) ==
  /\ Reached(k) # Nobody
  /\ m_devices' = [j \in DOMAIN m_devices |->
       IF m_devices[j].udi = Reached(k) THEN [m_devices[j] EXCEPT !.updated = FALSE] ELSE m_devices[j]]
  /\ UNCHANGED <<solid, plugs, dbusObject, removals, shown, relist>>

(* KMTPd(): devices that are there already are checked without a word.     *)
DevicesInit ==
  /\ solid = [u \in Udi |-> Nobody] /\ plugs = 0
  /\ m_devices = <<>> /\ dbusObject = [p \in PathNumber |-> Nobody]
  /\ removals = {} /\ shown = {} /\ relist = FALSE

DevicesNext ==
  \/ \E u \in Udi : DeviceAdded(u) \/ DeviceRemoved(u)
  \/ \E r \in removals : ScheduledRemoval(r)
  \/ ListDevices
  \/ \E k \in DOMAIN m_devices : ListStorages(k) \/ \E n \in DeviceName : SetFriendlyName(k, n)

DevicesFairness == WF_deviceVars(ListDevices) /\ WF_deviceVars(\E r \in removals : ScheduledRemoval(r))
DevicesSpec == DevicesInit /\ [][DevicesNext]_deviceVars /\ DevicesFairness

(***************************************************************************)
(* Properties                                                              *)
(***************************************************************************)
(* "Using the scheme mtp:udi=<udi> you can access the device" (README:14): *)
(* the path of every listed device leads to that device.                   *)
DeviceReachable == \A k \in DOMAIN m_devices : Reached(k) = m_devices[k].udi

(* "if it was a real removal, rather than a temporary remove-add dance,    *)
(* we'll emit it" (kmtpd.cpp:187): a scheduled removal takes no name from  *)
(* the views that a known device has.                                      *)
RemovalIsReal == [][\A n \in shown \ shown' : relist' = relist /\ m_devices' = m_devices => n \notin Listing]_deviceVars

(* Views show what is plugged in, in the end.                              *)
ViewsCatchUp == \A n \in DeviceName : (\A u \in Udi : solid[u] # n) ~> (n \notin shown \/ \E u \in Udi : solid[u] = n)
=============================================================================
