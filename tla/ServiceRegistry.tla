---------------------------- MODULE ServiceRegistry ----------------------------
(***************************************************************************)
(* lab4's service registry,                                                 *)
(* src/lab4/internal/infrastructure/network/service_registry.go: two maps   *)
(* that have to stay inverse to each other.  Every operation holds the      *)
(* mutex from its first to its last line and is one step.                   *)
(***************************************************************************)
EXTENDS Naturals

CONSTANTS
    Service,    \* service objects
    Name(_),    \* service.Name(), the service type
    Port(_)     \* service.Port()

VARIABLES
    services,   \* map from service type to service object
    ports       \* map from port to service type

registryVars == <<services, ports>>

Types == {Name(s) : s \in Service}
Ports == {Port(s) : s \in Service}

RegistryInit == services = << >> /\ ports = << >>

RegistryTypeOK ==
    /\ DOMAIN services \subseteq Types /\ DOMAIN ports \subseteq Ports
    /\ \A t \in DOMAIN services : services[t] \in Service
    /\ \A p \in DOMAIN ports : ports[p] \in Types

Put(map, key, value) ==
    [k \in DOMAIN map \union {key} |-> IF k = key THEN value ELSE map[k]]

\* The error of RegisterService for s: the type is checked before the port.
ErrServiceExists(s) == Name(s) \in DOMAIN services
ErrPortInUse(s) == ~ErrServiceExists(s) /\ Port(s) \in DOMAIN ports

\* Mutant of RegisterService: the port is not recorded.
RegisterHalf(s) ==
    IF ErrServiceExists(s) \/ ErrPortInUse(s)
    THEN UNCHANGED registryVars
    ELSE /\ services' = Put(services, Name(s), s)
         /\ UNCHANGED ports

RegisterService(s) ==
    IF ErrServiceExists(s) \/ ErrPortInUse(s)
    THEN UNCHANGED registryVars
    ELSE /\ services' = Put(services, Name(s), s)
         /\ ports' = Put(ports, Port(s), Name(s))

Found(type) == type \in DOMAIN services            \* GetService succeeds
GetService(type) == services[type]
ListServices == DOMAIN services
GetServicePort(type) == Port(services[type])
GetServiceByPort(port) == services[ports[port]]    \* for port \in DOMAIN ports

RegistryNext == \E s \in Service : RegisterService(s)
RegistrySpec == RegistryInit /\ [][RegistryNext]_registryVars

\* The maps are inverse to each other: each registered service owns its port,
\* each port leads to a registered service, and looking a service up by type
\* or by port gives the same object (lines 28-37, 50-51, 82-87).  A failed
\* registration that left half of an entry behind would break it.
Consistent ==
    /\ \A t \in DOMAIN services :
          /\ Name(services[t]) = t
          /\ GetServicePort(t) \in DOMAIN ports
          /\ ports[GetServicePort(t)] = t
    /\ \A p \in DOMAIN ports :
          /\ ports[p] \in DOMAIN services
          /\ Port(GetServiceByPort(p)) = p
=============================================================================
