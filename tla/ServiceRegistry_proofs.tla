------------------------ MODULE ServiceRegistry_proofs ------------------------
(***************************************************************************)
(* The two maps of the registry stay inverse to each other for any set of   *)
(* services, names and ports.                                               *)
(***************************************************************************)
EXTENDS ServiceRegistry, TLAPS

\* A registration, accepted or refused, keeps the maps consistent.
LEMMA RegisterConsistent ==
  ASSUME Consistent, NEW s \in Service, RegisterService(s)
  PROVE  Consistent'
  <1>1. CASE ErrServiceExists(s) \/ ErrPortInUse(s)
    BY <1>1 DEF RegisterService, registryVars, Consistent, GetServicePort,
                GetServiceByPort
  <1>2. CASE ~(ErrServiceExists(s) \/ ErrPortInUse(s))
    <2>1. Name(s) \notin DOMAIN services /\ Port(s) \notin DOMAIN ports
      BY <1>2 DEF ErrServiceExists, ErrPortInUse
    <2>2. /\ services' = Put(services, Name(s), s)
          /\ ports' = Put(ports, Port(s), Name(s))
      BY <1>2 DEF RegisterService
    <2>3. /\ DOMAIN services' = DOMAIN services \union {Name(s)}
          /\ services'[Name(s)] = s
          /\ \A t \in DOMAIN services : services'[t] = services[t]
      BY <2>1, <2>2 DEF Put
    <2>4. /\ DOMAIN ports' = DOMAIN ports \union {Port(s)}
          /\ ports'[Port(s)] = Name(s)
          /\ \A p \in DOMAIN ports : ports'[p] = ports[p]
      BY <2>1, <2>2 DEF Put
    <2>5. ASSUME NEW t \in DOMAIN services'
          PROVE  /\ Name(services'[t]) = t
                 /\ Port(services'[t]) \in DOMAIN ports'
                 /\ ports'[Port(services'[t])] = t
      BY <2>3, <2>4 DEF Consistent, GetServicePort
    <2>6. ASSUME NEW p \in DOMAIN ports'
          PROVE  /\ ports'[p] \in DOMAIN services'
                 /\ Port(services'[ports'[p]]) = p
      BY <2>3, <2>4 DEF Consistent, GetServiceByPort
    <2>7. QED
      BY <2>5, <2>6 DEF Consistent, GetServicePort, GetServiceByPort
  <1>3. QED
    BY <1>1, <1>2

\* Whatever is registered in whatever order, with clashes of type and of port,
\* a lookup by type and a lookup by port agree (service_registry.go:28-37).
THEOREM RegistryIsConsistent == RegistrySpec => []Consistent
  <1>1. RegistryInit => Consistent
    BY DEF RegistryInit, Consistent
  <1>2. Consistent /\ [RegistryNext]_registryVars => Consistent'
    <2>1. Consistent /\ RegistryNext => Consistent'
      BY RegisterConsistent DEF RegistryNext
    <2>2. Consistent /\ UNCHANGED registryVars => Consistent'
      BY DEF registryVars, Consistent, GetServicePort, GetServiceByPort
    <2>3. QED
      BY <2>1, <2>2
  <1>3. QED
    BY <1>1, <1>2, PTL DEF RegistrySpec
=============================================================================
