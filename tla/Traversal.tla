------------------------------ MODULE Traversal ------------------------------
(***************************************************************************)
(* How a request finds its way from a Pipe to a Service.                   *)
(*                                                                         *)
(* The code follows the chain of targets in two places that must agree:    *)
(* domain.ResolveLogicalPath walks the definitions of one Store when a     *)
(* Pipe starts, and the tunnel handlers walk the same chain one process at *)
(* a time when a connection is opened, carrying the IDs visited so far and *)
(* a hop limit on the wire.  Both depend on the definitions only, the      *)
(* tables pipes and services that the commands of Workflows build, and are *)
(* written here as recursive functions over the number of hops.            *)
(***************************************************************************)
EXTENDS Workflows, Sequences, Functions

CONSTANT
    DefaultMaxPipeHops   \* domain.DefaultMaxPipeHops: 8 in the code

ASSUME TraversalAssumption == DefaultMaxPipeHops \in Nat \ {0}

\* What a loader finds under a name: Store.Pipe and Store.Service.
Load(table, n) == IF n \in DOMAIN table THEN table[n] ELSE None

-----------------------------------------------------------------------------
(* The path through the definitions of one Store.                          *)

\* One iteration of the loop of domain.ResolveLogicalPath.
ResolveHop(w) ==
    LET spec == Load(pipes, w.at)
    IN  CASE w.out # "more" -> w
          [] w.out = "more" /\ w.at \in Range(w.path) -> [w EXCEPT !.out = "cycle"]
          [] OTHER ->
               IF spec = None THEN [w EXCEPT !.out = "not_found"]
               ELSE IF ~Valid(w.at, spec) THEN [w EXCEPT !.out = "invalid"]
               ELSE IF spec.target.kind = "pipe"
                    THEN [at |-> spec.target.name, path |-> Append(w.path, w.at), out |-> "more"]
                    ELSE [at |-> w.at, path |-> Append(w.path, w.at),
                          out |-> IF Load(services, spec.target.name) = None
                                  THEN "not_found" ELSE "service"]

\* domain.ResolveLogicalPath; out = "more" stands for "exceeds maximum of n hops".
ResolveLogicalPath(start, maxHops) ==
    LET limit == IF maxHops <= 0 THEN DefaultMaxPipeHops ELSE maxHops
        walk[h \in 0..limit] ==
            IF h = 0 THEN [at |-> start, path |-> <<>>, out |-> "more"]
                     ELSE ResolveHop(walk[h - 1])
    IN  walk[limit]

-----------------------------------------------------------------------------
(* The path a connection takes, hop by hop.                                *)

\* (mutant: the sender counts as a hop of its own)
FromWire_SenderCounts(visited, hopLimit) ==
    [visited |-> visited, maxHops |-> hopLimit,
     remaining |-> hopLimit - Len(visited) - 1,
     err |-> IF Len(visited) + 1 >= hopLimit THEN "hop_limit" ELSE "none"]

\* engine.FromWire: the traversal state a handler reads from an OpenPipe.
FromWire(visited, hopLimit) ==
    [visited |-> visited, maxHops |-> hopLimit,
     remaining |-> hopLimit - Len(visited),
     err |-> IF \/ hopLimit <= 0
                \/ hopLimit > DefaultMaxPipeHops THEN "hop_limit"
             ELSE IF ~IsInjective(visited) THEN "loop"
             ELSE IF Len(visited) >= hopLimit THEN "hop_limit"
             ELSE "none"]

\* TraversalState.Advance: enter the hop with this ID.
Advance(st, id) ==
    IF st.err # "none" THEN st
    ELSE IF st.remaining <= 0 THEN [st EXCEPT !.err = "hop_limit"]
    ELSE IF id \in Range(st.visited) THEN [st EXCEPT !.err = "loop"]
    ELSE [st EXCEPT !.visited = Append(@, id), !.remaining = @ - 1]

\* Engine.forwardPipeTarget up to the call of the opener: the error, or "none".
ForwardError(next, st) ==
    LET spec == Load(pipes, next)
    IN  IF spec = None \/ (spec # None /\ ~Valid(next, spec)) THEN "unreachable"
        ELSE IF spec.id \in Range(st.visited) THEN "loop"
        ELSE IF st.remaining < 1 THEN "hop_limit"
        ELSE "none"

\* runPublishedPipe or runScopeLessPublishedPipe serves it.
Published(n) == Load(pipes, n) # None /\ pipes[n].ingress = "tubo"

\* The opener looks the next Pipe up in the discovery records, which only a
\* Pipe with a scope publishes: one that attach created is out of its reach.
\* (External: that Pipe is running, its lease, the dial, the handshake.)
Discoverable(n) == Published(n) /\ pipes[n].by = "scoped"

\* tunnelServer.serve at the Pipe w.at for an OpenPipe with w.visited and
\* w.limit, from the checks of the request to the selection of the target.
ServeHop(w) ==
    LET spec == pipes[w.at]
        st == Advance(FromWire(w.visited, w.limit), spec.id)
        forward == ForwardError(spec.target.name, st)
    IN  IF w.out # "more" THEN w
        ELSE IF w.limit <= 0 \/ w.limit > DefaultMaxPipeHops \/ Len(w.visited) >= w.limit
             THEN [w EXCEPT !.out = "hop_limit"]
        ELSE IF ~IsInjective(w.visited) \/ spec.id \in Range(w.visited)
             THEN [w EXCEPT !.out = "loop"]
        ELSE IF spec.target.kind = "service"
             THEN [w EXCEPT !.out = IF Load(services, spec.target.name) = None
                                    THEN "unreachable" ELSE "service"]
        ELSE IF st.err # "none" THEN [w EXCEPT !.out = st.err]
        ELSE IF forward # "none" THEN [w EXCEPT !.out = forward]
        ELSE IF ~Discoverable(spec.target.name) THEN [w EXCEPT !.out = "unreachable"]
        ELSE [at |-> spec.target.name, visited |-> st.visited, limit |-> st.maxHops, out |-> "more"]

\* An OpenPipe sent to the published Pipe start, and where it ends.
OpenPipe(start, visited, hopLimit) ==
    LET chain[h \in 0..DefaultMaxPipeHops] ==
            IF h = 0 THEN [at |-> start, visited |-> visited, limit |-> hopLimit, out |-> "more"]
                     ELSE ServeHop(chain[h - 1])
    IN  chain[DefaultMaxPipeHops]

-----------------------------------------------------------------------------
(* The reference both are compared with.                                   *)

\* c is a chain of distinct Pipes, each the target of the one before, that
\* ends in a defined Service.
IsChain(c) ==
    /\ IsInjective(c)
    /\ \A i \in DOMAIN c : pipes[c[i]] # None
    /\ \A i \in 1..(Len(c) - 1) : pipes[c[i]].target = PipeRef(c[i + 1])
    /\ \E n \in DOMAIN services :
          services[n] # None /\ pipes[c[Len(c)]].target = ServiceRef(n)

\* The chains from start with at most n Pipes.
Chains(start, n) ==
    {c \in UNION {[1..k -> DOMAIN pipes] : k \in 1..n} : c[1] = start /\ IsChain(c)}

-----------------------------------------------------------------------------
(* Walking the definitions when a Pipe starts and walking the tunnel when  *)
(* a connection is opened give the same answer, for every hop limit and    *)
(* whatever the graph: exactly when a chain of at most that many distinct  *)
(* Pipes leads to a defined Service.  For the tunnel the Pipes after the   *)
(* first must also have a discovery record: it refuses some chains that    *)
(* were accepted when their first Pipe started, and no others.  A local    *)
(* ingress counts as the first of the Pipes.                               *)
TraversalAgrees ==
    \A start \in {n \in Names : pipes[n] # None}, limit \in 1..DefaultMaxPipeHops :
        LET chains == Chains(start, limit)
            open == \E c \in chains : \A i \in 2..Len(c) : Discoverable(c[i])
            first == pipes[start].target
        IN  /\ chains # {} <=> ResolveLogicalPath(start, limit).out = "service"
            /\ Published(start) =>
                  (open <=> OpenPipe(start, <<>>, limit).out = "service")
            /\ pipes[start].ingress # "tubo" /\ first.kind = "pipe"
                    /\ Discoverable(first.name) /\ limit = DefaultMaxPipeHops =>
                  (open <=> OpenPipe(first.name, <<pipes[start].id>>, limit).out = "service")

=============================================================================
