--------------------------- MODULE ContainerSpec ---------------------------
(***************************************************************************)
(* What Manager.CreateContainer of internal/docker/manager.go makes of a   *)
(* server's configuration: the startup command with its placeholders       *)
(* resolved, the port bindings and the resource limits.                    *)
(*                                                                         *)
(* Text is a sequence of characters.  A startup command is given as the    *)
(* pieces its author put together, text and names of variables, so that    *)
(* the properties can say what the author meant; the code sees no more     *)
(* than the text they spell.  Go ranges over a map in any order, so each   *)
(* turn of the loop is an action on any key left.  Integers wrap around at *)
(* Half, with units scaled down accordingly.                               *)
(***************************************************************************)
EXTENDS Integers, SequencesExt

CONSTANTS
  Chars,         \* characters, "{" and "}" among them
  Keys,          \* names of environment variables: texts
  Commands,      \* startup commands: sequences of pieces
  Values,        \* values of variables: texts
  PortLists,     \* lists of [port, proto, ip], the code's PortMapping
  Ints,          \* memory and CPU limits a request may carry
  Half,          \* integers are -Half .. Half - 1 (2^63)
  Unit,          \* bytes of a megabyte (2^20)
  DefaultMB,     \* megabytes when none are asked for (512)
  Period, Hundred  \* the CPU period (100 000) and 100

ASSUME ContainerSpecAssumption ==
  /\ {Half, Unit, DefaultMB, Period, Hundred} \subseteq Nat \ {0}
  /\ Unit * DefaultMB < Half /\ Hundred <= Period /\ Period < Half
  /\ Ints \subseteq -Half .. Half - 1
  /\ \A list \in PortLists : list \in Seq(ToSet(list))

ASSUME TextAssumption ==
  /\ {"{", "}"} \subseteq Chars /\ Keys \cup Values \subseteq Seq(Chars)
  /\ Commands \subseteq Seq([named : BOOLEAN, text : Seq(Chars)])

VARIABLES
  env,       \* Server.Environment: the variables set and their values
  startup,   \* Server.StartupCommand, as pieces
  ports,     \* Server.Ports
  limits,    \* Server.Limits: mb and percent
  cmd,       \* startupCmd
  keys,      \* keys the loop has not come to
  bindings,  \* portBindings: port and protocol -> host addresses
  next,      \* the next entry of ports
  memory, quota,  \* Resources.Memory and Resources.CPUQuota
  pc

config == <<env, startup, ports, limits>>

vars == <<config, cmd, keys, bindings, next, memory, quota, pc>>

Placeholder(key) == <<"{", "{">> \o key \o <<"}", "}">>

Spelled(piece) == IF piece.named THEN Placeholder(piece.text) ELSE piece.text

StartupCommand(pieces) == FlattenSeq([i \in DOMAIN pieces |-> Spelled(pieces[i])])

Init ==
  /\ \E some \in SUBSET Keys : env \in [some -> Values]
  /\ startup \in Commands /\ ports \in PortLists
  /\ limits \in [mb : Ints, percent : Ints]
  /\ cmd = StartupCommand(startup) /\ keys = DOMAIN env
  /\ bindings = <<>> /\ next = 1
  /\ memory = 0 /\ quota = 0
  /\ pc = "command"

\* strings.ReplaceAll reads the text from left to right: done is what became
\* of it up to the last place replaced, open the characters read since.
Scan(scan, c, old, new) ==
  LET open == Append(scan.open, c) IN
  IF IsSuffix(old, open)
    THEN [done |-> scan.done \o SubSeq(open, 1, Len(open) - Len(old)) \o new,
          open |-> <<>>]
    ELSE [done |-> scan.done, open |-> open]

Unread == [done |-> <<>>, open |-> <<>>]

Scanned(text, old, new) ==
  FoldLeft(LAMBDA scan, c : Scan(scan, c, old, new), Unread, text)

ReplaceText(text, old, new) ==
  Scanned(text, old, new).done \o Scanned(text, old, new).open

\* Mutant: the value goes where the name was, between the braces.
ReplaceKey_Inside(text, key, value) ==
  ReplaceText(text, Placeholder(key), Placeholder(value))

ReplaceKey(text, key, value) == ReplaceText(text, Placeholder(key), value)

Resolve ==
  /\ pc = "command"
  /\ IF keys = {}
       THEN pc' = "ports" /\ UNCHANGED <<cmd, keys>>
       ELSE /\ \E k \in keys : /\ cmd' = ReplaceKey(cmd, k, env[k])
                               /\ keys' = keys \ {k}
            /\ UNCHANGED pc
  /\ UNCHANGED <<config, bindings, next, memory, quota>>

\* nat.Port: anything but udp is tcp.
NatPort(p) == <<p.port, IF p.proto = "udp" THEN "udp" ELSE "tcp">>

HostIP(p) == IF p.ip = "" THEN "0.0.0.0" ELSE p.ip

\* Mutant: one more address for a port that has one.
BindPort_Append ==
  /\ pc = "ports"
  /\ IF next > Len(ports)
       THEN pc' = "limits" /\ UNCHANGED <<bindings, next>>
       ELSE LET p == ports[next]
                old == IF NatPort(p) \in DOMAIN bindings THEN bindings[NatPort(p)]
                                                         ELSE <<>>
            IN /\ bindings' = (NatPort(p) :> Append(old, <<HostIP(p), p.port>>))
                              @@ bindings
               /\ next' = next + 1
               /\ UNCHANGED pc
  /\ UNCHANGED <<config, cmd, keys, memory, quota>>

\* portBindings[np] is assigned: of two entries for a port the later one wins.
BindPort ==
  /\ pc = "ports"
  /\ IF next > Len(ports)
       THEN pc' = "limits" /\ UNCHANGED <<bindings, next>>
       ELSE LET p == ports[next] IN
            /\ bindings' = [b \in DOMAIN bindings \cup {NatPort(p)} |->
                              IF b = NatPort(p) THEN << <<HostIP(p), p.port>> >>
                                                ELSE bindings[b]]
            /\ next' = next + 1
            /\ UNCHANGED pc
  /\ UNCHANGED <<config, cmd, keys, memory, quota>>

Wrap(n) == ((n + Half) % (2 * Half)) - Half

\* Go's division truncates towards zero.
Quotient(n, d) == IF n < 0 THEN -((-n) \div d) ELSE n \div d

\* Mutant: only a negative product is replaced.
MemBytes_Zero(mb) ==
  LET bytes == Wrap(mb * Unit) IN IF bytes < 0 THEN DefaultMB * Unit ELSE bytes

MemBytes(mb) ==
  LET bytes == Wrap(mb * Unit) IN IF bytes <= 0 THEN DefaultMB * Unit ELSE bytes

\* Mutant: the percentage as it comes.
CpuQuota_Zero(percent) == Quotient(Wrap(percent * Period), Hundred)

CpuQuota(percent) ==
  Quotient(Wrap((IF percent > 1 THEN percent ELSE 1) * Period), Hundred)

SetLimits ==
  /\ pc = "limits"
  /\ memory' = MemBytes(limits.mb)
  /\ quota' = CpuQuota(limits.percent)
  /\ pc' = "done"
  /\ UNCHANGED <<config, cmd, keys, bindings, next>>

\* The next start of the server: CreateContainer with the same configuration.
Again ==
  /\ pc = "done"
  /\ cmd' = StartupCommand(startup) /\ keys' = DOMAIN env
  /\ bindings' = <<>> /\ next' = 1
  /\ memory' = 0 /\ quota' = 0
  /\ pc' = "command"
  /\ UNCHANGED config

Next == Resolve \/ BindPort \/ SetLimits \/ Again

Spec == Init /\ [][Next]_vars

-----------------------------------------------------------------------------

\* What the author meant: each name that is set stands for its value.
Meant(pieces) ==
  FlattenSeq([i \in DOMAIN pieces |->
                IF pieces[i].named /\ pieces[i].text \in DOMAIN env
                  THEN env[pieces[i].text] ELSE Spelled(pieces[i])])

Braceless(text) == ToSet(text) \cap {"{", "}"} = {}

Clean ==
  /\ \A k \in DOMAIN env : Braceless(k) /\ Braceless(env[k])
  /\ \A i \in DOMAIN startup : Braceless(startup[i].text)

\* As long as there are no braces but those around names, neither in the text
\* nor in a name or a value, the command of every start is the one that was
\* meant, each occurrence of each name resolved and no other text touched, in
\* whatever order the map is gone through (manager.go:65-69).  With braces it
\* is not: the value "{{" of A makes "x" or "{{B}}" of {{A}}B}}, by that order.
SameCommand == Clean /\ pc = "done" => cmd = Meant(startup)

\* Every port asked for is bound, once and to an address that was asked for
\* it: Docker is never told to bind one host port twice (manager.go:76-91).
PortsBoundOnce ==
  pc = "done" =>
    /\ \A i \in DOMAIN ports : NatPort(ports[i]) \in DOMAIN bindings
    /\ \A b \in DOMAIN bindings :
         /\ Len(bindings[b]) = 1
         /\ \E i \in DOMAIN ports :
              /\ NatPort(ports[i]) = b
              /\ bindings[b][1] = <<HostIP(ports[i]), ports[i].port>>

\* A container never runs without a memory limit (0 or less is none to Docker)
\* and never gets more than was asked for it, even where the product of
\* manager.go:94 overflows.
MemoryLimited ==
  pc = "done" => memory > 0 /\ (limits.mb > 0 => memory <= limits.mb * Unit)

\* Nor does it run without a CPU limit, as long as the product of line 99 does
\* not overflow; the least quota is one hundredth of the period.
CpuLimited ==
  pc = "done" /\ limits.percent * Period < Half => quota >= Period \div Hundred

=============================================================================
