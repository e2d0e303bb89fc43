------------------------------- MODULE Network -------------------------------
(***************************************************************************)
(* src/lib/network.mjs: networks in CIDR notation, the policy on upstream  *)
(* addresses, and the containment of networks that src/config.mjs asks for. *)
(* An address is a number of Width bits.  An IPv6 text ::ffff:a.b.c.d is an *)
(* answer of a kind of its own, with the bits of a.b.c.d.  A network is     *)
(* given as an address in it and the length of its prefix.                 *)
(***************************************************************************)
EXTENDS Integers, Sequences

CONSTANTS
    Width,               \* bits of an address: 32 and 128 in the program
    Loopback, Private    \* PRIVATE_ADMIN_CIDRS: the networks of this host, the others

ASSUME WidthAssumption == Width \in Nat \ {0}

Families == {4, 6}

\* 2^n, by which a shift of n places divides and multiplies
Power[n \in Nat] == IF n = 0 THEN 1 ELSE 2 * Power[n - 1]

Addresses == [family : Families, value : 0..(Power[Width] - 1)]

\* The family of an answer ::ffff:a.b.c.d, which the resolver calls IPv6
Mapped == 46

Answers == [family : Families \cup {Mapped}, value : 0..(Power[Width] - 1)]

Networks == [address : Addresses, prefix : 0..Width]

ASSUME NetworksAssumption == Loopback \cup Private \subseteq Networks

\* A parsed network: the shift clears the bits behind the prefix.
Shift(prefix) == Width - prefix

Masked(value, shift) == (value \div Power[shift]) * Power[shift]

ParseCidr(address, prefix) ==
    [family |-> address.family, prefix |-> prefix,
     network |-> Masked(address.value, Shift(prefix)), shift |-> Shift(prefix)]

Parsed(networks) == {ParseCidr(n.address, n.prefix) : n \in networks}

AddressInCidr(address, cidr) ==
    cidr.family = address.family /\ Masked(address.value, cidr.shift) = cidr.network

\* Fault (mutation only): the prefixes are not compared.
WithinAnyPrefix(child, parent) ==
    child.family = parent.family /\ Masked(child.network, parent.shift) = parent.network

CidrWithin(child, parent) ==
    /\ child.family = parent.family /\ child.prefix >= parent.prefix
    /\ Masked(child.network, parent.shift) = parent.network

AddressInCidrs(address, cidrs) == \E cidr \in cidrs : AddressInCidr(address, cidr)

\* assertAddress takes the ::ffff: off before it asks the networks.
Unmapped(address) == IF address.family = Mapped THEN [address EXCEPT !.family = 4] ELSE address

\* Fault (mutation only): the ::ffff: stays.
AssertAddressAsIs(address, allowed) == AddressInCidrs(address, allowed)

AssertAddress(address, allowed) == AddressInCidrs(Unmapped(address), allowed)

\* Every address a name has must be allowed; the first one is used, as it came.
LookupAllowed(answers, allowed) ==
    answers # <<>> /\ \A k \in DOMAIN answers : AssertAddress(answers[k], allowed)

-----------------------------------------------------------------------------
(* validateConfig: from where, and how, the administration is reached.     *)

IsLoopback(address) == AddressInCidrs(address, Parsed(Loopback))

AdminAccepted(c) ==
    /\ c.allowed # {}
    /\ \A child \in Parsed(c.allowed) :
          \E parent \in Parsed(Loopback \cup Private) : CidrWithin(child, parent)
    /\ c.tls => c.cookieSecure
    /\ ~IsLoopback(c.listen) =>
          /\ c.allowRemote /\ c.tls
          /\ AddressInCidrs(c.listen, Parsed(Private))
    /\ AddressInCidrs(c.listen, Parsed(c.allowed))

\* Whom the administration's handler answers
Admitted(c) == {a \in Addresses : AddressInCidrs(a, Parsed(c.allowed))}

-----------------------------------------------------------------------------
(* The reference: the addresses that agree with the network bit by bit.     *)

Bit(value, k) == (value \div Power[k]) % 2

Members(address, prefix) ==
    {a \in Addresses : a.family = address.family
        /\ \A k \in (Width - prefix)..(Width - 1) : Bit(a.value, k) = Bit(address.value, k)}

\* The answers that lead to them: an IPv4 address also in its IPv6 form
Reached(address, prefix) ==
    Members(address, prefix)
    \cup {a \in Answers : a.family = Mapped /\ [a EXCEPT !.family = 4] \in Members(address, prefix)}
=============================================================================
