-------------------------- MODULE IdentityDelegation --------------------------
(* From a token of an identity provider to a workload that acts for a person: *)
(* verification of the token, the membership of its subject, and the chain of *)
(* delegations.  Texts are values, and a signature is by a key or by none.    *)
EXTENDS Naturals, Sequences, FiniteSets, Folds, SequencesExt

CONSTANTS
  Refused, Missing,
  MaxDepth,         \* VIRA_DELEGATION_MAX_DEPTH
  DefaultSkew       \* the skew of an issuer's configuration that gives none

Principal(kind, id, organization) == [kind |-> kind, id |-> id, organization |-> organization]
Scope(organization, environment)  == [organization |-> organization, environment |-> environment]

\* A context knows its organization's principals.
Belongs(principal, scope) == principal.organization = scope.organization

Or(value, otherwise) == IF value = Missing THEN otherwise ELSE value

-----------------------------------------------------------------------------
\* The keys that the issuer publishes, as configured; answers are the issuer's
\* metadata and its keys (external).
Discover(configuration, metadata, keys) ==
  IF /\ metadata # Refused /\ keys # Refused
     /\ metadata.issuer = configuration.issuer
     /\ metadata.jwksUri = configuration.jwksUri
     /\ keys # <<>>
     /\ \A i, j \in DOMAIN keys : i # j => keys[i].kid # keys[j].kid
  THEN keys ELSE Refused

Signing(keys, token) ==
  {i \in DOMAIN keys : /\ keys[i].kid = token.kid
                       /\ Or(keys[i].alg, token.alg) = token.alg
                       /\ Or(keys[i].use, "sig") = "sig"}

Skew(configuration) == Or(configuration.skew, DefaultSkew)

TokenIsCurrent(configuration, token, now) ==
  LET skew == Skew(configuration) IN
    /\ token.expires + skew > now
    /\ token.notBefore # Missing => token.notBefore <= now + skew
    /\ token.issued # Missing => token.issued <= now + skew
    /\ configuration.maxAge # Missing =>
         token.issued # Missing /\ now <= token.issued + configuration.maxAge + skew

VerifyToken(configuration, keys, token, nonce, now) ==
  IF /\ keys # Refused
     /\ token.alg \in configuration.algorithms
     /\ Cardinality(Signing(keys, token)) = 1
     /\ \A i \in Signing(keys, token) : token.signedBy = keys[i].key
     /\ token.issuer = configuration.issuer
     /\ configuration.audience \in token.audience
     /\ Cardinality(token.audience) > 1 => token.party = configuration.audience
     /\ TokenIsCurrent(configuration, token, now)
     /\ nonce # Missing => token.nonce = nonce
  THEN [issuer |-> token.issuer, subject |-> token.subject, audience |-> token.audience,
        expires |-> token.expires, issued |-> token.issued, party |-> token.party]
  ELSE Refused

-----------------------------------------------------------------------------
\* The times of the identity are left to the verification of its token.
AuthorizeMembershipAnyTime(identity, membership, scope, revision, now) ==
  IF /\ Belongs(membership.principal, membership.scope)
     /\ membership.active
     /\ <<membership.issuer, membership.subject>> = <<identity.issuer, identity.subject>>
     /\ membership.scope = scope
     /\ membership.expires # Missing => membership.expires > now
     /\ revision # Missing => revision = membership.revision
  THEN [principal |-> membership.principal, scope |-> membership.scope,
        revision |-> membership.revision]
  ELSE Refused

\* identity is a verified one; revision is the one that a session holds, if any.
AuthorizeMembership(identity, membership, scope, revision, now) ==
  IF /\ identity.expires > now
     /\ identity.issued # Missing => identity.issued <= now
     /\ Belongs(membership.principal, membership.scope)
     /\ membership.active
     /\ <<membership.issuer, membership.subject>> = <<identity.issuer, identity.subject>>
     /\ membership.scope = scope
     /\ membership.expires # Missing => membership.expires > now
     /\ revision # Missing => revision = membership.revision
  THEN [principal |-> membership.principal, scope |-> membership.scope,
        revision |-> membership.revision]
  ELSE Refused

\* A grant need not name its parent.
ExtendsWithoutParent(chain, grant, scope, audience, revoked, now) ==
  /\ grant.from < grant.expires
  /\ grant.id \notin {chain.ids[i] : i \in DOMAIN chain.ids}
  /\ grant.scope = scope
  /\ grant.delegator = chain.at
  /\ grant.delegator # grant.delegate
  /\ grant.audience = audience
  /\ grant.from <= now /\ now < grant.expires
  /\ grant.id \notin revoked
  /\ grant.revoked # Missing => now < grant.revoked
  /\ Belongs(grant.delegate, scope)

\* A grant that may extend the chain which has come to a principal.
Extends(chain, grant, scope, audience, revoked, now) ==
  /\ grant.from < grant.expires
  /\ grant.id \notin {chain.ids[i] : i \in DOMAIN chain.ids}
  /\ grant.scope = scope
  /\ grant.delegator = chain.at
  /\ grant.delegator # grant.delegate
  /\ grant.parent = chain.last
  /\ grant.audience = audience
  /\ grant.from <= now /\ now < grant.expires
  /\ grant.id \notin revoked
  /\ grant.revoked # Missing => now < grant.revoked
  /\ Belongs(grant.delegate, scope)

FollowChain(start, grants, scope, audience, revoked, now) ==
  FoldLeft(LAMBDA chain, grant :
             IF chain # Refused /\ Extends(chain, grant, scope, audience, revoked, now)
             THEN [at |-> grant.delegate, last |-> grant.id, ids |-> Append(chain.ids, grant.id)]
             ELSE Refused,
           [at |-> start, last |-> Missing, ids |-> <<>>], grants)

ResolveChain(authenticated, requested, scope, audience, grants, revoked, now) ==
  IF \/ Len(grants) > MaxDepth
     \/ ~ Belongs(authenticated, scope) \/ ~ Belongs(requested, scope)
     \/ authenticated = requested /\ grants # <<>>
     \/ authenticated # requested /\ grants = <<>>
  THEN Refused
  ELSE LET chain == FollowChain(authenticated, grants, scope, audience, revoked, now) IN
       IF chain # Refused /\ chain.at = requested THEN chain.ids ELSE Refused

\* The host's binding is trusted; what it asks for comes from outside.
AuthorizeHost(binding, identity, membership, scope, grants, revoked, revision, now) ==
  LET member == AuthorizeMembership(identity, membership, scope, revision, now)
      grantIds == ResolveChain(member.principal, binding.workload, member.scope,
                               binding.audience, grants, revoked, now)
  IN IF /\ binding.audience \in identity.audience
        /\ binding.party # Missing => identity.party = binding.party
        /\ member # Refused
        /\ grantIds # Refused
     THEN [workload |-> binding.workload, for |-> member.principal, grantIds |-> grantIds,
           until |-> identity.expires]
     ELSE Refused

-----------------------------------------------------------------------------
\* The reference: grants lead from one principal to another if each begins
\* where, and names what, came before; each is good on its own, and none is
\* there twice.
LeadsFrom(a, b, grants) ==
  /\ grants # <<>> /\ grants[1].delegator = a /\ grants[Len(grants)].delegate = b
  /\ grants[1].parent = Missing
  /\ \A i \in 1..(Len(grants) - 1) :
       grants[i + 1].delegator = grants[i].delegate /\ grants[i + 1].parent = grants[i].id

\* A workload acts for a person exactly where a chain of good grants leads from
\* the one to the other; a revocation never lets anyone in, and every grant of
\* the chain is needed.
DelegationIsAPath(a, b, scope, audience, grants, revoked, now) ==
  LET answer == ResolveChain(a, b, scope, audience, grants, revoked, now)
      Live(g) == /\ g.from <= now /\ now < g.expires /\ g.id \notin revoked
                 /\ g.scope = scope /\ g.audience = audience
                 /\ g.revoked # Missing => now < g.revoked
  IN /\ answer # Refused /\ a # b =>
          /\ LeadsFrom(a, b, grants)
          /\ \A i \in DOMAIN grants : Live(grants[i]) /\ Belongs(grants[i].delegate, scope)
          /\ \A i, j \in DOMAIN grants : i # j => grants[i].id # grants[j].id
          /\ \A i \in DOMAIN grants :
               /\ ResolveChain(a, b, scope, audience, grants, revoked \cup {grants[i].id}, now) = Refused
               /\ ResolveChain(a, b, scope, audience, RemoveAt(grants, i), revoked, now) = Refused
     /\ answer = Refused =>
          \A i \in DOMAIN grants :
            ResolveChain(a, b, scope, audience, grants, revoked \cup {grants[i].id}, now) = Refused

\* A host's whole way: the issuer's keys, the token, the membership, the chain.
HostAt(c, t) ==
  LET keys == Discover(c.configuration, c.metadata, c.keys)
      identity == VerifyToken(c.configuration, keys, c.token, Missing, t)
  IN IF identity = Refused THEN Refused
     ELSE AuthorizeHost(c.binding, identity, c.membership, c.membership.scope, c.grants, {},
                        Missing, t)

Ends(c, t) ==
  \/ c.token.expires <= t
  \/ c.membership.expires # Missing /\ c.membership.expires <= t
  \/ c.configuration.maxAge # Missing /\ t > c.token.issued + c.configuration.maxAge + Skew(c.configuration)
  \/ \E i \in DOMAIN c.grants : \/ c.grants[i].expires <= t
                                \/ c.grants[i].revoked # Missing /\ c.grants[i].revoked <= t

\* The tolerance for clocks that differ ends at the token: no host is let in by
\* a token that has expired or is from the future, and one that is let in would
\* be let in any time until one of the things it relies on ends.
HostUntilTheEnd(c, now) ==
  HostAt(c, now) # Refused =>
    /\ ~ Ends(c, now)
    /\ c.token.issued # Missing => c.token.issued <= now
    /\ \A later \in now..c.token.expires : Ends(c, later) \/ HostAt(c, later) = HostAt(c, now)
=============================================================================
