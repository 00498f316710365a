CONSTANT Clients <- MCClients
SPECIFICATION Spec
INVARIANT LegacyIsDeprecated
