CONSTANT Clients <- MCClients
SPECIFICATION Spec
INVARIANTS TypeOK PointerSafe NoticedOncePerProcess NeverSilent
