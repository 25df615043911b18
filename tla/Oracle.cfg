\* One question with slot counts up to the uint8 bound; roles and ownership
\* change; a manager keeps asking for a result.
CONSTANTS
  Adapter = adapter
  Admin = admin
  Actors = {admin, manager, adapter}
  Questions = {q}
  Slots = {2, 4}
  U8 = 4
  Results = {yes, equal}
  Equal = equal
  Zero = zero
SPECIFICATION FairSpec
INVARIANTS SyncedIsTrue
PROPERTIES OneResult AdapterResolves
