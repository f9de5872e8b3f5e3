--------------------------- MODULE MCStoreClient ---------------------------
EXTENDS StoreClient
=============================================================================
