SPECIFICATION MCSpec
CONSTANTS
  Proxy = {1, 2}
  Name = {"obfs4", "snowflake", "meek"}
  None = 0
  Offers <- MCOffers
  Torrcs <- MCTorrcs
  MaxDeaths = 2
  MaxHups = 3
  Rude = FALSE
INVARIANTS ProxiesAgree
PROPERTIES ProxiesSettle Settles
CHECK_DEADLOCK FALSE
