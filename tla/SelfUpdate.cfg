SPECIFICATION Spec
CONSTANTS
  Updater = {dashboard, tool}
  Nobody = Nobody
  MaxRev = 4
  Signed = {1, 2, 4}
  Starts = {0, 1, 3, 4}
  Healthy = {0, 3, 4}
  require_signed = TRUE
  MaxDog = 2
  MaxEvent = 1
INVARIANTS SignedOnly CheckoutIsWhole OneHandOnCheckout OfferIsNews
PROPERTY ServiceComesBack
CHECK_DEADLOCK FALSE
