CONSTANTS
  Labels <- MCLabels
  PageRefuses <- MCPageRefuses
  ServerRefuses <- MCServerRefuses
  MAX_FIELDS = 2
  MAX_OPTIONS_PER_FIELD = 2
  MAX_CHOICES = 5
  MAX_PHOTOS = 2
  BadFiles <- MCBadFiles
  Heavy <- MCHeavy
  MaxUploads = 4
  MaxGestures = 5
  FinalizeDelay = 1
  EventKinds = {"running", "church"}
  MAX_ATTEMPTS = 2
  Countdown = 1
  MaxMails = 2
  MaxClock = 2
  MaxClicks = 5
SPECIFICATION Spec
INVARIANTS ErrorsOnOwnRow PhotosStored OnlyServerKnows EventPageSound
CHECK_DEADLOCK FALSE
