SPECIFICATION FairSpec
CONSTANTS
  Tasks = {"t1", "t2"}
  Urls <- MCUrls
  Origins = {"one", "one-s", "two"}
  Hosts = {"one", "two"}
  OriginOf <- MCOriginOf
  HostOf <- MCHostOf
  Unsafe = {"b"}
  RedirectsTo <- MCRedirectsTo
  NoUrl = "none"
  NoOrigin = "none"
  RobotsFiles <- MCRobotsFiles
  min_interval = 1
  max_concurrency = 1
  max_redirects = 1
  retries = 1
  robots_ttl = 1
INVARIANTS TypeOK RobotsObeyed RequestsBounded ConcurrencyCapped
PROPERTIES HostsRest GetEnds
